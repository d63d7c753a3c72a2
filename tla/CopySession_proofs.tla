-------------------------- MODULE CopySession_proofs --------------------------
(***************************************************************************)
(* Proofs about CopySession, for any number of tables and of commits of    *)
(* the source, and any versions of the servers.  Nobody looks at what the  *)
(* statements return, so the inductive invariant IInv says what a server   *)
(* is left with: once a BEGIN was accepted, its transaction is aborted, or *)
(* it is open with everything that was asked for until now (SettingUp,     *)
(* SetUp, Imported).  What is read and then committed has it all           *)
(* (ReadingIsGood, SeenIsGood), since an aborted transaction refuses both  *)
(* COPYs.                                                                  *)
(***************************************************************************)
EXTENDS CopySession, SequenceTheorems, TLAPS

USE BoundAssumption, VersionsAssumption

(* The thread is past the setup of a side, and before its COPY there.      *)
Prepared(s) ==
  IF s = "origin"
  THEN pc \in {<<"begin", "target">>, <<"setup", "target">>, <<"copy", "origin">>}
  ELSE pc \in {<<"copy", "origin">>, <<"copy", "target">>}

(* In the setup, every setting so far is in force, or the transaction was  *)
(* aborted.                                                                *)
SettingUp ==
  \A s \in Side : pc = <<"setup", s>> =>
    /\ begun[s]
    /\ \/ session[s].tx = "aborted"
       \/ /\ session[s].tx = "open"
          /\ \A i \in 1 .. step - 1 : i \in DOMAIN SettingsOf(s) =>
               SettingsOf(s)[i] \in session[s].now_set

(* After the setup, all of them are.                                       *)
SetUp ==
  \A s \in Side : Prepared(s) /\ begun[s] =>
    \/ session[s].tx = "aborted"
    \/ session[s].tx = "open" /\ session[s].now_set = SettingNames(version[s])

(* An open transaction at the origin has the exported snapshot, if there   *)
(* is one.                                                                 *)
Imported ==
  snapshot = Exported /\ begun["origin"] /\ (Prepared("origin") \/ pc = <<"setup", "origin">>) =>
    session["origin"].tx = "aborted" \/ session["origin"].at = Exported

(* What was read inside a transaction, was read as it should be, by the    *)
(* origin and by the target.                                               *)
WellRead(r) ==
  r.begun => /\ snapshot = Exported => r.at = Exported
             /\ r.origin = SettingNames(version["origin"])
WellWritten(r) == r.begun => r.target = SettingNames(version["target"])

ReadingIsGood ==
  /\ pc \in {<<"copy", "target">>, <<"rows", "target">>, <<"finish", "origin">>,
             <<"finish", "target">>} => WellRead(reading)
  /\ pc \in {<<"rows", "target">>, <<"finish", "origin">>, <<"finish", "target">>} =>
       WellWritten(reading)

SeenIsGood ==
  \A t \in 1 .. NTable : Loaded(t) => WellRead(seen[t]) /\ WellWritten(seen[t])

(* The thread is at a table until it has none.                             *)
AtTable == pc[1] # "drained" => curr <= NTable

(* A table has no transaction on a side only after a fault, or where the   *)
(* text for the origin is garbled.                                         *)
Excused == faulted \/ Garbled("origin")

OpenedOrExcused ==
  /\ \A s \in Side : Prepared(s) => begun[s] \/ Excused
  /\ pc \in {<<"copy", "target">>, <<"rows", "target">>, <<"finish", "origin">>,
             <<"finish", "target">>} => reading.begun \/ Excused
  /\ \A t \in 1 .. NTable : Loaded(t) => seen[t].begun \/ Excused

(* Nothing is refused, lost or given up without a fault.                   *)
FaultsAreKnown ==
  /\ ~exporter => faulted
  /\ \A s \in Side : session[s].tx = "aborted" => faulted
  /\ pc[1] = "exit" => faulted

IInv ==
  /\ TypeOK
  /\ SettingUp
  /\ SetUp
  /\ Imported
  /\ ReadingIsGood
  /\ SeenIsGood
  /\ OpenedOrExcused
  /\ AtTable
  /\ FaultsAreKnown

-----------------------------------------------------------------------------
(* The statements of setup_connection: two at least and seven at most.     *)
LEMMA ConditionalSetting ==
  ASSUME NEW condition, NEW e \in AllSettings
  PROVE  When(condition, e) \in Seq(AllSettings) /\ Len(When(condition, e)) \in 0 .. 1
<1>0. /\ <<e>> \in Seq(AllSettings) /\ Len(<<e>>) = 1
      /\ <<>> \in Seq(AllSettings) /\ Len(<<>>) = 0
  OBVIOUS
<1>1. CASE condition
  BY <1>0, <1>1 DEF When
<1>2. CASE ~condition
  BY <1>0, <1>2 DEF When
<1> QED
  BY <1>1, <1>2

LEMMA LongerByOne ==
  ASSUME NEW s \in Seq(AllSettings), NEW t \in Seq(AllSettings), NEW n \in Nat, NEW m,
         m = n + 1, Len(s) \in 2 .. n, Len(t) \in 0 .. 1
  PROVE  s \o t \in Seq(AllSettings) /\ Len(s \o t) \in 2 .. m
<1>1. Len(s) \in Nat /\ Len(t) \in Nat
  BY LenProperties
<1>2. s \o t \in Seq(AllSettings) /\ Len(s \o t) = Len(s) + Len(t)
  BY ConcatProperties
<1>3. \A a, b \in Nat : a \in 2 .. n /\ b \in 0 .. 1 => a + b \in 2 .. m
  OBVIOUS
<1>4. Len(s) + Len(t) \in 2 .. m
  BY <1>1, <1>3
<1> QED
  BY <1>2, <1>4

LEMMA SettingsAreFew ==
  ASSUME NEW v \in Nat, NEW g \in BOOLEAN
  PROVE  Settings(v, g) \in Seq(AllSettings) /\ Len(Settings(v, g)) \in 2 .. 7
<1> DEFINE intervals == v >= 80400
           floats == v >= 70400
           scans == v >= 80300 /\ ~g
           statements == v >= 70300
           locks == v >= 90300
           s0 == <<"client_encoding", "datestyle">>
           s1 == s0 \o When(intervals, "intervalstyle")
           s2 == s1 \o When(floats, "extra_float_digits")
           s3 == s2 \o When(scans, "synchronize_seqscans")
           s4 == s3 \o When(statements, "statement_timeout")
           s5 == s4 \o When(locks, "lock_timeout")
<1>1. Settings(v, g) = s5
  BY DEF Settings
<1> HIDE DEF intervals, floats, scans, statements, locks
<1>2. s0 \in Seq(AllSettings) /\ Len(s0) \in 2 .. 2
  BY DEF AllSettings
<1> HIDE DEF s0
<1>3. \A condition : \A e \in AllSettings :
        When(condition, e) \in Seq(AllSettings) /\ Len(When(condition, e)) \in 0 .. 1
  BY ConditionalSetting
<1>4. s1 \in Seq(AllSettings) /\ Len(s1) \in 2 .. 3
  <2>1. "intervalstyle" \in AllSettings
    BY DEF AllSettings
  <2> QED
    BY <1>2, <1>3, <2>1, LongerByOne, 3 = 2 + 1
<1> HIDE DEF s1
<1>5. s2 \in Seq(AllSettings) /\ Len(s2) \in 2 .. 4
  <2>1. "extra_float_digits" \in AllSettings
    BY DEF AllSettings
  <2> QED
    BY <1>4, <1>3, <2>1, LongerByOne, 4 = 3 + 1
<1> HIDE DEF s2
<1>6. s3 \in Seq(AllSettings) /\ Len(s3) \in 2 .. 5
  <2>1. "synchronize_seqscans" \in AllSettings
    BY DEF AllSettings
  <2> QED
    BY <1>5, <1>3, <2>1, LongerByOne, 5 = 4 + 1
<1> HIDE DEF s3
<1>7. s4 \in Seq(AllSettings) /\ Len(s4) \in 2 .. 6
  <2>1. "statement_timeout" \in AllSettings
    BY DEF AllSettings
  <2> QED
    BY <1>6, <1>3, <2>1, LongerByOne, 6 = 5 + 1
<1> HIDE DEF s4
<1>8. s5 \in Seq(AllSettings) /\ Len(s5) \in 2 .. 7
  <2>1. "lock_timeout" \in AllSettings
    BY DEF AllSettings
  <2> QED
    BY <1>7, <1>3, <2>1, LongerByOne, 7 = 6 + 1
<1> QED
  BY <1>1, <1>8

(* For either side: its statements, and the set of them.                   *)
LEMMA SettingsOfSide ==
  ASSUME TypeOK, NEW s \in Side
  PROVE  /\ SettingsOf(s) \in Seq(AllSettings) /\ Len(SettingsOf(s)) \in 2 .. 7
         /\ DOMAIN SettingsOf(s) = 1 .. Len(SettingsOf(s))
         /\ SettingNames(version[s]) = {SettingsOf(s)[i] : i \in 1 .. Len(SettingsOf(s))}
         /\ SettingNames(version[s]) \subseteq AllSettings
<1>1. version[s] \in Nat /\ desc_is_greenplum \in BOOLEAN
  BY DEF TypeOK
<1>2. SettingsOf(s) \in Seq(AllSettings) /\ Len(SettingsOf(s)) \in 2 .. 7
  BY <1>1, SettingsAreFew DEF SettingsOf
<1>3. DOMAIN SettingsOf(s) = 1 .. Len(SettingsOf(s))
  BY <1>2
<1>4. SettingNames(version[s]) = {SettingsOf(s)[i] : i \in 1 .. Len(SettingsOf(s))}
  BY <1>3 DEF SettingNames, SettingsOf
<1>5. \A i \in 1 .. Len(SettingsOf(s)) : SettingsOf(s)[i] \in AllSettings
  BY <1>2, ElementOfSeq
<1> QED
  BY <1>2, <1>3, <1>4, <1>5

(* The servers stay what they are.                                         *)
LEMMA GivenStays ==
  ASSUME [Next]_vars
  PROVE  /\ \A s \in Side : /\ SettingsOf(s)' = SettingsOf(s)
                            /\ SettingNames(version[s])' = SettingNames(version[s])
         /\ UNCHANGED given
<1>1. UNCHANGED given
  BY DEF Next, SourceCommit, ExporterLost, Setup, Begin, ImportFails, BeginGarbled, BeginFails, SetNext,
         SetFails, SetupDone, CopyTo, CopyFrom, CopyRows, FinishOrigin, FinishTarget,
         FinishTargetFails, CopyFails, Ended, vars, given
<1> QED
  BY <1>1 DEF given, SettingsOf, SettingNames

(* The two halves of TypeOK: the connections, and everything else.         *)
Connections ==
  /\ session \in [Side -> Session]
  /\ \A s \in Side : session[s].kept \union session[s].now_set \subseteq SettingNames(version[s])

Others ==
  /\ version \in [Side -> Versions] /\ desc_is_greenplum \in BOOLEAN
  /\ snapshot \in {Exported, None} /\ now \in 0 .. MaxCommit /\ exporter \in BOOLEAN
  /\ pc \in {"begin", "setup", "copy", "rows", "finish", "exit", "drained"} \X Side
  /\ curr \in 1 .. NTable + 1 /\ step \in 1 .. 9
  /\ begun \in [Side -> BOOLEAN]
  /\ reading \in Reading /\ seen \in [1 .. NTable -> Reading]
  /\ faulted \in BOOLEAN

LEMMA Halves ==
  TypeOK <=> Connections /\ Others
BY DEF TypeOK, Connections, Others

(* A connection that is replaced by another of its type.                   *)
LEMMA Replaced ==
  ASSUME IInv, [Next]_vars, NEW s \in Side, NEW new, new \in Session, Doing(s, new),
         new.now_set \subseteq session[s].now_set \union SettingNames(version[s]),
         new.kept \subseteq session[s].kept \union session[s].now_set
  PROVE  Connections'
<1>1. session' \in [Side -> Session]
  BY DEF Doing, IInv, TypeOK
<1>2. session'[s] = new /\ \A r \in Side \ {s} : session'[r] = session[r]
  BY DEF Doing, IInv, TypeOK
<1>3. \A r \in Side : session[r].kept \union session[r].now_set \subseteq SettingNames(version[r])
  BY DEF IInv, TypeOK
<1>4. new.kept \union new.now_set \subseteq SettingNames(version[s])
  BY <1>3
<1>5. \A r \in Side : session'[r].kept \union session'[r].now_set \subseteq SettingNames(version[r])
  BY <1>2, <1>3, <1>4
<1> QED
  BY <1>1, <1>5, GivenStays DEF Connections

(* The connections stay connections, and no server has a setting that      *)
(* setup_connection does not make there.                                   *)
LEMMA ConnectionsStep ==
  ASSUME IInv, [Next]_vars
  PROVE  Connections'
<1>1. UNCHANGED session => Connections'
  BY GivenStays, Halves DEF IInv, Connections
<1>2. /\ snapshot \in {Exported, None}
      /\ session \in [Side -> Session]
  BY DEF IInv, TypeOK
<1>3. ASSUME NEW s \in Side, NEW new, new \in Session, Doing(s, new),
             new.now_set \subseteq session[s].now_set \union SettingNames(version[s]),
             new.kept \subseteq session[s].kept \union session[s].now_set
      PROVE  Connections'
  BY <1>3, Replaced
<1>4. ASSUME NEW s \in Side, Setup(s) PROVE Connections'
  <2> DEFINE c == session[s]
  <2>0. c \in Session
    BY <1>2
  <2>1. CASE Begin(s)
    <3> DEFINE at == IF Imports(s) THEN snapshot ELSE None
               new == [c EXCEPT !.tx = "open", !.at = at]
    <3>0. at \in {Exported, None}
      BY <1>2
    <3> HIDE DEF at
    <3>1. new \in Session /\ new.now_set = c.now_set /\ new.kept = c.kept
      BY <2>0, <3>0 DEF Session
    <3> USE DEF at
    <3>2. Doing(s, new)
      BY <2>1 DEF Begin
    <3> HIDE DEF new
    <3> QED
      BY <3>1, <3>2, <1>3
  <2>2. CASE ImportFails(s)
    <3> DEFINE new == [c EXCEPT !.tx = "aborted", !.at = None]
    <3>1. new \in Session /\ new.now_set = c.now_set /\ new.kept = c.kept
      BY <2>0 DEF Session
    <3>2. Doing(s, new)
      BY <2>2 DEF ImportFails
    <3> HIDE DEF new
    <3> QED
      BY <3>1, <3>2, <1>3
  <2>3. CASE SetNext(s)
    <3> DEFINE new == [c EXCEPT !.now_set = @ \union {SettingsOf(s)[step]}]
    <3>1. SettingsOf(s)[step] \in SettingNames(version[s]) /\ SettingNames(version[s]) \subseteq AllSettings
      <4>1. step \in 1 .. Len(SettingsOf(s))
        BY <2>3, SettingsOfSide DEF SetNext, IInv, TypeOK
      <4> QED
        BY <4>1, SettingsOfSide DEF IInv
    <3>2. new \in Session /\ new.now_set = c.now_set \union {SettingsOf(s)[step]} /\ new.kept = c.kept
      BY <2>0, <3>1 DEF Session
    <3>3. Doing(s, new)
      BY <2>3 DEF SetNext
    <3> HIDE DEF new
    <3> QED
      BY <3>1, <3>2, <3>3, <1>3
  <2>4. CASE SetFails(s)
    <3> DEFINE new == [c EXCEPT !.tx = "aborted"]
    <3>1. new \in Session /\ new.now_set = c.now_set /\ new.kept = c.kept
      BY <2>0 DEF Session
    <3>2. UNCHANGED session \/ Doing(s, new)
      BY <1>2, <2>4 DEF SetFails, Refused, Doing
    <3> HIDE DEF new
    <3> QED
      BY <3>1, <3>2, <1>1, <1>3
  <2> QED
    BY <1>1, <1>4, <2>1, <2>2, <2>3, <2>4 DEF Setup, BeginGarbled, BeginFails, SetupDone
<1>5. ASSUME NEW s \in Side, Doing(s, RollsBack(s)) PROVE Connections'
  <2>1. /\ RollsBack(s) \in Session /\ RollsBack(s).now_set = session[s].kept
        /\ RollsBack(s).kept = session[s].kept
    BY <1>2 DEF Session, RollsBack
  <2>2. session[s].kept \subseteq SettingNames(version[s])
    BY DEF IInv, TypeOK
  <2> QED
    BY <1>5, <2>1, <2>2, <1>3
<1>6. CASE FinishTarget
  <2>1. /\ Commits("target") \in Session /\ Commits("target").now_set = session["target"].now_set
        /\ Commits("target").kept = session["target"].now_set
    BY <1>2 DEF Session, Commits, Side
  <2> QED
    BY <1>6, <2>1, <1>3 DEF FinishTarget, Side
<1> QED
  BY <1>1, <1>4, <1>5, <1>6 DEF Next, SourceCommit, ExporterLost, CopyTo, CopyFrom, CopyRows,
     FinishOrigin, FinishTargetFails, CopyFails, Ended, vars, Side

(* Everything else keeps its type, too.                                    *)
LEMMA OthersStep ==
  ASSUME IInv, [Next]_vars
  PROVE  Others'
<1> USE DEF IInv, TypeOK, Others, given, Doing, AtTable
<1>1. CASE SourceCommit
  BY <1>1 DEF SourceCommit
<1>2. CASE ExporterLost
  BY <1>2 DEF ExporterLost
<1>3. ASSUME NEW s \in Side, Setup(s) PROVE Others'
  <2>0. Len(SettingsOf(s)) \in 2 .. 7
    BY SettingsOfSide
  <2>1. AfterSetup(s) \in {"begin", "copy"} \X Side /\ <<"setup", s>> \in {"setup"} \X Side
    BY DEF AfterSetup, Side
  <2>2. [begun EXCEPT ![s] = TRUE] \in [Side -> BOOLEAN] /\ [begun EXCEPT ![s] = FALSE] \in [Side -> BOOLEAN]
    OBVIOUS
  <2>3. CASE Begin(s)
    BY <2>1, <2>2, <2>3 DEF Begin
  <2>4. CASE ImportFails(s)
    BY <2>1, <2>2, <2>4 DEF ImportFails
  <2>5. CASE BeginFails(s)
    BY <2>1, <2>2, <2>5 DEF BeginFails
  <2>10. CASE BeginGarbled(s)
    BY <2>1, <2>2, <2>10 DEF BeginGarbled
  <2> HIDE DEF IInv, Doing
  <2>6. step <= Len(SettingsOf(s)) => step + 1 \in 1 .. 9
    <3>1. step \in 1 .. 9
      BY DEF IInv
    <3>2. \A i \in 1 .. 9, n \in 2 .. 7 : i <= n => i + 1 \in 1 .. 9
      OBVIOUS
    <3> QED
      BY <3>1, <3>2, <2>0
  <2>7. CASE SetNext(s)
    BY <2>6, <2>7 DEF SetNext, IInv
  <2>9. CASE SetFails(s)
    BY <2>1, <2>6, <2>9 DEF SetFails, IInv
  <2>8. CASE SetupDone(s)
    BY <2>1, <2>8 DEF SetupDone, IInv
  <2> QED
    BY <1>3, <2>3, <2>4, <2>5, <2>7, <2>8, <2>9, <2>10 DEF Setup
<1>4. CASE CopyTo
  <2>1. ReadTime \in Int
    BY DEF ReadTime, Session, Side, Exported, None
  <2>2. session["origin"].now_set \subseteq AllSettings /\ begun["origin"] \in BOOLEAN
    BY DEF Session, Side
  <2>3. [at |-> ReadTime, origin |-> session["origin"].now_set, target |-> {},
         begun |-> begun["origin"]] \in Reading
    BY <2>1, <2>2 DEF Reading
  <2>4. <<"copy", "target">> \in {"copy"} \X Side
    BY DEF Side
  <2> QED
    BY <1>4, <2>3, <2>4 DEF CopyTo
<1>5. CASE CopyFrom
  <2>1. session["target"].now_set \subseteq AllSettings /\ begun["target"] \in BOOLEAN
    BY DEF Session, Side
  <2>2. [reading EXCEPT !.target = session["target"].now_set,
                        !.begun = @ /\ begun["target"]] \in Reading
    BY <2>1 DEF Reading
  <2>3. <<"rows", "target">> \in {"rows"} \X Side
    BY DEF Side
  <2> QED
    BY <1>5, <2>2, <2>3 DEF CopyFrom
<1>6. [seen EXCEPT ![curr] = reading] \in [1 .. NTable -> Reading]
  OBVIOUS
<1>7. CASE CopyRows
  BY <1>6, <1>7 DEF CopyRows, Side
<1>8. CASE FinishOrigin
  BY <1>8 DEF FinishOrigin, Side
<1>9. NextTable /\ pc[1] # "drained" =>
        /\ curr' \in 1 .. NTable + 1
        /\ pc' \in {"begin", "drained"} \X Side
  BY DEF NextTable, Side
<1>10. CASE FinishTarget
  BY <1>6, <1>9, <1>10 DEF FinishTarget
<1>11. CASE FinishTargetFails
  BY <1>9, <1>11 DEF FinishTargetFails
<1>12. CASE CopyFails
  <2>1. \A s \in Side : <<"exit", s>> \in {"exit"} \X Side
    OBVIOUS
  <2> QED
    BY <1>12, <2>1 DEF CopyFails
<1>13. CASE UNCHANGED vars
  BY <1>13 DEF vars
<1> QED
  BY <1>1, <1>2, <1>3, <1>4, <1>5, <1>7, <1>8, <1>10, <1>11, <1>12, <1>13 DEF Next, Ended

(* A transaction in setup has every setting that was made, since it is     *)
(* aborted when one is refused.                                            *)
LEMMA SettingUpStep ==
  ASSUME IInv, [Next]_vars
  PROVE  SettingUp'
<1>0. /\ session \in [Side -> Session] /\ begun \in [Side -> BOOLEAN] /\ step \in 1 .. 9
      /\ \A s \in Side : SettingsOf(s)' = SettingsOf(s)
      /\ SettingUp
  BY GivenStays DEF IInv, TypeOK
<1>1. UNCHANGED <<session, pc, begun, step>> => SettingUp'
  BY <1>0 DEF SettingUp
<1>2. (\A s \in Side : pc' # <<"setup", s>>) => SettingUp'
  BY DEF SettingUp
<1>3. ASSUME NEW s \in Side, Setup(s) PROVE SettingUp'
  <2>0. \A r \in Side : AfterSetup(s) # <<"setup", r>>
    BY DEF AfterSetup
  <2>1. CASE Begin(s)
    BY <1>0, <2>1 DEF Begin, Doing, SettingUp
  <2>2. CASE ImportFails(s) \/ BeginGarbled(s) \/ BeginFails(s) \/ SetupDone(s)
    BY <1>2, <2>0, <2>2 DEF ImportFails, BeginGarbled, BeginFails, SetupDone
  <2>3. CASE SetNext(s)
    <3>1. session'[s].tx = "open" /\ session'[s].now_set = session[s].now_set \union {SettingsOf(s)[step]}
      BY <1>0, <2>3 DEF SetNext, Doing, SettingUp, Session
    <3>2. \A i \in 1 .. step : i = step \/ i \in 1 .. step - 1
      BY <1>0
    <3>3. \A i \in 1 .. step' - 1 : i \in DOMAIN SettingsOf(s) => SettingsOf(s)[i] \in session'[s].now_set
      BY <1>0, <2>3, <3>1, <3>2 DEF SetNext, SettingUp
    <3>4. pc' = <<"setup", s>> /\ begun'[s]
      BY <1>0, <2>3 DEF SetNext, SettingUp
    <3> QED
      BY <1>0, <3>1, <3>3, <3>4 DEF SettingUp
  <2>4. CASE SetFails(s)
    <3>1. session'[s].tx = "aborted"
      BY <1>0, <2>4 DEF SetFails, Refused, Doing, SettingUp, Session
    <3>2. begun'[s] /\ (pc' = <<"setup", s>> \/ pc' = AfterSetup(s))
      BY <1>0, <2>4 DEF SetFails, SettingUp
    <3> QED
      BY <3>1, <3>2, <2>0 DEF SettingUp
  <2> QED
    BY <1>3, <2>1, <2>2, <2>3, <2>4 DEF Setup
<1>4. CASE SourceCommit \/ ExporterLost \/ UNCHANGED vars
  BY <1>1, <1>4 DEF SourceCommit, ExporterLost, vars
<1>5. CASE CopyTo \/ CopyFrom \/ CopyRows \/ FinishOrigin \/ FinishTarget \/ FinishTargetFails \/ CopyFails
  BY <1>2, <1>5 DEF CopyTo, CopyFrom, CopyRows, FinishOrigin, FinishTarget, FinishTargetFails,
     CopyFails, NextTable
<1> QED
  BY <1>3, <1>4, <1>5 DEF Next, Ended

(* A side that is prepared has all its settings, and its connection is     *)
(* left alone until the COPY.                                              *)
LEMMA SetUpStep ==
  ASSUME IInv, [Next]_vars
  PROVE  SetUp'
<1>0. /\ session \in [Side -> Session] /\ begun \in [Side -> BOOLEAN] /\ step \in 1 .. 9
      /\ \A s \in Side : SettingNames(version[s])' = SettingNames(version[s])
      /\ SetUp /\ SettingUp
  BY GivenStays DEF IInv, TypeOK
<1> USE DEF Side
<1>1. ASSUME NEW s \in Side, Setup(s) PROVE SetUp'
  <2>1. CASE Begin(s)
    BY <1>0, <2>1 DEF Begin, Doing, SetUp, Prepared
  <2>2. CASE ImportFails(s)
    BY <1>0, <2>2 DEF ImportFails, Doing, SetUp, Prepared, AfterSetup
  <2>3. CASE BeginGarbled(s) \/ BeginFails(s)
    BY <1>0, <2>3 DEF BeginGarbled, BeginFails, SetUp, Prepared, AfterSetup
  <2>4. CASE SetNext(s)
    BY <1>0, <2>4 DEF SetNext, Doing, SetUp, Prepared
  <2>5. CASE SetFails(s)
    <3>1. session'[s].tx = "aborted"
      BY <1>0, <2>5 DEF SetFails, Refused, Doing, SettingUp, Session
    <3> QED
      BY <1>0, <2>5, <3>1 DEF SetFails, Refused, Doing, SetUp, Prepared, AfterSetup
  <2>6. CASE SetupDone(s)
    <3>1. session[s].tx = "aborted" \/
            (session[s].tx = "open" /\ SettingNames(version[s]) \subseteq session[s].now_set)
      <4>1. /\ Len(SettingsOf(s)) \in 2 .. 7
            /\ DOMAIN SettingsOf(s) = 1 .. Len(SettingsOf(s))
            /\ SettingNames(version[s]) = {SettingsOf(s)[i] : i \in 1 .. Len(SettingsOf(s))}
        BY SettingsOfSide DEF IInv
      <4>2. \A i \in 1 .. Len(SettingsOf(s)) : i \in 1 .. step - 1
        BY <1>0, <2>6, <4>1 DEF SetupDone
      <4> QED
        BY <1>0, <2>6, <4>1, <4>2 DEF SetupDone, SettingUp
    <3>2. session[s].now_set \subseteq SettingNames(version[s])
      BY DEF IInv, TypeOK
    <3>3. session[s].tx = "aborted" \/
            (session[s].tx = "open" /\ session[s].now_set = SettingNames(version[s]))
      BY <3>1, <3>2
    <3>4. \A r \in Side : Prepared(r)' => r = s \/ Prepared(r)
      BY <2>6 DEF SetupDone, Prepared, AfterSetup
    <3> QED
      BY <1>0, <2>6, <3>3, <3>4 DEF SetupDone, SetUp
  <2> QED
    BY <1>1, <2>1, <2>2, <2>3, <2>4, <2>5, <2>6 DEF Setup
<1>2. CASE SourceCommit \/ ExporterLost \/ UNCHANGED vars
  BY <1>0, <1>2 DEF SourceCommit, ExporterLost, vars, SetUp, Prepared
<1>3. CASE CopyTo
  BY <1>0, <1>3 DEF CopyTo, SetUp, Prepared
<1>4. CASE CopyFrom \/ CopyRows \/ FinishOrigin \/ FinishTarget \/ FinishTargetFails \/ CopyFails
  BY <1>4 DEF CopyFrom, CopyRows, FinishOrigin, FinishTarget, FinishTargetFails, CopyFails,
     NextTable, SetUp, Prepared
<1> QED
  BY <1>1, <1>2, <1>3, <1>4 DEF Next, Ended

(* The snapshot is imported with the BEGIN or the transaction is aborted.  *)
LEMMA ImportedStep ==
  ASSUME IInv, [Next]_vars
  PROVE  Imported'
<1>0. /\ session \in [Side -> Session] /\ begun \in [Side -> BOOLEAN]
      /\ UNCHANGED snapshot
      /\ Imported
  BY GivenStays DEF IInv, TypeOK, given
<1> USE DEF Side
<1>1. ASSUME NEW s \in Side, Setup(s) PROVE Imported'
  <2>1. CASE Begin(s)
    BY <1>0, <2>1 DEF Begin, Doing, Imported, Prepared, Session, Imports, None, Exported
  <2>2. CASE ImportFails(s)
    BY <1>0, <2>2 DEF ImportFails, Doing, Imported, Prepared, AfterSetup, Session
  <2>3. CASE BeginGarbled(s) \/ BeginFails(s)
    BY <1>0, <2>3 DEF BeginGarbled, BeginFails, Imported, Prepared, AfterSetup
  <2>4. CASE SetNext(s)
    BY <1>0, <2>4 DEF SetNext, Doing, Imported, Prepared, Session
  <2>5. CASE SetFails(s)
    BY <1>0, <2>5 DEF SetFails, Refused, Doing, Imported, Prepared, AfterSetup, Session
  <2>6. CASE SetupDone(s)
    BY <1>0, <2>6 DEF SetupDone, Imported, Prepared, AfterSetup
  <2> QED
    BY <1>1, <2>1, <2>2, <2>3, <2>4, <2>5, <2>6 DEF Setup
<1>2. CASE SourceCommit \/ ExporterLost \/ UNCHANGED vars
  BY <1>0, <1>2 DEF SourceCommit, ExporterLost, vars, Imported, Prepared
<1>3. CASE \/ CopyTo \/ CopyFrom \/ CopyRows \/ FinishOrigin \/ FinishTarget
           \/ FinishTargetFails \/ CopyFails
  BY <1>3 DEF CopyTo, CopyFrom, CopyRows, FinishOrigin, FinishTarget, FinishTargetFails,
     CopyFails, NextTable, Imported, Prepared
<1> QED
  BY <1>1, <1>2, <1>3 DEF Next, Ended

(* A COPY is accepted only in a transaction that is whole.                 *)
LEMMA ReadingStep ==
  ASSUME IInv, [Next]_vars
  PROVE  ReadingIsGood'
<1>0. /\ begun \in [Side -> BOOLEAN] /\ reading \in Reading
      /\ UNCHANGED snapshot
      /\ \A s \in Side : SettingNames(version[s])' = SettingNames(version[s])
      /\ SetUp /\ Imported /\ ReadingIsGood
  BY GivenStays DEF IInv, TypeOK, given
<1>1. /\ \A r : WellRead(r)' <=> WellRead(r)
      /\ \A r : WellWritten(r)' <=> WellWritten(r)
  BY <1>0 DEF WellRead, WellWritten, Side
<1>2. ASSUME NEW s \in Side, Setup(s) PROVE ReadingIsGood'
  BY <1>2 DEF Setup, Begin, ImportFails, BeginGarbled, BeginFails, SetNext, SetFails, SetupDone,
     AfterSetup, ReadingIsGood
<1>3. CASE SourceCommit \/ ExporterLost \/ UNCHANGED vars
  BY <1>0, <1>1, <1>3 DEF SourceCommit, ExporterLost, vars, ReadingIsGood
<1>4. CASE CopyTo
  <2>1. begun["origin"] => /\ session["origin"].now_set = SettingNames(version["origin"])
                           /\ snapshot = Exported => session["origin"].at = Exported
    BY <1>0, <1>4 DEF CopyTo, SetUp, Imported, Prepared, Side
  <2>2. /\ reading'.begun = begun["origin"]
        /\ reading'.origin = session["origin"].now_set
        /\ session["origin"].at = Exported => reading'.at = Exported
    BY <1>4 DEF CopyTo, ReadTime, None, Exported
  <2>3. WellRead(reading')
    BY <2>1, <2>2 DEF WellRead
  <2> QED
    BY <1>1, <1>4, <2>3 DEF CopyTo, ReadingIsGood
<1>5. CASE CopyFrom
  <2>1. begun["target"] => session["target"].now_set = SettingNames(version["target"])
    BY <1>0, <1>5 DEF CopyFrom, SetUp, Prepared, Side
  <2>2. /\ reading'.begun => reading.begun /\ begun["target"]
        /\ reading'.origin = reading.origin /\ reading'.at = reading.at
        /\ reading'.target = session["target"].now_set
    BY <1>0, <1>5 DEF CopyFrom, Reading
  <2>3. WellRead(reading)
    BY <1>0, <1>5 DEF CopyFrom, ReadingIsGood
  <2>4. WellRead(reading') /\ WellWritten(reading')
    BY <2>1, <2>2, <2>3 DEF WellRead, WellWritten
  <2> QED
    BY <1>1, <1>5, <2>4 DEF CopyFrom, ReadingIsGood
<1>6. CASE CopyRows \/ FinishOrigin
  BY <1>0, <1>1, <1>6 DEF CopyRows, FinishOrigin, ReadingIsGood
<1>7. CASE FinishTarget \/ FinishTargetFails \/ CopyFails
  BY <1>7 DEF FinishTarget, FinishTargetFails, CopyFails, NextTable, ReadingIsGood
<1> QED
  BY <1>2, <1>3, <1>4, <1>5, <1>6, <1>7 DEF Next, Ended

(* What is committed is what was read.                                     *)
LEMMA SeenStep ==
  ASSUME IInv, [Next]_vars
  PROVE  SeenIsGood'
<1>0. /\ seen \in [1 .. NTable -> Reading]
      /\ UNCHANGED snapshot
      /\ \A s \in Side : SettingNames(version[s])' = SettingNames(version[s])
      /\ ReadingIsGood /\ SeenIsGood
  BY GivenStays DEF IInv, TypeOK, given
<1>1. /\ \A r : WellRead(r)' <=> WellRead(r)
      /\ \A r : WellWritten(r)' <=> WellWritten(r)
  BY <1>0 DEF WellRead, WellWritten, Side
<1>2. UNCHANGED seen => SeenIsGood'
  BY <1>0, <1>1 DEF SeenIsGood, Loaded
<1>3. pc \in {<<"rows", "target">>, <<"finish", "target">>} /\ seen' = [seen EXCEPT ![curr] = reading]
        => SeenIsGood'
  BY <1>0, <1>1 DEF SeenIsGood, Loaded, ReadingIsGood
<1>4. CASE CopyRows
  BY <1>2, <1>3, <1>4 DEF CopyRows
<1>5. CASE FinishTarget
  BY <1>2, <1>3, <1>5 DEF FinishTarget
<1> QED
  BY <1>2, <1>4, <1>5 DEF Next, Ended, vars, SourceCommit, ExporterLost, Setup, Begin, ImportFails,
     BeginGarbled, BeginFails, SetNext, SetFails, SetupDone, CopyTo, CopyFrom, FinishOrigin,
     FinishTargetFails, CopyFails

(* A table stays without a transaction only with an excuse, which stays.   *)
LEMMA OpenedStep ==
  ASSUME IInv, [Next]_vars
  PROVE  OpenedOrExcused'
<1>0. /\ begun \in [Side -> BOOLEAN] /\ reading \in Reading /\ seen \in [1 .. NTable -> Reading]
      /\ Garbled("origin")' = Garbled("origin")
      /\ OpenedOrExcused
  BY GivenStays DEF IInv, TypeOK, given, Garbled
<1>1. UNCHANGED faulted => Excused' = Excused
  BY <1>0 DEF Excused
<1>2. faulted' => OpenedOrExcused'
  BY DEF OpenedOrExcused, Excused
<1> USE DEF Side
<1>3. ASSUME NEW s \in Side, Setup(s) PROVE OpenedOrExcused'
  <2>1. CASE Begin(s)
    BY <1>0, <1>1, <2>1 DEF Begin, OpenedOrExcused, Prepared, Loaded
  <2>2. CASE ImportFails(s)
    <3>1. faulted' = faulted \/ faulted'
      BY <2>2 DEF ImportFails, IInv, TypeOK
    <3> QED
      BY <1>0, <1>1, <1>2, <2>2, <3>1 DEF ImportFails, OpenedOrExcused, Prepared, AfterSetup, Loaded
  <2>3. CASE BeginGarbled(s)
    BY <1>0, <1>1, <2>3 DEF BeginGarbled, Garbled, Excused, OpenedOrExcused
  <2>4. CASE BeginFails(s)
    BY <1>2, <2>4 DEF BeginFails
  <2>5. CASE SetNext(s)
    BY <1>0, <1>1, <2>5 DEF SetNext, OpenedOrExcused, Prepared, Loaded
  <2>6. CASE SetFails(s)
    BY <1>2, <2>6 DEF SetFails
  <2>7. CASE SetupDone(s)
    <3>1. begun[s]
      BY <2>7 DEF SetupDone, IInv, SettingUp
    <3> QED
      BY <1>0, <1>1, <2>7, <3>1 DEF SetupDone, OpenedOrExcused, Prepared, AfterSetup, Loaded
  <2> QED
    BY <1>3, <2>1, <2>2, <2>3, <2>4, <2>5, <2>6, <2>7 DEF Setup
<1>4. CASE SourceCommit \/ UNCHANGED vars
  BY <1>0, <1>1, <1>4 DEF SourceCommit, vars, OpenedOrExcused, Prepared, Loaded
<1>5. CASE ExporterLost \/ FinishTargetFails
  BY <1>2, <1>5 DEF ExporterLost, FinishTargetFails
<1>6. CASE CopyTo
  BY <1>0, <1>1, <1>6 DEF CopyTo, OpenedOrExcused, Prepared, Loaded
<1>7. CASE CopyFrom
  <2>1. reading'.begun = (reading.begun /\ begun["target"])
    BY <1>0, <1>7 DEF CopyFrom, Reading
  <2> QED
    BY <1>0, <1>1, <1>7, <2>1 DEF CopyFrom, OpenedOrExcused, Prepared, Loaded
<1>8. ASSUME OpenedOrExcused, reading.begun \/ Excused, UNCHANGED faulted,
             seen' = seen \/ seen' = [seen EXCEPT ![curr] = reading]
      PROVE  \A t \in 1 .. NTable : Loaded(t)' => seen'[t].begun \/ Excused'
  BY <1>0, <1>1, <1>8 DEF OpenedOrExcused, Loaded
<1>9. CASE CopyRows
  <2>1. \A t \in 1 .. NTable : Loaded(t)' => seen'[t].begun \/ Excused'
    BY <1>0, <1>8, <1>9 DEF CopyRows, OpenedOrExcused
  <2> QED
    BY <1>0, <1>1, <1>9, <2>1 DEF CopyRows, OpenedOrExcused, Prepared
<1>10. CASE FinishOrigin
  BY <1>0, <1>1, <1>10 DEF FinishOrigin, OpenedOrExcused, Prepared, Loaded
<1>11. CASE FinishTarget
  <2>1. \A t \in 1 .. NTable : Loaded(t)' => seen'[t].begun \/ Excused'
    BY <1>0, <1>8, <1>11 DEF FinishTarget, OpenedOrExcused
  <2> QED
    BY <1>0, <1>1, <1>11, <2>1 DEF FinishTarget, NextTable, OpenedOrExcused, Prepared
<1>12. CASE CopyFails
  <2>1. UNCHANGED faulted \/ faulted'
    BY <1>12 DEF CopyFails
  <2> QED
    BY <1>0, <1>1, <1>2, <1>12, <2>1 DEF CopyFails, OpenedOrExcused, Prepared, Loaded
<1> QED
  BY <1>3, <1>4, <1>5, <1>6, <1>7, <1>9, <1>10, <1>11, <1>12 DEF Next, Ended

LEMMA AtTableStep ==
  ASSUME IInv, [Next]_vars
  PROVE  AtTable'
<1>0. curr \in 1 .. NTable + 1 /\ AtTable
  BY DEF IInv, TypeOK
<1>1. NextTable => AtTable'
  BY <1>0 DEF NextTable, AtTable
<1>2. pc[1] # "drained" /\ UNCHANGED curr => AtTable'
  BY <1>0 DEF AtTable
<1>3. CASE SourceCommit \/ ExporterLost \/ UNCHANGED vars
  BY <1>0, <1>3 DEF SourceCommit, ExporterLost, vars, AtTable
<1>4. ASSUME NEW s \in Side, Setup(s) PROVE AtTable'
  BY <1>2, <1>4 DEF Setup, Begin, ImportFails, BeginGarbled, BeginFails, SetNext, SetFails,
     SetupDone
<1> QED
  BY <1>1, <1>2, <1>3, <1>4 DEF Next, Ended, CopyTo, CopyFrom, CopyRows, FinishOrigin,
     FinishTarget, FinishTargetFails, CopyFails

(* A transaction is aborted by a fault only: the isolation level goes with *)
(* the snapshot wherever the text is not garbled.                          *)
LEMMA FaultsStep ==
  ASSUME IInv, [Next]_vars
  PROVE  FaultsAreKnown'
<1>0. /\ session \in [Side -> Session] /\ exporter \in BOOLEAN
      /\ faulted \in BOOLEAN
      /\ FaultsAreKnown
  BY DEF IInv, TypeOK
<1>1. ASSUME NEW s \in Side, Setup(s) PROVE FaultsAreKnown'
  <2>0. AfterSetup(s)[1] # "exit"
    BY DEF AfterSetup
  <2>1. CASE Begin(s)
    BY <1>0, <2>1 DEF Begin, Doing, FaultsAreKnown, Session
  <2>2. CASE ImportFails(s)
    <3>1. faulted'
      BY <1>0, <2>2 DEF ImportFails, Imports, Garbled, Importable, Isolation, FaultsAreKnown
    <3> QED
      BY <3>1 DEF FaultsAreKnown
  <2>7. CASE BeginGarbled(s)
    BY <1>0, <2>0, <2>7 DEF BeginGarbled, FaultsAreKnown
  <2>3. CASE BeginFails(s)
    BY <1>0, <2>0, <2>3 DEF BeginFails, FaultsAreKnown
  <2>4. CASE SetNext(s)
    BY <1>0, <2>4 DEF SetNext, Doing, FaultsAreKnown, Session
  <2>5. CASE SetFails(s)
    BY <1>0, <2>0, <2>5 DEF SetFails, FaultsAreKnown
  <2>6. CASE SetupDone(s)
    BY <1>0, <2>0, <2>6 DEF SetupDone, FaultsAreKnown
  <2> QED
    BY <1>1, <2>1, <2>2, <2>3, <2>4, <2>5, <2>6, <2>7 DEF Setup
<1>2. CASE SourceCommit \/ CopyTo \/ CopyFrom \/ CopyRows \/ UNCHANGED vars
  BY <1>0, <1>2 DEF SourceCommit, CopyTo, CopyFrom, CopyRows, vars, FaultsAreKnown
<1>3. CASE ExporterLost \/ FinishTargetFails
  BY <1>3 DEF ExporterLost, FinishTargetFails, FaultsAreKnown
<1>4. CASE FinishOrigin
  BY <1>0, <1>4 DEF FinishOrigin, Doing, RollsBack, Side, Session, FaultsAreKnown
<1>5. CASE FinishTarget
  BY <1>0, <1>5 DEF FinishTarget, Doing, Commits, NextTable, Side, Session, FaultsAreKnown
<1>6. CASE CopyFails
  BY <1>0, <1>6 DEF CopyFails, FaultsAreKnown
<1> QED
  BY <1>1, <1>2, <1>3, <1>4, <1>5, <1>6 DEF Next, Ended

-----------------------------------------------------------------------------
(* The first connections are fresh.                                        *)
LEMMA Initially ==
  Init => IInv
<1> SUFFICES ASSUME Init PROVE IInv
  OBVIOUS
<1>1. TypeOK
  <2>1. Fresh \in Session
    BY DEF Fresh, Session
  <2>2. Nothing \in Reading
    BY DEF Nothing, Reading, None
  <2>3. /\ 0 \in 0 .. MaxCommit /\ 1 \in 1 .. NTable + 1
        /\ <<"begin", "origin">> \in {"begin"} \X Side
    BY DEF Side
  <2>4. Fresh.kept \union Fresh.now_set = {}
    BY DEF Fresh
  <2>5. \A s \in Side : session[s].kept \union session[s].now_set \subseteq SettingNames(version[s])
    BY <2>4 DEF Init
  <2>6. Connections
    BY <2>1, <2>5 DEF Init, Connections
  <2>7. /\ now \in 0 .. MaxCommit /\ curr \in 1 .. NTable + 1 /\ step \in 1 .. 9
        /\ pc \in {"begin", "setup", "copy", "rows", "finish", "exit", "drained"} \X Side
    BY <2>3 DEF Init
  <2>8. begun \in [Side -> BOOLEAN] /\ reading \in Reading /\ seen \in [1 .. NTable -> Reading]
    BY <2>2 DEF Init
  <2>10. version \in [Side -> Versions] /\ desc_is_greenplum \in BOOLEAN /\ snapshot \in {Exported, None}
    BY DEF Init
  <2>11. exporter = TRUE /\ faulted = FALSE
    BY ZenonT(30) DEF Init
  <2>9. Others
    BY <2>7, <2>8, <2>10, <2>11 DEF Others
  <2> QED
    BY <2>6, <2>9, Halves
<1>2. SettingUp /\ SetUp /\ Imported /\ ReadingIsGood
  BY DEF Init, SettingUp, SetUp, Imported, ReadingIsGood, Prepared, Side
<1>3. SeenIsGood /\ OpenedOrExcused /\ AtTable /\ FaultsAreKnown
  BY DEF Init, SeenIsGood, OpenedOrExcused, Prepared, Loaded, AtTable, FaultsAreKnown, Fresh, Side
<1> QED
  BY <1>1, <1>2, <1>3 DEF IInv

(* The invariant that all of the theorems below follow from.               *)
THEOREM Inductive ==
  Spec => []IInv
<1>1. Init => IInv
  BY Initially
<1>2. IInv /\ [Next]_vars => IInv'
  <2>1. Connections' /\ Others' => TypeOK'
    BY Halves, PTL
  <2> QED
    BY <2>1, ConnectionsStep, OthersStep, SettingUpStep, SetUpStep, ImportedStep, ReadingStep,
       SeenStep, OpenedStep, AtTableStep, FaultsStep DEF IInv
<1> QED
  BY <1>1, <1>2, PTL DEF Spec

(* Every variable of the two sessions and of the thread keeps its type; a  *)
(* connection never has a setting that setup_connection does not make on a *)
(* server of its version.                                                  *)
THEOREM Typing ==
  Spec => []TypeOK
BY Inductive, PTL DEF IInv

(* When the main thread exported a snapshot, every table that was loaded   *)
(* inside transactions shows the source at that moment; and every table    *)
(* was, unless a server refused something or the target is a Greenplum,    *)
(* for which the text of the BEGIN is garbled.                             *)
THEOREM ReadAtOnce ==
  Spec => []OneSnapshot
<1>1. IInv => OneSnapshot
  BY DEF IInv, SeenIsGood, WellRead, OneSnapshot, OpenedOrExcused, Opened, Excused
<1> QED
  BY <1>1, Inductive, PTL

(* Every table that was loaded inside transactions was written and read    *)
(* under the settings of setup_connection, whichever of them was refused   *)
(* on the way; and so was every other one, with the same two exceptions.   *)
THEOREM ReadAlike ==
  Spec => []OneFormat
<1>1. IInv => OneFormat
  BY DEF IInv, SeenIsGood, WellRead, WellWritten, OneFormat, OpenedOrExcused, Opened, Excused
<1> QED
  BY <1>1, Inductive, PTL

(* The thread gives a table up only after a fault: nothing that it asks    *)
(* for itself aborts its transactions.                                     *)
THEOREM StopsForAReason ==
  Spec => []OnlyFaultsStop
<1>1. IInv => OnlyFaultsStop
  BY DEF IInv, FaultsAreKnown, OnlyFaultsStop
<1> QED
  BY <1>1, Inductive, PTL
=============================================================================
