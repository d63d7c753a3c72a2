----------------------------- MODULE CopySession -----------------------------
(***************************************************************************)
(* The two database sessions of a copy thread: what start_copy_origin_tx,  *)
(* start_copy_target_tx, setup_connection and the finish_copy_ functions   *)
(* of misc.c ask of the servers, and what that leaves of the promise that  *)
(* all tables are read from one snapshot and that both sides write and     *)
(* read the rows in one format.  copy_table_data does not look at what     *)
(* these functions return, and setup_connection not at what most of its    *)
(* statements return: the promise rests on the servers' transactions.      *)
(*                                                                         *)
(* CopyPool has the threads and their queue; here one thread copies the    *)
(* tables one after the other while the source goes on committing.         *)
(***************************************************************************)
EXTENDS Integers, Sequences

CONSTANTS
  NTable,     \* how many tables the thread gets, one at least
  MaxCommit,  \* how many commits the source makes meanwhile
  Versions    \* the servers' versions, as PQserverVersion gives them

ASSUME BoundAssumption == NTable \in Nat \ {0} /\ MaxCommit \in Nat
ASSUME VersionsAssumption == Versions \subseteq Nat

Side == {"origin", "target"}
None == -1        \* no snapshot
Exported == 0     \* the time of the exported snapshot: the threads start after it

VARIABLES
  version,            \* hd->src_version and hd->desc_version
  desc_is_greenplum,  \* hd->desc_is_greenplum
  snapshot,           \* Exported, or None if hd->snapshot is NULL
  now,                \* how often the source has committed since
  exporter,           \* the main thread's transaction, which keeps the snapshot
  session,            \* by side, the state of the connection at the server
  pc,                 \* where the thread is
  step,               \* the statement of setup_connection that is next
  curr,               \* the table in hand
  begun,              \* by side, whether the BEGIN for the table was accepted
  reading,            \* what the COPY TO reads: its time and the settings
  seen,               \* by table, what was committed at the target, or nothing
  faulted             \* some server refused something, or a connection broke

given == <<version, desc_is_greenplum, snapshot>>
vars == <<given, now, exporter, session, pc, step, curr, begun, reading, seen, faulted>>

Nothing == [at |-> None, origin |-> {}, target |-> {}, begun |-> FALSE]

(* A connection as pglogical_connect leaves it.  tx is the transaction;    *)
(* at is its snapshot if it was set; now_set are the settings in force and *)
(* kept those that a ROLLBACK goes back to.                                *)
Fresh == [tx |-> "none", at |-> None, now_set |-> {}, kept |-> {}]

(* The main thread exports a snapshot only where it expects the source to  *)
(* know how.                                                               *)
ExporterCan == snapshot = Exported => version["origin"] >= 90200

Init ==
  /\ version \in [Side -> Versions]
  /\ desc_is_greenplum \in BOOLEAN
  /\ snapshot \in {Exported, None}
  /\ ExporterCan
  /\ now = 0
  /\ exporter = TRUE
  /\ session = [s \in Side |-> Fresh]
  /\ pc = <<"begin", "origin">>
  /\ step = 1
  /\ curr = 1
  /\ begun = [s \in Side |-> FALSE]
  /\ reading = Nothing
  /\ seen = [t \in 1 .. NTable |-> Nothing]
  /\ faulted = FALSE

(* The source commits (external).                                          *)
SourceCommit ==
  /\ now < MaxCommit
  /\ now' = now + 1
  /\ UNCHANGED <<given, exporter, session, pc, step, curr, begun, reading, seen, faulted>>

(* The main thread's connection breaks, and its snapshot with it (external). *)
ExporterLost ==
  /\ exporter
  /\ exporter' = FALSE
  /\ faulted' = TRUE
  /\ UNCHANGED <<given, now, session, pc, step, curr, begun, reading, seen>>

-----------------------------------------------------------------------------
(* What a server does with a statement (external).                         *)
Doing(s, new) == session' = [session EXCEPT ![s] = new]

(* A refused statement aborts an open transaction.                         *)
Refused(s) ==
  Doing(s, IF session[s].tx = "none" THEN session[s] ELSE [session[s] EXCEPT !.tx = "aborted"])

(* An imported snapshot must still be there, and wants REPEATABLE READ.    *)
Importable(iso) == exporter /\ iso = "repeatable read"

Commits(s) == [session[s] EXCEPT !.tx = "none", !.at = None, !.kept = session[s].now_set]
RollsBack(s) == [session[s] EXCEPT !.tx = "none", !.at = None, !.now_set = session[s].kept]

-----------------------------------------------------------------------------
(* start_copy_origin_tx and start_copy_target_tx.                          *)

(* For a Greenplum target the text is "BEGIN" with "SET TRANSACTION         *)
(* SNAPSHOT" right behind it.  No server knows a command BEGINSET.          *)
Garbled(s) == s = "origin" /\ desc_is_greenplum /\ snapshot # None

(* Mutant of Isolation: the level of the target is used for both.           *)
IsolationOfTarget(s) == "read committed"

(* The isolation level of BEGIN.  The origin is asked as the kind of the   *)
(* target wants it: copy_table_data passes hd->desc_is_greenplum.  It      *)
(* matters to an imported snapshot only where the text is not garbled.     *)
Isolation(s) ==
  IF s = "origin" /\ ~desc_is_greenplum THEN "repeatable read" ELSE "read committed"

Imports(s) == s = "origin" /\ snapshot # None

AfterSetup(s) == IF s = "origin" THEN <<"begin", "target">> ELSE <<"copy", "origin">>

(* Mutant of Begin: the session is set up once and not for each table.     *)
BeginSetsUpOnce(s) ==
  /\ pc = <<"begin", s>> /\ ~Garbled(s)
  /\ Imports(s) => Importable(Isolation(s))
  /\ Doing(s, [session[s] EXCEPT !.tx = "open",
                                 !.at = IF Imports(s) THEN snapshot ELSE None])
  /\ begun' = [begun EXCEPT ![s] = TRUE]
  /\ step' = 1
  /\ pc' = IF curr = 1 THEN <<"setup", s>> ELSE AfterSetup(s)
  /\ UNCHANGED <<given, now, exporter, curr, reading, seen, faulted>>

(* BEGIN, and for the origin SET TRANSACTION SNAPSHOT in the same call.    *)
Begin(s) ==
  /\ pc = <<"begin", s>> /\ ~Garbled(s)
  /\ Imports(s) => Importable(Isolation(s))
  /\ Doing(s, [session[s] EXCEPT !.tx = "open",
                                 !.at = IF Imports(s) THEN snapshot ELSE None])
  /\ begun' = [begun EXCEPT ![s] = TRUE]
  /\ step' = 1
  /\ pc' = <<"setup", s>>
  /\ UNCHANGED <<given, now, exporter, curr, reading, seen, faulted>>

(* The transaction is open, but the snapshot cannot be imported: return 1, *)
(* which nobody looks at.                                                  *)
ImportFails(s) ==
  /\ pc = <<"begin", s>> /\ ~Garbled(s)
  /\ Imports(s)
  /\ Doing(s, [session[s] EXCEPT !.tx = "aborted", !.at = None])
  /\ begun' = [begun EXCEPT ![s] = TRUE]
  /\ faulted' = (faulted \/ Importable(Isolation(s)))
  /\ pc' = AfterSetup(s)
  /\ UNCHANGED <<given, now, exporter, step, curr, reading, seen>>

(* The server refuses the garbled text: return 1, before setup_connection, *)
(* and there is no transaction.                                            *)
BeginGarbled(s) ==
  /\ pc = <<"begin", s>> /\ Garbled(s)
  /\ begun' = [begun EXCEPT ![s] = FALSE]
  /\ pc' = AfterSetup(s)
  /\ UNCHANGED <<given, now, exporter, session, step, curr, reading, seen, faulted>>

(* BEGIN itself is refused: return 1, and there is no transaction.         *)
BeginFails(s) ==
  /\ pc = <<"begin", s>>
  /\ faulted' = TRUE
  /\ begun' = [begun EXCEPT ![s] = FALSE]
  /\ pc' = AfterSetup(s)
  /\ UNCHANGED <<given, now, exporter, session, step, curr, reading, seen>>

-----------------------------------------------------------------------------
(* setup_connection.                                                       *)

When(condition, statement) == IF condition THEN <<statement>> ELSE <<>>

(* What it sets on a server of a version, in this order.                   *)
Settings(v, is_greenplum) ==
  <<"client_encoding", "datestyle">>
  \o When(v >= 80400, "intervalstyle")
  \o When(v >= 70400, "extra_float_digits")
  \o When(v >= 80300 /\ ~is_greenplum, "synchronize_seqscans")
  \o When(v >= 70300, "statement_timeout")
  \o When(v >= 90300, "lock_timeout")

(* Mutant of SettingsOf: the source's version is passed for both servers.   *)
SettingsOfSource(s) == Settings(version["origin"], desc_is_greenplum)

SettingsOf(s) == Settings(version[s], desc_is_greenplum)

(* A SET is accepted, which it is not in an aborted transaction.           *)
SetNext(s) ==
  /\ pc = <<"setup", s>> /\ step <= Len(SettingsOf(s))
  /\ session[s].tx # "aborted"
  /\ Doing(s, [session[s] EXCEPT !.now_set = @ \union {SettingsOf(s)[step]}])
  /\ step' = step + 1
  /\ UNCHANGED <<given, now, exporter, pc, curr, begun, reading, seen, faulted>>

(* A SET fails.  Only the first one, PQsetClientEncoding, ends the setup;  *)
(* ExecuteSqlStatement's result is dropped.                                *)
SetFails(s) ==
  /\ pc = <<"setup", s>> /\ step <= Len(SettingsOf(s))
  /\ Refused(s)
  /\ faulted' = TRUE
  /\ step' = step + 1
  /\ pc' = IF step = 1 THEN AfterSetup(s) ELSE pc
  /\ UNCHANGED <<given, now, exporter, curr, begun, reading, seen>>

SetupDone(s) ==
  /\ pc = <<"setup", s>> /\ step > Len(SettingsOf(s))
  /\ pc' = AfterSetup(s)
  /\ UNCHANGED <<given, now, exporter, session, step, curr, begun, reading, seen, faulted>>

-----------------------------------------------------------------------------
(* The COPY of copy_table_data, and the end of the transactions.           *)

(* What COPY TO reads: the imported snapshot or else the moment it starts. *)
ReadTime == IF session["origin"].at # None THEN session["origin"].at ELSE now

(* Mutant of CopyTo: its result is not looked at, so an aborted transaction *)
(* passes, with nothing in it.                                             *)
CopyToUnchecked ==
  /\ pc = <<"copy", "origin">>
  /\ reading' = [at |-> ReadTime, origin |-> session["origin"].now_set, target |-> {},
                 begun |-> begun["origin"]]
  /\ pc' = <<"copy", "target">>
  /\ UNCHANGED <<given, now, exporter, session, step, curr, begun, seen, faulted>>

(* The origin accepts COPY TO; in an aborted transaction it does not.      *)
CopyTo ==
  /\ pc = <<"copy", "origin">>
  /\ session["origin"].tx # "aborted"
  /\ reading' = [at |-> ReadTime, origin |-> session["origin"].now_set, target |-> {},
                 begun |-> begun["origin"]]
  /\ pc' = <<"copy", "target">>
  /\ UNCHANGED <<given, now, exporter, session, step, curr, begun, seen, faulted>>

(* The target accepts COPY FROM.                                           *)
CopyFrom ==
  /\ pc = <<"copy", "target">>
  /\ session["target"].tx # "aborted"
  /\ reading' = [reading EXCEPT !.target = session["target"].now_set,
                                !.begun = @ /\ begun["target"]]
  /\ pc' = <<"rows", "target">>
  /\ UNCHANGED <<given, now, exporter, session, step, curr, begun, seen, faulted>>

(* All rows went over and the target acknowledged them.  Without a         *)
(* transaction they are committed with that.                               *)
CopyRows ==
  /\ pc = <<"rows", "target">>
  /\ seen' = IF session["target"].tx = "none" THEN [seen EXCEPT ![curr] = reading] ELSE seen
  /\ pc' = <<"finish", "origin">>
  /\ UNCHANGED <<given, now, exporter, session, step, curr, begun, reading, faulted>>

(* finish_copy_origin_tx.                                                  *)
FinishOrigin ==
  /\ pc = <<"finish", "origin">>
  /\ Doing("origin", RollsBack("origin"))
  /\ pc' = <<"finish", "target">>
  /\ UNCHANGED <<given, now, exporter, step, curr, begun, reading, seen, faulted>>

NextTable ==
  /\ curr' = curr + 1
  /\ pc' = IF curr < NTable THEN <<"begin", "origin">> ELSE <<"drained", "origin">>

(* finish_copy_target_tx.                                                  *)
FinishTarget ==
  /\ pc = <<"finish", "target">>
  /\ seen' = IF session["target"].tx = "open" THEN [seen EXCEPT ![curr] = reading] ELSE seen
  /\ Doing("target", Commits("target"))
  /\ NextTable
  /\ UNCHANGED <<given, now, exporter, step, begun, reading, faulted>>

(* The COMMIT is refused, which nobody looks at either.                    *)
FinishTargetFails ==
  /\ pc = <<"finish", "target">>
  /\ Doing("target", RollsBack("target"))
  /\ faulted' = TRUE
  /\ NextTable
  /\ UNCHANGED <<given, now, exporter, step, begun, reading, seen>>

(* goto exit at one of the COPYs: refused because of the transaction it is *)
(* in, or because of itself.                                               *)
CopyFails ==
  \E s \in Side :
    /\ pc \in {<<"copy", s>>, <<"rows", s>>}
    /\ \/ pc[1] = "copy" /\ session[s].tx = "aborted" /\ UNCHANGED faulted
       \/ faulted' = TRUE
    /\ pc' = <<"exit", s>>
    /\ UNCHANGED <<given, now, exporter, session, step, curr, begun, reading, seen>>

Ended == pc[1] \in {"exit", "drained"} /\ UNCHANGED vars

Setup(s) ==
  \/ Begin(s) \/ ImportFails(s) \/ BeginGarbled(s) \/ BeginFails(s)
  \/ SetNext(s) \/ SetFails(s) \/ SetupDone(s)

Next ==
  \/ SourceCommit \/ ExporterLost
  \/ \E s \in Side : Setup(s)
  \/ CopyTo \/ CopyFrom \/ CopyRows \/ FinishOrigin \/ FinishTarget \/ FinishTargetFails
  \/ CopyFails \/ Ended

Spec == Init /\ [][Next]_vars

-----------------------------------------------------------------------------
Loaded(t) == seen[t] # Nothing
SettingNames(v) == LET list == Settings(v, desc_is_greenplum) IN {list[i] : i \in DOMAIN list}

AllSettings == {"client_encoding", "datestyle", "intervalstyle", "extra_float_digits",
                "synchronize_seqscans", "statement_timeout", "lock_timeout"}
Session == [tx : {"none", "open", "aborted"}, at : {Exported, None},
            now_set : SUBSET AllSettings, kept : SUBSET AllSettings]
Reading == [at : Int, origin : SUBSET AllSettings, target : SUBSET AllSettings, begun : BOOLEAN]

(* Every variable has its type.                                            *)
TypeOK ==
  /\ version \in [Side -> Versions] /\ desc_is_greenplum \in BOOLEAN
  /\ snapshot \in {Exported, None} /\ now \in 0 .. MaxCommit /\ exporter \in BOOLEAN
  /\ session \in [Side -> Session]
  /\ \A s \in Side : session[s].kept \union session[s].now_set \subseteq SettingNames(version[s])
  /\ pc \in {"begin", "setup", "copy", "rows", "finish", "exit", "drained"} \X Side
  /\ curr \in 1 .. NTable + 1 /\ step \in 1 .. 9
  /\ begun \in [Side -> BOOLEAN]
  /\ reading \in Reading /\ seen \in [1 .. NTable -> Reading]
  /\ faulted \in BOOLEAN

(* Both transactions of the table were opened; they are, unless a server   *)
(* refused something or the text for the origin is garbled.                *)
Opened(t) == seen[t].begun \/ ~(faulted \/ Garbled("origin"))

(* When the main thread exported a snapshot, every table at the target     *)
(* shows the source at that moment, however the source went on meanwhile   *)
(* and whichever statement failed after the BEGINs: a snapshot that cannot *)
(* be imported stops the table instead of giving it a later one.  (A BEGIN *)
(* that is refused is not noticed, and its table is read outside of a      *)
(* transaction; with a Greenplum target that is every table's fate.)       *)
OneSnapshot ==
  snapshot = Exported =>
    \A t \in 1 .. NTable : Loaded(t) /\ Opened(t) => seen[t].at = Exported

(* What the message "starting full sync with snapshot" says of all tables, *)
(* where no server refuses what it could have done.                        *)
SnapshotIsRead ==
  snapshot = Exported /\ ~faulted =>
    \A t \in 1 .. NTable : Loaded(t) => seen[t].at = Exported

(* Every table at the target was written by the origin and read by the     *)
(* target under the settings that setup_connection has for either server,  *)
(* although nobody looks at whether they were accepted, and although the   *)
(* origin forgets them at the end of each table.  (Again but for tables    *)
(* whose BEGIN was refused, which leaves out setup_connection.)            *)
OneFormat ==
  \A t \in 1 .. NTable :
    Loaded(t) /\ Opened(t) => /\ seen[t].origin = SettingNames(version["origin"])
                             /\ seen[t].target = SettingNames(version["target"])

(* A thread gives a table up only if some server refused what it could     *)
(* have done, or a connection broke: what the threads ask of a sound       *)
(* server, in this order, never aborts their own transactions.             *)
OnlyFaultsStop == pc[1] = "exit" => faulted
=============================================================================
