------------------------------- MODULE Startup -------------------------------
(***************************************************************************)
(* The main functions of mysql2pgsql and pgsql2pgsql up to the call that   *)
(* starts the work: options, configuration (IniFile), the values that must *)
(* be there, and for mysql2pgsql the list of tables (TableList).           *)
(***************************************************************************)
EXTENDS IniFile, TableList

CONSTANTS
  ConfigFiles,  \* the texts the configuration file may have
  ListFiles,    \* the texts the list of tables may have
  Wanted,       \* by program, the <<section, key>> that it asks for
  Optional,     \* those of them it can do without
  Threads       \* what -j may say

Program == {"mysql2pgsql", "pgsql2pgsql"}

ASSUME WantedAssumption == DOMAIN Wanted = Program
ASSUME ThreadsAssumption == Threads \subseteq Int
ASSUME FilesAssumption == ConfigFiles \subseteq Texts /\ ListFiles \subseteq Texts

VARIABLES
  main,              \* where main is; "exit" once it returned without starting
  program,         \* which of the two it is
  get_ddl_only,    \* -d
  num_thread,      \* -j, or 5
  table_list_file, \* whether -l was given
  conf,            \* the text of the configuration file
  value,           \* by wanted key, what get_config left in its variable
  table_text       \* the text of the list file

optionVars == <<program, get_ddl_only, table_list_file>>
startupVars == <<iniVars, listVars, optionVars, main, num_thread, conf, value, table_text>>

WantedHere == Wanted[program]

StartupInit ==
  /\ program \in Program
  /\ main = "options"
  /\ get_ddl_only = FALSE /\ num_thread = 5 /\ table_list_file = FALSE
  /\ data = <<NUL>> /\ at = 1
  /\ conf = <<>> /\ table_text = <<>>
  /\ value = [k \in WantedHere |-> <<>>]
  /\ ListInit

(* The loop over getopt, of which pgsql2pgsql has none, as a whole: what   *)
(* the options leave in their variables, or the exit of -h.                *)
Options ==
  /\ main = "options" /\ program = "mysql2pgsql"
  /\ \/ /\ get_ddl_only' \in BOOLEAN
        /\ table_list_file' \in BOOLEAN
        /\ num_thread' \in Threads \union {5}
        /\ main' = "config"
     \/ /\ main' = "exit"
        /\ UNCHANGED <<get_ddl_only, table_list_file, num_thread>>
  /\ UNCHANGED <<iniVars, listVars, program, conf, value, table_text>>

NoOptions ==
  /\ main = "options" /\ program = "pgsql2pgsql"
  /\ main' = "config"
  /\ UNCHANGED <<iniVars, listVars, optionVars, num_thread, conf, value, table_text>>

(* init_config: the file is there and is read.                             *)
OpenConfig ==
  /\ main = "config"
  /\ \E text \in ConfigFiles : conf' = text /\ Load(text)
  /\ main' = "split"
  /\ UNCHANGED <<listVars, optionVars, num_thread, value, table_text>>

NoConfig ==
  /\ main = "config"
  /\ main' = "exit"
  /\ UNCHANGED <<iniVars, listVars, optionVars, num_thread, conf, value, table_text>>

SplitConfig ==
  /\ main = "split"
  /\ Split
  /\ UNCHANGED <<listVars, optionVars, main, num_thread, conf, value, table_text>>

(* The calls of get_config: a missing or empty value leaves NULL.          *)
GetConfig ==
  /\ main = "split" /\ at >= End
  /\ value' = [k \in WantedHere |-> Lookup(data, k[1], k[2])]
  /\ main' = "check"
  /\ UNCHANGED <<iniVars, listVars, optionVars, num_thread, conf, table_text>>

Missing == \E k \in WantedHere \ Optional : value[k] = <<>>

(* A required value is missing.                                            *)
RefuseConfig ==
  /\ main = "check" /\ Missing
  /\ main' = "exit"
  /\ UNCHANGED <<iniVars, listVars, optionVars, num_thread, conf, value, table_text>>

(* The configuration is not looked at again: the model forgets its text.   *)
AcceptConfig ==
  /\ main = "check" /\ ~Missing
  /\ data' = <<NUL>> /\ at' = 1 /\ conf' = <<>>
  /\ main' = IF table_list_file THEN "list" ELSE "ready"
  /\ UNCHANGED <<listVars, optionVars, num_thread, value, table_text>>

(* load_table_list_file up to the arrays.                                  *)
OpenList ==
  /\ main = "list"
  /\ \E text \in ListFiles :
       /\ \A i \in DOMAIN text : text[i] # ListNul
       /\ table_text' = text
       /\ ReadList(text)
  /\ main' = "cut"
  /\ UNCHANGED <<iniVars, optionVars, num_thread, conf, value>>

(* There is no such file, or it has a NUL inside.                          *)
RefuseList ==
  /\ main = "list"
  /\ main' = "exit"
  /\ UNCHANGED <<iniVars, listVars, optionVars, num_thread, conf, value, table_text>>

CutList ==
  /\ main = "cut"
  /\ CutLine
  /\ UNCHANGED <<iniVars, optionVars, main, num_thread, conf, value, table_text>>

ListDone ==
  /\ main = "cut" /\ AtListEnd
  /\ main' = "ready"
  /\ UNCHANGED <<iniVars, listVars, optionVars, num_thread, conf, value, table_text>>

(* Only one thread is needed to print DDL; then the work starts.           *)
StartWork ==
  /\ main = "ready"
  /\ num_thread' = IF get_ddl_only THEN 1 ELSE num_thread
  /\ main' = "started"
  /\ UNCHANGED <<iniVars, listVars, optionVars, conf, value, table_text>>

Ended == main \in {"exit", "started"} /\ UNCHANGED startupVars

StartupNext ==
  \/ Options \/ NoOptions \/ OpenConfig \/ NoConfig \/ SplitConfig \/ GetConfig
  \/ RefuseConfig \/ AcceptConfig \/ OpenList \/ RefuseList \/ CutList \/ ListDone
  \/ StartWork \/ Ended

StartupSpec == StartupInit /\ [][StartupNext]_startupVars

-----------------------------------------------------------------------------
(* mysql2pgsql_sync_main walks table_array until NULL: a slot is left for  *)
(* it, however many lines there are.                                       *)
ListEnds == Len(tables) < slots \/ slots = 0

(* Every variable has its type.  The reader of the configuration stays     *)
(* inside its text; that of the list may look one place behind its own,    *)
(* after a last line without ':', an empty one for example, and has room   *)
(* in its arrays.                                                          *)
StartupTypeOK ==
  /\ program \in Program
  /\ main \in {"options", "config", "split", "check", "list", "cut", "ready", "started", "exit"}
  /\ at \in 1 .. End /\ data[End] = NUL
  /\ list # <<>> => line \in 1 .. Len(list) + 1
  /\ reach \in 0 .. Len(list) + 1 /\ ListEnds
  /\ get_ddl_only \in BOOLEAN /\ table_list_file \in BOOLEAN /\ num_thread \in Int
  /\ DOMAIN value = WantedHere

(* What the program finds under a section and a key is what the line of    *)
(* the file says that gives it, although split_data leaves a row of        *)
(* strings in which keys and values are told apart by counting: nothing a  *)
(* comment, a broken line, a quoted value or a section in front of a key   *)
(* contains shifts the count.  Only a line that begins with '=' does, and a *)
(* NUL inside of the file, which is no text then.                          *)
ConfigIsLineWise ==
  main = "check" /\ ~Keyless(conf) /\ (\A i \in DOMAIN conf : conf[i] # NUL) =>
    \A k \in WantedHere : value[k] = MeantBy(conf, k[1], k[2])

(* At every line, the tasks listed so far are the first ones of the file:  *)
(* the NULs written for a line end its own name and query, and touch no    *)
(* earlier and no later line.                                              *)
ListIsLineWise ==
  main \in {"cut", "ready", "started"} =>
    IsPrefix(TaskList, ListedBy(table_text)) /\ (main # "cut" => TaskList = ListedBy(table_text))
=============================================================================
