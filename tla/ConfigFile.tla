----------------------------- MODULE ConfigFile ------------------------------
(***************************************************************************)
(* cmd/config.go: the commands that keep the file of connections.  Each    *)
(* one reads the whole file, changes its copy and writes it back; nothing  *)
(* locks the file, and os.WriteFile truncates it before it writes.         *)
(*                                                                         *)
(* A profile is a url and a key; its flags (debug, allow_insecure,         *)
(* daemon_socket) travel with them and are left out.                       *)
(***************************************************************************)
EXTENDS Naturals, FiniteSets

CONSTANTS
  Command,      (* Processes, each of which runs one command.              *)
  Name, Url, Key,
  Unset,        (* An option that was not given.                           *)
  FirstFile,    (* The states the file may be in at first.                 *)
  MaxActive     (* Bound: how many commands run at the same time.          *)

ASSUME ConfigAssumption ==
  /\ Unset \notin Url \cup Key
  /\ FirstFile \subseteq {"absent", "object", "null", "unreadable"}
  /\ Name # {} /\ MaxActive \in Nat

VARIABLES
  file,       (* state and hosts; in a damaged file, no hosts              *)
  cmd,        (* the command line of every process                         *)
  pc,
  copy,       (* the hosts a process has read and changes                  *)
  checked,    (* profiles a host has accepted or that --no-verify let pass *)
  whole       (* the hosts of the last complete file (history)             *)

vars == <<file, cmd, pc, copy, checked, whole>>

Profile == [url : Url, key : Key]
Hosts == UNION {[names -> Profile] : names \in SUBSET Name}
None == [n \in {} |-> Unset]
File == [state : {"absent", "object", "null", "broken", "unreadable"}, hosts : Hosts]
CommandLine ==
  [op : {"add", "set", "remove", "login", "list", "show"}, name : Name,
   url : Url \cup {Unset}, key : Key \cup {Unset}, verify : BOOLEAN]

Over == {"saved", "listed", "none", "refused", "panic", "fatal", "crashed"}
Active == {c \in Command : pc[c] \notin Over \cup {"idle"}}

Init ==
  /\ \E s \in FirstFile, h \in Hosts :
       /\ s \in {"absent", "null"} => h = None
       /\ file = [state |-> s, hosts |-> h]
  /\ cmd \in [Command -> {[op |-> "list", name |-> n, url |-> Unset, key |-> Unset,
                           verify |-> TRUE] : n \in {CHOOSE n \in Name : TRUE}}]
  /\ pc = [c \in Command |-> "idle"]
  /\ copy = [c \in Command |-> None]
  /\ checked = {file.hosts[n] : n \in DOMAIN file.hosts}
  /\ whole = file.hosts

Goto(c, where) == pc' = [pc EXCEPT ![c] = where]

\* WrapCommandFunc looks for credentials before list, show and remove;
\* addHost checks its options, and tries the host before it reads the file.
Start(c) ==
  /\ pc[c] = "idle"
  /\ Cardinality(Active) < MaxActive
  /\ \E line \in CommandLine :
       /\ line.op \in {"remove", "login", "list", "show"} =>
            line.url = Unset /\ line.key = Unset /\ line.verify
       /\ cmd' = [cmd EXCEPT ![c] = line]
       /\ Goto(c, CASE line.op \in {"remove", "list", "show"} -> "creds"
                    [] line.op \in {"set", "login"} -> "read"
                    [] line.op = "add" /\ Unset \in {line.url, line.key} -> "refused"
                    [] OTHER -> "verify")
  /\ UNCHANGED <<file, copy, checked, whole>>

\* findCredsFromConfig: every command wrapped by WrapCommandFunc ends here unless
\* the file has a profile of those wanted: all of them, or by an option the one
\* of a name (-C), those of a host or those of a key.
Credentials(c) ==
  /\ pc[c] = "creds"
  /\ \/ Goto(c, "read")                  \* --host and --api-key were given
     \/ \E wanted \in SUBSET Name :
          Goto(c, IF file.state = "object" /\ wanted \cap DOMAIN file.hosts # {}
                  THEN "read" ELSE "fatal")
  /\ UNCHANGED <<file, cmd, copy, checked, whole>>

With(hosts, n, profile) ==
  [k \in DOMAIN hosts \cup {n} |-> IF k = n THEN profile ELSE hosts[k]]

\* What loadConfig returns: a read error of any kind starts a new table.
Loaded == IF file.state = "object" THEN file.hosts ELSE None

\* Deviation of ReadToAdd: a file that cannot be parsed is replaced.
ReadToAddAfresh(c) ==
  /\ pc[c] = "read" /\ cmd[c].op = "add"
  /\ copy' = [copy EXCEPT ![c] =
       With(Loaded, cmd[c].name, [url |-> cmd[c].url, key |-> cmd[c].key])]
  /\ Goto(c, "truncate")
  /\ UNCHANGED <<file, cmd, checked, whole>>

\* addHost ignores the error of loadConfig: it then assigns to a nil map.
ReadToAdd(c) ==
  /\ pc[c] = "read" /\ cmd[c].op = "add"
  /\ IF file.state \in {"broken", "null"}
     THEN Goto(c, "panic") /\ UNCHANGED copy
     ELSE /\ copy' = [copy EXCEPT ![c] =
               With(Loaded, cmd[c].name, [url |-> cmd[c].url, key |-> cmd[c].key])]
          /\ Goto(c, "truncate")
  /\ UNCHANGED <<file, cmd, checked, whole>>

Merged(c, old) ==
  [url |-> IF cmd[c].url = Unset THEN old.url ELSE cmd[c].url,
   key |-> IF cmd[c].key = Unset THEN old.key ELSE cmd[c].key]

ReadToSet(c) ==
  /\ pc[c] = "read" /\ cmd[c].op = "set"
  /\ LET n == cmd[c].name
     IN  \/ file.state = "null" /\ Goto(c, "panic") /\ UNCHANGED copy
         \/ file.state # "null" /\ n \notin DOMAIN Loaded /\ Goto(c, "refused") /\ UNCHANGED copy
         \/ /\ file.state # "null" /\ n \in DOMAIN Loaded
            /\ copy' = [copy EXCEPT ![c] = With(Loaded, n, Merged(c, Loaded[n]))]
            /\ Goto(c, "verify")
  /\ UNCHANGED <<file, cmd, checked, whole>>

\* loginToHost asks for names until it is given one the file does not have.
ReadToLogin(c) ==
  /\ pc[c] = "read" /\ cmd[c].op = "login"
  /\ \/ file.state = "null" /\ Goto(c, "panic")
     \/ file.state \in {"broken", "unreadable"} /\ Goto(c, "refused")
     \/ file.state \in {"absent", "object"} /\ cmd[c].name \notin DOMAIN file.hosts /\ Goto(c, "verify")
  /\ copy' = [copy EXCEPT ![c] = file.hosts]
  /\ UNCHANGED <<file, cmd, checked, whole>>

\* removeConfig; the json null reads as a table without hosts.
ReadToRemove(c) ==
  /\ pc[c] = "read" /\ cmd[c].op = "remove"
  /\ IF file.state = "object" /\ cmd[c].name \in DOMAIN file.hosts
     THEN /\ copy' = [copy EXCEPT ![c] =
               [k \in DOMAIN file.hosts \ {cmd[c].name} |-> file.hosts[k]]]
          /\ Goto(c, "truncate")
     ELSE Goto(c, "refused") /\ UNCHANGED copy
  /\ UNCHANGED <<file, cmd, checked, whole>>

\* showConfig prints whatever can be parsed ...
ReadToShow(c) ==
  /\ pc[c] = "read" /\ cmd[c].op = "show"
  /\ Goto(c, IF file.state \in {"null", "object"} THEN "listed" ELSE "refused")
  /\ UNCHANGED <<file, cmd, copy, checked, whole>>

\* ... and listConfigs has something to say of an absent file as well.
ReadToList(c) ==
  /\ pc[c] = "read" /\ cmd[c].op = "list"
  /\ Goto(c, CASE file.state \in {"unreadable", "broken"} -> "refused"
               [] file.state \in {"absent", "null"} \/ DOMAIN file.hosts = {} -> "none"
               [] OTHER -> "listed")
  /\ UNCHANGED <<file, cmd, copy, checked, whole>>

\* Deviation of Tried: set tries the profile as it is stored.
TriedStored(c) ==
  CASE cmd[c].op = "set" -> {whole[n] : n \in DOMAIN whole \cap {cmd[c].name}}
    [] cmd[c].op = "add" -> {[url |-> cmd[c].url, key |-> cmd[c].key]}
    [] OTHER -> Profile

\* verifyHost, or --no-verify; in loginToHost the connection, the login and
\* the ping, with a key that was typed or that the host has just made.
Tried(c) ==
  CASE cmd[c].op = "set" -> {copy[c][cmd[c].name]}
    [] cmd[c].op = "add" -> {[url |-> cmd[c].url, key |-> cmd[c].key]}
    [] OTHER -> Profile

Verify(c) ==
  /\ pc[c] = "verify"
  /\ \/ cmd[c].verify /\ Goto(c, "refused") /\ UNCHANGED <<checked, copy>>
     \/ \E p \in Tried(c) :
          /\ checked' = checked \cup {p}
          /\ copy' = [copy EXCEPT ![c] =
               IF cmd[c].op = "login" THEN With(@, cmd[c].name, p) ELSE @]
          /\ Goto(c, IF cmd[c].op = "add" THEN "read" ELSE "truncate")
  /\ UNCHANGED <<file, cmd, whole>>

\* os.WriteFile opens the file with O_TRUNC, ...
Truncate(c) ==
  /\ pc[c] = "truncate"
  /\ \/ /\ file' = [state |-> "broken", hosts |-> None]
        /\ Goto(c, "write")
     \/ /\ file.state = "unreadable" /\ Goto(c, "refused") /\ UNCHANGED file
  /\ UNCHANGED <<cmd, copy, checked, whole>>

\* ... and writes from its start: text that another process has written in
\* the meantime shows behind the end of a shorter one.
Write(c) ==
  /\ pc[c] = "write"
  /\ \/ file' = [state |-> "object", hosts |-> copy[c]] /\ whole' = copy[c]
     \/ /\ file.state = "object"
        /\ file' = [state |-> "broken", hosts |-> None] /\ UNCHANGED whole
  /\ Goto(c, "saved")
  /\ UNCHANGED <<cmd, copy, checked>>

Crash(c) ==
  /\ c \in Active
  /\ Goto(c, "crashed")
  /\ UNCHANGED <<file, cmd, copy, checked, whole>>

Step(c) ==
  \/ Start(c) \/ Credentials(c) \/ Verify(c)
  \/ ReadToAdd(c) \/ ReadToSet(c) \/ ReadToLogin(c) \/ ReadToRemove(c)
  \/ ReadToShow(c) \/ ReadToList(c)
  \/ Truncate(c) \/ Write(c) \/ Crash(c)

Next == \E c \in Command : Step(c)

Spec == Init /\ [][Next]_vars

------------------------------------------------------------------------------
(* Properties                                                               *)

\* Every variable has its type, and only the file of a damaged state is empty.
TypeOK ==
  /\ file \in File
  /\ file.state \in {"absent", "null", "broken"} => file.hosts = None
  /\ cmd \in [Command -> CommandLine]
  /\ pc \in [Command -> Over \cup {"idle", "creds", "read", "verify", "truncate", "write"}]
  /\ copy \in [Command -> Hosts]
  /\ checked \subseteq Profile
  /\ whole \in Hosts

\* A url and a key are stored together only after a host has accepted that
\* very pair, or under --no-verify, also when two commands overlap
\* (verifyHost before saveConfig in addHost, setConfig and loginToHost).
StoredPairsWereTried ==
  \A n \in DOMAIN file.hosts : file.hosts[n] \in checked
==============================================================================
