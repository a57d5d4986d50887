---------------------------- MODULE ClientsProofs ----------------------------
(***************************************************************************)
(* What is proved of the clients of the daemon and of the file of          *)
(* connections, for any number of commands: a call is run at most once and *)
(* no job is left behind; stored pairs were tried, however commands        *)
(* overlap; and one after the other they implement HostTable.              *)
(***************************************************************************)
EXTENDS MCClients, SequenceTheorems, FiniteSetTheorems, TLAPS

AllIn(h, S) == \A n \in DOMAIN h : h[n] \in S

\* What a command knows of its copy where it stands: who is about to write has
\* only tried pairs in it; who is about to verify has others but for the one to
\* verify; who adds has been verified before it reads.
Knows(c) ==
  /\ pc[c] = "creds" => cmd[c].op \in {"remove", "list", "show"}
  /\ pc[c] = "verify" => cmd[c].op \in {"add", "set", "login"}
  /\ pc[c] \in {"verify", "read"} /\ cmd[c].op = "add" =>
       cmd[c].url # Unset /\ cmd[c].key # Unset
  /\ pc[c] = "read" /\ cmd[c].op = "add" =>
       [url |-> cmd[c].url, key |-> cmd[c].key] \in checked
  /\ pc[c] = "verify" /\ cmd[c].op = "login" => AllIn(copy[c], checked)
  /\ pc[c] = "verify" /\ cmd[c].op = "set" =>
       /\ cmd[c].name \in DOMAIN copy[c]
       /\ \A n \in DOMAIN copy[c] \ {cmd[c].name} : copy[c][n] \in checked
  /\ pc[c] \in {"truncate", "write"} => AllIn(copy[c], checked)

Inv == TypeOK /\ StoredPairsWereTried /\ \A c \in Command : Knows(c)

------------------------------------------------------------------------------
(* Tables of hosts *)

LEMMA HostsAre ==
  ASSUME NEW h \in Hosts
  PROVE  h = [n \in DOMAIN h |-> h[n]] /\ DOMAIN h \subseteq Name /\ AllIn(h, Profile)
BY DEF Hosts, AllIn

LEMMA AreHosts ==
  ASSUME NEW names \in SUBSET Name, NEW h \in [names -> Profile]
  PROVE  h \in Hosts
BY DEF Hosts

LEMMA NoneIsHosts == None \in Hosts /\ DOMAIN None = {}
<1>1. None \in [{} -> Profile]
  BY DEF None
<1>2. QED
  BY <1>1, AreHosts DEF None

\* A profile is put into a table; what was in it stays.
LEMMA WithIs ==
  ASSUME NEW h \in Hosts, NEW n \in Name, NEW p \in Profile
  PROVE  /\ With(h, n, p) \in Hosts
         /\ DOMAIN With(h, n, p) = DOMAIN h \cup {n}
         /\ \A k \in DOMAIN With(h, n, p) : With(h, n, p)[k] = IF k = n THEN p ELSE h[k]
<1>1. With(h, n, p) \in [DOMAIN h \cup {n} -> Profile]
  BY HostsAre DEF With, AllIn
<1>2. DOMAIN h \cup {n} \in SUBSET Name
  BY HostsAre
<1>3. With(h, n, p) \in Hosts
  BY <1>1, <1>2, AreHosts
<1>4. DOMAIN With(h, n, p) = DOMAIN h \cup {n}
  BY DEF With
<1>5. ASSUME NEW k \in DOMAIN h \cup {n} PROVE With(h, n, p)[k] = IF k = n THEN p ELSE h[k]
  BY <1>5 DEF With
<1>6. QED
  BY <1>3, <1>4, <1>5

LEMMA LoadedIs == ASSUME TypeOK PROVE Loaded \in Hosts
BY NoneIsHosts DEF Loaded, TypeOK, File

\* A table of tried pairs stays one when a tried pair is put in.
LEMMA WithTried ==
  ASSUME NEW h \in Hosts, NEW n \in Name, NEW p \in Profile, NEW S, AllIn(h, S), p \in S
  PROVE  AllIn(With(h, n, p), S)
<1>1. DOMAIN With(h, n, p) = DOMAIN h \cup {n}
  BY DEF With
<1>2. ASSUME NEW k \in DOMAIN h \cup {n} PROVE With(h, n, p)[k] \in S
  BY <1>2 DEF With, AllIn
<1>3. QED
  BY <1>1, <1>2 DEF AllIn

LEMMA LoadedTried == ASSUME TypeOK, StoredPairsWereTried PROVE AllIn(Loaded, checked)
BY NoneIsHosts DEF AllIn, Loaded, StoredPairsWereTried

------------------------------------------------------------------------------
(* Steps *)

\* A step of one command that changes neither the file nor what was tried, but
\* its own place and copy.
LEMMA OwnStep ==
  ASSUME Inv, NEW c \in Command, NEW where \in Over \cup {"creds", "read", "verify", "truncate"},
         UNCHANGED <<file, cmd, checked, whole>>, Goto(c, where),
         copy' \in [Command -> Hosts], \A d \in Command \ {c} : copy'[d] = copy[d],
         Knows(c)'
  PROVE  Inv'
<1>1. TypeOK'
  BY DEF Inv, TypeOK, Goto
<1>2. StoredPairsWereTried'
  BY DEF Inv, StoredPairsWereTried
<1>3. ASSUME NEW d \in Command PROVE Knows(d)'
  <2>1. CASE d = c
    BY <2>1
  <2>2. CASE d # c
    <3>1. pc'[d] = pc[d] /\ copy'[d] = copy[d]
      BY <2>2 DEF Goto, Inv, TypeOK
    <3>2. QED
      BY <3>1 DEF Inv, Knows, AllIn
  <2>3. QED
    BY <2>1, <2>2
<1>4. QED
  BY <1>1, <1>2, <1>3 DEF Inv

LEMMA InitInv == Init => Inv
<1> SUFFICES ASSUME Init PROVE Inv
  OBVIOUS
<1>1. PICK s \in FirstFile, h \in Hosts :
        /\ s \in {"absent", "null"} => h = None
        /\ file = [state |-> s, hosts |-> h]
  BY DEF Init
<1>2. file \in File /\ file.hosts = h /\ (file.state \in {"absent", "null", "broken"} => h = None)
  BY <1>1, ConfigAssumption DEF File
<1>3. cmd \in [Command -> CommandLine]
  <2>1. PICK n \in Name : n = (CHOOSE m \in Name : TRUE)
    BY ConfigAssumption
  <2>2. [op |-> "list", name |-> n, url |-> Unset, key |-> Unset, verify |-> TRUE] \in CommandLine
    BY DEF CommandLine
  <2>3. QED
    BY <2>1, <2>2 DEF Init
<1>4. TypeOK
  BY <1>2, <1>3, NoneIsHosts, HostsAre DEF Init, TypeOK, AllIn, Over
<1>5. QED
  BY <1>4 DEF Init, Inv, StoredPairsWereTried, Knows

\* A line that is typed has what the command's own checks look for.
LEMMA StartInv == ASSUME Inv, NEW c \in Command, Start(c) PROVE Inv'
<1> USE DEF Inv
<1>1. PICK line \in CommandLine :
        /\ cmd' = [cmd EXCEPT ![c] = line]
        /\ Goto(c, CASE line.op \in {"remove", "list", "show"} -> "creds"
                     [] line.op \in {"set", "login"} -> "read"
                     [] line.op = "add" /\ Unset \in {line.url, line.key} -> "refused"
                     [] OTHER -> "verify")
  BY DEF Start
<1>2. line.op \in {"add", "set", "remove", "login", "list", "show"}
  BY DEF CommandLine
<1>3. cmd' \in [Command -> CommandLine] /\ cmd'[c] = line
  BY <1>1 DEF TypeOK
<1>4. /\ pc'[c] \in {"creds", "read", "refused", "verify"}
      /\ pc' = [pc EXCEPT ![c] = pc'[c]]
      /\ pc'[c] \in {"read", "verify"} /\ line.op = "add" =>
           pc'[c] = "verify" /\ line.url # Unset /\ line.key # Unset
      /\ pc'[c] = "verify" => line.op = "add"
      /\ pc'[c] = "creds" => line.op \in {"remove", "list", "show"}
  BY <1>1, <1>2 DEF Goto, TypeOK
<1>5. TypeOK'
  BY <1>3, <1>4 DEF Start, TypeOK, Over
<1>6. StoredPairsWereTried'
  BY DEF Start, StoredPairsWereTried
<1>7. ASSUME NEW d \in Command PROVE Knows(d)'
  <2>1. CASE d = c
    BY <2>1, <1>3, <1>4 DEF Knows
  <2>2. CASE d # c
    <3>1. pc'[d] = pc[d] /\ cmd'[d] = cmd[d]
      BY <2>2, <1>1, <1>4 DEF TypeOK
    <3>2. QED
      BY <3>1 DEF Start, Knows, AllIn
  <2>3. QED
    BY <2>1, <2>2
<1>8. QED
  BY <1>5, <1>6, <1>7

LEMMA CredentialsInv == ASSUME Inv, NEW c \in Command, Credentials(c) PROVE Inv'
<1>1. PICK where \in {"read", "fatal"} : Goto(c, where)
  BY DEF Credentials
<1>2. Knows(c)'
  BY <1>1 DEF Credentials, Goto, Inv, TypeOK, Knows
<1>3. QED
  BY <1>1, <1>2, OwnStep DEF Credentials, Inv, TypeOK, Over

LEMMA ReadToAddInv == ASSUME Inv, NEW c \in Command, ReadToAdd(c) PROVE Inv'
<1> DEFINE pair == [url |-> cmd[c].url, key |-> cmd[c].key]
<1>1. cmd[c] \in CommandLine /\ pair \in checked
  BY DEF ReadToAdd, Inv, TypeOK, Knows
<1>2. pair \in Profile
  BY <1>1 DEF Inv, TypeOK
<1>3. CASE file.state \in {"broken", "null"}
  <2>1. Knows(c)'
    BY <1>3 DEF ReadToAdd, Goto, Inv, TypeOK, Knows
  <2>2. QED
    BY <1>3, <2>1, OwnStep DEF ReadToAdd, Inv, TypeOK, Over
<1>4. CASE file.state \notin {"broken", "null"}
  <2>1. /\ copy' = [copy EXCEPT ![c] = With(Loaded, cmd[c].name, pair)]
        /\ Goto(c, "truncate")
    BY <1>4 DEF ReadToAdd
  <2>2. /\ With(Loaded, cmd[c].name, pair) \in Hosts
        /\ AllIn(With(Loaded, cmd[c].name, pair), checked)
    <3>1. cmd[c].name \in Name
      BY <1>1 DEF CommandLine
    <3>2. Loaded \in Hosts /\ AllIn(Loaded, checked)
      BY LoadedIs, LoadedTried DEF Inv
    <3> HIDE DEF pair
    <3>3. With(Loaded, cmd[c].name, pair) \in Hosts
      BY <1>2, <3>1, <3>2, WithIs
    <3>4. AllIn(With(Loaded, cmd[c].name, pair), checked)
      BY <1>1, <1>2, <3>1, <3>2, WithTried
    <3>5. QED
      BY <3>3, <3>4
  <2>3. Knows(c)'
    BY <2>1, <2>2 DEF ReadToAdd, Goto, Inv, TypeOK, Knows
  <2>4. QED
    BY <2>1, <2>2, <2>3, OwnStep DEF ReadToAdd, Inv, TypeOK
<1>5. QED
  BY <1>3, <1>4

LEMMA ReadToSetInv == ASSUME Inv, NEW c \in Command, ReadToSet(c) PROVE Inv'
<1> DEFINE n == cmd[c].name
<1>1. cmd[c] \in CommandLine /\ Loaded \in Hosts
  BY LoadedIs DEF Inv, TypeOK
<1>2. CASE n \in DOMAIN Loaded /\ Goto(c, "verify") /\ file.state # "null"
  <2>1. copy' = [copy EXCEPT ![c] = With(Loaded, n, Merged(c, Loaded[n]))]
    BY <1>2 DEF ReadToSet, Goto, Inv, TypeOK
  <2>2. Merged(c, Loaded[n]) \in Profile
    BY <1>1, <1>2, HostsAre DEF Merged, Profile, CommandLine, AllIn
  <2>3. With(Loaded, n, Merged(c, Loaded[n])) \in Hosts
    BY <1>1, <2>2, WithIs DEF CommandLine
  <2>4. /\ n \in DOMAIN With(Loaded, n, Merged(c, Loaded[n]))
        /\ \A k \in DOMAIN With(Loaded, n, Merged(c, Loaded[n])) \ {n} :
             With(Loaded, n, Merged(c, Loaded[n]))[k] \in checked
    BY LoadedTried DEF With, AllIn, Inv
  <2>5. Knows(c)'
    BY <1>2, <2>1, <2>3, <2>4 DEF ReadToSet, Goto, Inv, TypeOK, Knows
  <2>6. QED
    BY <1>2, <2>1, <2>3, <2>5, OwnStep DEF ReadToSet, Inv, TypeOK
<1>3. CASE UNCHANGED copy /\ \E where \in {"panic", "refused"} : Goto(c, where)
  <2>1. PICK where \in {"panic", "refused"} : Goto(c, where)
    BY <1>3
  <2>2. Knows(c)'
    BY <2>1 DEF Goto, Inv, TypeOK, Knows
  <2>3. QED
    BY <1>3, <2>1, <2>2, OwnStep DEF ReadToSet, Inv, TypeOK, Over
<1>4. QED
  BY <1>2, <1>3 DEF ReadToSet

LEMMA ReadToLoginInv == ASSUME Inv, NEW c \in Command, ReadToLogin(c) PROVE Inv'
<1>1. PICK where \in {"panic", "refused", "verify"} : Goto(c, where)
  BY DEF ReadToLogin
<1>2. copy' = [copy EXCEPT ![c] = file.hosts] /\ file.hosts \in Hosts
  BY DEF ReadToLogin, Inv, TypeOK, File
<1>3. Knows(c)'
  BY <1>1, <1>2 DEF ReadToLogin, Goto, Inv, TypeOK, Knows, AllIn, StoredPairsWereTried
<1>4. QED
  BY <1>1, <1>2, <1>3, OwnStep DEF ReadToLogin, Inv, TypeOK, Over

LEMMA ReadToRemoveInv == ASSUME Inv, NEW c \in Command, ReadToRemove(c) PROVE Inv'
<1> DEFINE rest == [k \in DOMAIN file.hosts \ {cmd[c].name} |-> file.hosts[k]]
<1>1. file.hosts \in Hosts
  BY DEF Inv, TypeOK, File
<1>2. rest \in [DOMAIN file.hosts \ {cmd[c].name} -> Profile]
  BY <1>1, HostsAre DEF AllIn
<1>3. rest \in Hosts /\ AllIn(rest, checked)
  BY <1>1, <1>2, HostsAre, AreHosts DEF AllIn, Inv, StoredPairsWereTried
<1>4. CASE copy' = [copy EXCEPT ![c] = rest] /\ Goto(c, "truncate")
  <2>1. Knows(c)'
    BY <1>3, <1>4 DEF ReadToRemove, Goto, Inv, TypeOK, Knows
  <2>2. QED
    BY <1>3, <1>4, <2>1, OwnStep DEF ReadToRemove, Inv, TypeOK
<1>5. CASE UNCHANGED copy /\ Goto(c, "refused")
  <2>1. Knows(c)'
    BY <1>5 DEF Goto, Inv, TypeOK, Knows
  <2>2. QED
    BY <1>5, <2>1, OwnStep DEF ReadToRemove, Inv, TypeOK, Over
<1>6. QED
  BY <1>4, <1>5 DEF ReadToRemove

LEMMA ReadToShowInv == ASSUME Inv, NEW c \in Command, ReadToShow(c) PROVE Inv'
<1>1. PICK where \in {"refused", "listed"} : Goto(c, where)
  BY DEF ReadToShow
<1>2. Knows(c)'
  BY <1>1 DEF ReadToShow, Goto, Inv, TypeOK, Knows
<1>3. QED
  BY <1>1, <1>2, OwnStep DEF ReadToShow, Inv, TypeOK, Over

LEMMA ReadToListInv == ASSUME Inv, NEW c \in Command, ReadToList(c) PROVE Inv'
<1>1. PICK where \in {"refused", "none", "listed"} : Goto(c, where)
  BY DEF ReadToList
<1>2. Knows(c)'
  BY <1>1 DEF ReadToList, Goto, Inv, TypeOK, Knows
<1>3. QED
  BY <1>1, <1>2, OwnStep DEF ReadToList, Inv, TypeOK, Over

\* What is tried is added to what was; a command that adds has nothing in its
\* copy yet.
LEMMA VerifyInv == ASSUME Inv, NEW c \in Command, Verify(c) PROVE Inv'
<1>1. CASE Goto(c, "refused") /\ UNCHANGED <<checked, copy>>
  <2>1. Knows(c)'
    BY <1>1 DEF Goto, Inv, TypeOK, Knows
  <2>2. QED
    BY <1>1, <2>1, OwnStep DEF Verify, Inv, TypeOK, Over
<1>2. ASSUME NEW p \in Tried(c), checked' = checked \cup {p},
             copy' = [copy EXCEPT ![c] =
               IF cmd[c].op = "login" THEN With(@, cmd[c].name, p) ELSE @],
             Goto(c, IF cmd[c].op = "add" THEN "read" ELSE "truncate")
      PROVE  Inv'
  <2>1. /\ pc[c] = "verify" /\ cmd[c] \in CommandLine /\ copy[c] \in Hosts
        /\ cmd[c].op \in {"add", "set", "login"}
        /\ UNCHANGED <<file, cmd, whole>>
    BY DEF Verify, Inv, TypeOK, Knows
  <2>2. p \in Profile
    <3>1. CASE cmd[c].op = "add"
      BY <2>1, <3>1, <1>2 DEF Tried, Inv, Knows, Profile, CommandLine
    <3>2. CASE cmd[c].op = "set"
      BY <2>1, <3>2, <1>2, HostsAre DEF Tried, Inv, Knows, AllIn
    <3>3. CASE cmd[c].op = "login"
      BY <3>3, <1>2 DEF Tried
    <3>4. QED
      BY <2>1, <3>1, <3>2, <3>3
  <2>3. copy'[c] \in Hosts /\ copy' = [copy EXCEPT ![c] = copy'[c]]
    BY <1>2, <2>1, <2>2, WithIs DEF Inv, TypeOK, CommandLine
  <2>4. TypeOK'
    BY <1>2, <2>1, <2>2, <2>3 DEF Inv, TypeOK, Goto
  <2>5. StoredPairsWereTried'
    BY <1>2, <2>1 DEF Inv, StoredPairsWereTried
  <2>6. Knows(c)'
    <3>1. CASE cmd[c].op = "add"
      BY <1>2, <2>1, <3>1 DEF Tried, Goto, Inv, TypeOK, Knows
    <3>2. CASE cmd[c].op = "set"
      BY <1>2, <2>1, <3>2 DEF Tried, Goto, Inv, TypeOK, Knows, AllIn
    <3>3. CASE cmd[c].op = "login"
      <4>1. AllIn(With(copy[c], cmd[c].name, p), checked \cup {p})
        BY <2>1, <2>2, <3>3, WithTried DEF Inv, Knows, AllIn, CommandLine
      <4>2. QED
        BY <1>2, <2>1, <3>3, <4>1 DEF Goto, Inv, TypeOK, Knows
    <3>4. QED
      BY <2>1, <3>1, <3>2, <3>3
  <2>7. ASSUME NEW d \in Command \ {c} PROVE Knows(d)'
    BY <1>2, <2>1 DEF Goto, Inv, TypeOK, Knows, AllIn
  <2>8. QED
    BY <2>4, <2>5, <2>6, <2>7 DEF Inv
<1>3. QED
  BY <1>1, <1>2 DEF Verify

LEMMA TruncateInv == ASSUME Inv, NEW c \in Command, Truncate(c) PROVE Inv'
<1>1. CASE file' = [state |-> "broken", hosts |-> None] /\ Goto(c, "write")
  <2>1. TypeOK'
    BY <1>1, NoneIsHosts DEF Truncate, Inv, TypeOK, File, Goto
  <2>2. StoredPairsWereTried'
    BY <1>1, NoneIsHosts DEF StoredPairsWereTried
  <2>3. ASSUME NEW d \in Command PROVE Knows(d)'
    BY <1>1 DEF Truncate, Goto, Inv, TypeOK, Knows, AllIn
  <2>4. QED
    BY <2>1, <2>2, <2>3 DEF Inv
<1>2. CASE UNCHANGED file /\ Goto(c, "refused")
  <2>1. Knows(c)'
    BY <1>2 DEF Goto, Inv, TypeOK, Knows
  <2>2. QED
    BY <1>2, <2>1, OwnStep DEF Truncate, Inv, TypeOK, Over
<1>3. QED
  BY <1>1, <1>2 DEF Truncate

LEMMA WriteInv == ASSUME Inv, NEW c \in Command, Write(c) PROVE Inv'
<1>1. /\ pc[c] = "write" /\ copy[c] \in Hosts /\ AllIn(copy[c], checked)
      /\ Goto(c, "saved") /\ UNCHANGED <<cmd, copy, checked>>
  BY DEF Write, Inv, TypeOK, Knows
<1>2. \/ file' = [state |-> "object", hosts |-> copy[c]] /\ whole' = copy[c]
      \/ file' = [state |-> "broken", hosts |-> None] /\ UNCHANGED whole
  BY DEF Write
<1>3. TypeOK'
  BY <1>1, <1>2, NoneIsHosts DEF Inv, TypeOK, File, Goto, Over
<1>4. StoredPairsWereTried'
  BY <1>1, <1>2, NoneIsHosts DEF StoredPairsWereTried, AllIn
<1>5. ASSUME NEW d \in Command PROVE Knows(d)'
  BY <1>1 DEF Goto, Inv, TypeOK, Knows, AllIn
<1>6. QED
  BY <1>3, <1>4, <1>5 DEF Inv

LEMMA CrashInv == ASSUME Inv, NEW c \in Command, Crash(c) PROVE Inv'
<1>1. Knows(c)'
  BY DEF Crash, Goto, Inv, TypeOK, Knows
<1>2. QED
  BY <1>1, OwnStep DEF Crash, Inv, TypeOK, Over

LEMMA StepInv == Inv /\ [Next]_vars => Inv'
<1> SUFFICES ASSUME Inv, [Next]_vars PROVE Inv'
  OBVIOUS
<1>1. ASSUME NEW c \in Command, Step(c) PROVE Inv'
  BY <1>1, StartInv, CredentialsInv, ReadToAddInv, ReadToSetInv, ReadToLoginInv,
     ReadToRemoveInv, ReadToShowInv, ReadToListInv, VerifyInv, TruncateInv, WriteInv, CrashInv DEF Step
<1>2. CASE UNCHANGED vars
  BY <1>2 DEF vars, Inv, TypeOK, StoredPairsWereTried, Knows, AllIn
<1>3. QED
  BY <1>1, <1>2 DEF Next

------------------------------------------------------------------------------
\* The type invariant: a file without a table of hosts has none to show.
THEOREM ConfigTypeOK == Spec => []TypeOK
<1>1. Inv => TypeOK
  BY DEF Inv
<1>2. QED
  BY <1>1, InitInv, StepInv, PTL DEF Spec

\* StoredPairsWereTried, for any number of commands that overlap in any way and
\* may be killed: what is stored was verified, or let pass by --no-verify.
THEOREM ConfigStoredPairsWereTried == Spec => []StoredPairsWereTried
<1>1. Inv => StoredPairsWereTried
  BY DEF Inv
<1>2. QED
  BY <1>1, InitInv, StepInv, PTL DEF Spec
------------------------------------------------------------------------------
(* Clients and the daemon *)

Place == {"stat", "launch", "await", "dial", "remove", "sent", "answered",
          "started", "refused", "failing", "ready", "done"}
RequestFrame == [req : {"ping", "call", "await"}, left : Nat \ {0}]

\* What is true of a client at a with frames f and n runs of its call: only
\* pings of nested logins are above the request it makes, a job is the answer to
\* a call, and a call that can still be sent has not been run.
Sound(a, f, n) ==
  /\ a \in {"ready", "done"} <=> f = <<>>
  /\ \A i \in 2 .. Len(f) : f[i].req = "ping"
  /\ a = "started" => Len(f) = 1 /\ f[1].req = "call"
  /\ f # <<>> /\ f[1].req = "call" /\ a \notin {"failing", "started", "refused"}
     /\ (a = "answered" => Len(f) > 1)
       => n = 0
  /\ n <= 1

ClientTyped(a, f, n) == a \in Place /\ f \in Seq(RequestFrame) /\ n \in Nat

ClientsInv ==
  /\ at \in [Client -> Place] /\ frame \in [Client -> Seq(RequestFrame)]
  /\ ran \in [Client -> Nat]
  /\ \A c \in Client : Sound(at[c], frame[c], ran[c])

\* The client c goes to a with frames f and n runs.
Moves(c, a, f, n) ==
  /\ at' = [at EXCEPT ![c] = a] /\ frame' = [frame EXCEPT ![c] = f]
  /\ ran' = [ran EXCEPT ![c] = n]

LEMMA MovesInv ==
  ASSUME ClientsInv, NEW c \in Client, NEW a, NEW f, NEW n,
         Moves(c, a, f, n), ClientTyped(a, f, n), Sound(a, f, n)
  PROVE  ClientsInv'
<1>1. /\ at' \in [Client -> Place] /\ frame' \in [Client -> Seq(RequestFrame)]
      /\ ran' \in [Client -> Nat]
  BY DEF ClientsInv, Moves, ClientTyped
<1>2. ASSUME NEW d \in Client PROVE Sound(at'[d], frame'[d], ran'[d])
  <2>1. CASE d = c
    <3>1. at'[d] = a /\ frame'[d] = f /\ ran'[d] = n
      BY <2>1 DEF ClientsInv, Moves
    <3> QED
      BY <3>1
  <2>2. CASE d # c
    <3>1. at'[d] = at[d] /\ frame'[d] = frame[d] /\ ran'[d] = ran[d]
      BY <2>2 DEF ClientsInv, Moves
    <3> QED
      BY <3>1 DEF ClientsInv
  <2> QED
    BY <2>1, <2>2
<1> QED
  BY <1>1, <1>2 DEF ClientsInv

\* A client that only goes elsewhere, with the frames it has.
LEMMA GotoInv ==
  ASSUME ClientsInv, NEW c \in Client,
         NEW a \in Place \ {"answered", "started", "ready", "done"},
         at[c] \notin {"answered", "started", "refused", "failing"} \/ a = "failing",
         at[c] \notin {"ready", "done"},
         C!Goto(c, a), UNCHANGED <<frame, ran>>
  PROVE  ClientsInv'
<1>1. Moves(c, a, frame[c], ran[c])
  BY DEF ClientsInv, Moves, C!Goto
<1>2. ClientTyped(a, frame[c], ran[c])
  BY DEF ClientsInv, ClientTyped
<1>3. Sound(at[c], frame[c], ran[c])
  BY DEF ClientsInv
<1>4. Sound(a, frame[c], ran[c])
  BY <1>3 DEF Sound
<1> QED
  BY <1>1, <1>2, <1>4, MovesInv

\* One attempt less: the same frames, one of them with a smaller budget.
LEMMA SpentFrames ==
  ASSUME NEW f \in Seq(RequestFrame), f # <<>>, f[Len(f)].left > 1,
         NEW g, g = [f EXCEPT ![Len(f)].left = f[Len(f)].left - 1]
  PROVE  /\ g \in Seq(RequestFrame) /\ Len(g) = Len(f)
         /\ \A i \in 1 .. Len(f) : g[i].req = f[i].req
<1>1. Len(f) \in 1 .. Len(f) /\ DOMAIN f = 1 .. Len(f) /\ f[Len(f)] \in RequestFrame
  OBVIOUS
<1> DEFINE t == [f[Len(f)] EXCEPT !.left = f[Len(f)].left - 1]
<1>2. t \in RequestFrame /\ t.req = f[Len(f)].req
  BY <1>1 DEF RequestFrame
<1>3. g = [f EXCEPT ![Len(f)] = t]
  BY <1>1
<1> HIDE DEF t
<1> QED
  BY <1>1, <1>2, <1>3

\* A client between requests of f, none of which has been run, spends an attempt.
LEMMA SpendInv ==
  ASSUME ClientsInv, NEW c \in Client, NEW f \in Seq(RequestFrame), f # <<>>,
         \A i \in 2 .. Len(f) : f[i].req = "ping",
         f[1].req = "call" => ran[c] = 0,
         C!Spend(c, f), UNCHANGED ran
  PROVE  ClientsInv'
<1>1. ran[c] \in Nat /\ ran[c] <= 1
  BY DEF ClientsInv, Sound
<1>2. ASSUME NEW a \in {"dial", "failing"}, NEW g \in Seq(RequestFrame), g # <<>>,
             Len(g) = Len(f), \A i \in 1 .. Len(f) : g[i].req = f[i].req,
             frame' = [frame EXCEPT ![c] = g], C!Goto(c, a)
      PROVE  ClientsInv'
  <2>1. Moves(c, a, g, ran[c])
    BY <1>2 DEF ClientsInv, Moves, C!Goto
  <2>2. ClientTyped(a, g, ran[c])
    BY <1>1, <1>2 DEF ClientTyped, Place
  <2>3. /\ \A i \in 2 .. Len(g) : g[i].req = "ping"
        /\ g[1].req = f[1].req
    BY <1>2
  <2>4. Sound(a, g, ran[c])
    BY <1>1, <1>2, <2>3 DEF Sound
  <2> QED
    BY <2>1, <2>2, <2>4, MovesInv
<1> DEFINE left == f[Len(f)].left
           g == [f EXCEPT ![Len(f)].left = left - 1]
<1>3. CASE left > 1
  <2>1. frame' = [frame EXCEPT ![c] = g] /\ C!Goto(c, "dial")
    BY <1>3 DEF C!Spend
  <2>2. /\ g \in Seq(RequestFrame) /\ Len(g) = Len(f)
        /\ \A i \in 1 .. Len(f) : g[i].req = f[i].req
    BY <1>3, SpentFrames
  <2> HIDE DEF g
  <2>3. g # <<>>
    BY <2>2
  <2> QED
    BY <1>2, <2>1, <2>2, <2>3
<1>4. CASE ~(left > 1)
  <2>1. frame' = [frame EXCEPT ![c] = f] /\ C!Goto(c, "failing")
    BY <1>4 DEF C!Spend
  <2> QED
    BY <1>2, <2>1
<1> QED
  BY <1>3, <1>4

\* The dial failed.  The ping of a nested login goes on top.
LEMMA RemoveSocketInv ==
  ASSUME ClientsInv, NEW c \in Client, C!RemoveSocket(c)
  PROVE  ClientsInv'
<1> DEFINE f == frame[c]
           ping == [req |-> "ping", left |-> Retries]
           g == Append(f, ping)
<1>1. /\ at[c] = "remove" /\ f \in Seq(RequestFrame) /\ ran[c] \in Nat
      /\ Sound("remove", f, ran[c]) /\ UNCHANGED ran
  BY DEF ClientsInv, C!RemoveSocket, C!HostSide
<1>2. /\ f # <<>> /\ \A i \in 2 .. Len(f) : f[i].req = "ping"
      /\ f[1].req = "call" => ran[c] = 0
      /\ ran[c] <= 1
  BY <1>1 DEF Sound
<1>3. CASE frame' = [frame EXCEPT ![c] = g] /\ C!Goto(c, "stat")
  <2>1. ping \in RequestFrame /\ ping.req = "ping"
    BY ClientsAssumption DEF RequestFrame, C!ClientLifeAssumption
  <2> HIDE DEF ping, f
  <2>2. /\ g \in Seq(RequestFrame) /\ g # <<>> /\ g[1] = f[1]
        /\ \A i \in 2 .. Len(g) : g[i].req = "ping"
    BY <1>1, <1>2, <2>1
  <2> HIDE DEF g
  <2>3. Sound("stat", g, ran[c])
    BY <1>2, <2>2 DEF Sound
  <2>4. Moves(c, "stat", g, ran[c])
    BY <1>1, <1>3 DEF ClientsInv, Moves, C!Goto
  <2>5. ClientTyped("stat", g, ran[c])
    BY <1>1, <2>2 DEF ClientTyped, Place
  <2> QED
    BY <2>3, <2>4, <2>5, MovesInv
<1>4. CASE C!Spend(c, f)
  BY <1>1, <1>2, <1>4, SpendInv
<1> QED
  BY <1>3, <1>4 DEF C!RemoveSocket

\* On top of the stack is the request itself, or the ping of a nested login.
LEMMA TopIs ==
  ASSUME NEW a, NEW f \in Seq(RequestFrame), NEW n, Sound(a, f, n), a \notin {"ready", "done"}
  PROVE  f # <<>> /\ Len(f) \in Nat \ {0} /\ (f[Len(f)].req # "ping" => Len(f) = 1)
<1>1. f # <<>> /\ \A i \in 2 .. Len(f) : f[i].req = "ping"
  BY DEF Sound
<1>2. Len(f) \in Nat \ {0}
  BY <1>1
<1>3. \A k \in Nat \ {0} : k = 1 \/ k \in 2 .. k
  OBVIOUS
<1>4. Len(f) = 1 \/ Len(f) \in 2 .. Len(f)
  BY <1>2, <1>3
<1> QED
  BY <1>1, <1>2, <1>4

\* A daemon carries out the request on top of the stack.
LEMMA ServeInv ==
  ASSUME ClientsInv, NEW c \in Client, C!Serve(c) \/ C!ServeAwait(c)
  PROVE  ClientsInv'
<1> DEFINE f == frame[c]
<1>1. at[c] = "sent" /\ UNCHANGED frame
  BY DEF C!Serve, C!ServeAwait
<1>2. /\ f \in Seq(RequestFrame) /\ ran[c] \in Nat /\ Sound("sent", f, ran[c])
      /\ f # <<>> /\ Len(f) \in Nat \ {0} /\ (f[Len(f)].req # "ping" => Len(f) = 1)
  BY <1>1, TopIs DEF ClientsInv
<1>3. ASSUME NEW a \in {"answered", "started", "refused"}, NEW n \in {ran[c], ran[c] + 1},
             C!Goto(c, a), ran' = [ran EXCEPT ![c] = n],
             a = "started" => f[Len(f)].req = "call",
             n # ran[c] => f[Len(f)].req = "call",
             f[Len(f)].req = "call" => n = ran[c] + 1
      PROVE  ClientsInv'
  <2>1. Moves(c, a, f, n)
    BY <1>1, <1>3 DEF ClientsInv, C!Goto, Moves
  <2>2. ClientTyped(a, f, n)
    BY <1>2, <1>3 DEF ClientTyped, Place
  <2>3. Sound(a, f, n)
    BY <1>2, <1>3 DEF Sound
  <2> HIDE DEF f
  <2> QED
    BY <2>1, <2>2, <2>3, MovesInv
<1>4. f[Len(f)].req = C!Top(c).req
  BY DEF C!Top
<1>5. CASE C!Serve(c) /\ f[Len(f)].req = "call"
  <2>1. ran' = [ran EXCEPT ![c] = ran[c] + 1]
    BY <1>4, <1>5 DEF C!Serve
  <2>2. \E a \in {"answered", "started", "refused"} : C!Goto(c, a)
    BY <1>4, <1>5 DEF C!Serve
  <2> HIDE DEF f
  <2> QED
    BY <1>3, <1>5, <2>1, <2>2
<1>6. CASE f[Len(f)].req # "call"
  <2>1. (\E a \in {"answered", "refused"} : C!Goto(c, a)) /\ UNCHANGED ran
    BY <1>4, <1>6 DEF C!Serve, C!ServeAwait, C!HostSide
  <2>2. ran' = [ran EXCEPT ![c] = ran[c]]
    BY <2>1 DEF ClientsInv
  <2> HIDE DEF f
  <2> QED
    BY <1>3, <1>6, <2>1, <2>2
<1>7. CASE C!ServeAwait(c)
  <2>1. f[Len(f)].req = "await"
    BY <1>4, <1>7 DEF C!ServeAwait
  <2> QED
    BY <1>6, <2>1
<1> HIDE DEF f
<1> QED
  BY <1>5, <1>6, <1>7

\* An answer ends the request, or lets the one below it go on.
LEMMA ReceiveInv ==
  ASSUME ClientsInv, NEW c \in Client, C!Receive(c)
  PROVE  ClientsInv'
<1> DEFINE f == frame[c]
           outer == SubSeq(f, 1, Len(f) - 1)
<1>1. /\ at[c] \in {"answered", "started", "refused"} /\ UNCHANGED ran
      /\ f \in Seq(RequestFrame) /\ ran[c] \in Nat /\ Sound(at[c], f, ran[c])
  BY DEF ClientsInv, C!Receive, C!HostSide
<1>2. f # <<>> /\ f[Len(f)] \in RequestFrame
  BY <1>1 DEF Sound
<1>3. /\ outer \in Seq(RequestFrame) /\ Len(outer) = Len(f) - 1
      /\ \A i \in 1 .. Len(f) - 1 : outer[i] = f[i]
  BY <1>1, <1>2
<1> HIDE DEF outer
<1>4. CASE at[c] # "refused" /\ outer # <<>> /\ C!Spend(c, outer)
  <2>1. Len(f) > 1
    BY <1>1, <1>2, <1>3, <1>4
  <2>2. /\ \A i \in 2 .. Len(outer) : outer[i].req = "ping"
        /\ outer[1].req = "call" => ran[c] = 0
    BY <1>1, <1>2, <1>3, <1>4, <2>1 DEF Sound
  <2> QED
    BY <1>1, <1>3, <1>4, <2>2, SpendInv
<1>5. CASE outer = <<>> /\ frame' = [frame EXCEPT ![c] = outer] /\ C!Goto(c, "ready")
  <2>1. Moves(c, "ready", <<>>, ran[c])
    BY <1>1, <1>5 DEF ClientsInv, Moves, C!Goto
  <2>2. Sound("ready", <<>>, ran[c]) /\ ClientTyped("ready", <<>>, ran[c])
    BY <1>1 DEF Sound, ClientTyped, Place
  <2> QED
    BY <2>1, <2>2, MovesInv
<1>6. CASE at[c] = "refused" /\ C!Goto(c, "failing") /\ UNCHANGED frame
  BY <1>1, <1>6, GotoInv DEF Place
<1> QED
  BY <1>4, <1>5, <1>6 DEF C!Receive, C!Succeed, outer

LEMMA FailInv ==
  ASSUME ClientsInv, NEW c \in Client, C!Fail(c)
  PROVE  ClientsInv'
<1>1. at[c] = "failing" /\ ran[c] \in Nat /\ Sound("failing", frame[c], ran[c])
  BY DEF ClientsInv, C!Fail
<1>2. Moves(c, "ready", <<>>, ran[c])
  BY DEF ClientsInv, C!Fail, C!Goto, C!HostSide, Moves
<1>3. Sound("ready", <<>>, ran[c]) /\ ClientTyped("ready", <<>>, ran[c])
  BY <1>1 DEF Sound, ClientTyped, Place
<1> QED
  BY <1>2, <1>3, MovesInv

\* A request is made of a client that is ready for it.
LEMMA RequestInv ==
  ASSUME ClientsInv, NEW c \in Client, C!Call(c) \/ C!Close(c)
  PROVE  ClientsInv'
<1>1. at[c] = "ready" /\ ran[c] \in Nat /\ Sound("ready", frame[c], ran[c])
  BY DEF ClientsInv, C!Call, C!Close
<1>2. ASSUME NEW kind \in {"call", "await"}, C!Request(c, kind),
             NEW n \in 0 .. 1, ran' = [ran EXCEPT ![c] = n], kind = "call" => n = 0
      PROVE  ClientsInv'
  <2> DEFINE f == <<[req |-> kind, left |-> Retries]>>
  <2>1. f \in Seq(RequestFrame) /\ Len(f) = 1 /\ f # <<>> /\ f[1].req = kind
    BY ClientsAssumption DEF RequestFrame, C!ClientLifeAssumption
  <2>2. Moves(c, "dial", f, n)
    BY <1>2 DEF ClientsInv, C!Request, C!Goto, Moves
  <2> HIDE DEF f
  <2>3. Sound("dial", f, n) /\ ClientTyped("dial", f, n)
    BY <1>1, <1>2, <2>1 DEF Sound, ClientTyped, Place
  <2> QED
    BY <2>2, <2>3, MovesInv
<1>3. CASE C!Call(c)
  BY <1>2, <1>3 DEF C!Call
<1>4. CASE C!Close(c)
  <2>1. ran' = [ran EXCEPT ![c] = ran[c]]
    BY <1>4 DEF C!Close, C!HostSide, ClientsInv
  <2>2. ran[c] \in 0 .. 1
    BY <1>1 DEF Sound
  <2>3. CASE C!Request(c, "await")
    BY <1>2, <2>1, <2>2, <2>3
  <2>4. CASE C!Goto(c, "done") /\ UNCHANGED frame
    <3>1. Moves(c, "done", frame[c], ran[c])
      BY <2>1, <2>4 DEF ClientsInv, C!Goto, Moves
    <3>2. Sound("done", frame[c], ran[c])
      BY <1>1 DEF Sound
    <3>3. ClientTyped("done", frame[c], ran[c])
      BY DEF ClientsInv, ClientTyped, Place
    <3> QED
      BY <3>1, <3>2, <3>3, MovesInv
  <2> QED
    BY <1>4, <2>3, <2>4 DEF C!Close
<1> QED
  BY <1>3, <1>4

LEMMA ClientStepInv ==
  ASSUME ClientsInv, NEW c \in Client, C!Step(c)
  PROVE  ClientsInv'
<1>1. CASE C!Stat(c)
  BY <1>1, GotoInv DEF C!Stat, C!HostSide, Place
<1>2. CASE C!Launch(c)
  BY <1>2, GotoInv DEF C!Launch, C!HostSide, Place
<1>3. CASE C!AwaitSocket(c)
  BY <1>3, GotoInv DEF C!AwaitSocket, C!HostSide, Place
<1>4. CASE C!Dial(c)
  BY <1>4, GotoInv DEF C!Dial, C!HostSide, Place
<1>5. CASE C!Broken(c)
  BY <1>5, GotoInv DEF C!Broken, C!InRequest, C!HostSide, Place
<1> QED
  BY <1>1, <1>2, <1>3, <1>4, <1>5, RemoveSocketInv, ServeInv, ReceiveInv, FailInv,
     RequestInv DEF C!Step

LEMMA InitClients == C!Init => ClientsInv
<1> DEFINE f == <<[req |-> "ping", left |-> Retries]>>
<1>1. f \in Seq(RequestFrame) /\ Len(f) = 1 /\ f # <<>> /\ f[1].req = "ping"
  BY ClientsAssumption DEF RequestFrame, C!ClientLifeAssumption
<1> HIDE DEF f
<1>2. Sound("stat", f, 0)
  BY <1>1 DEF Sound
<1> QED
  BY <1>1, <1>2 DEF C!Init, ClientsInv, Place, f

Surroundings ==
  \/ \E c \in Client : C!JobEnds(c)
  \/ \E d \in Daemon : C!Listen(d) \/ C!Expire(d) \/ C!Exit(d) \/ C!Kill(d)

LEMMA NextClients == ClientsInv /\ [PartsNext]_allvars => ClientsInv'
<1> SUFFICES ASSUME ClientsInv, [PartsNext]_allvars PROVE ClientsInv'
  OBVIOUS
<1>1. CASE \E c \in Client : C!Step(c) \/ C!ServeAwait(c)
  BY <1>1, ClientStepInv, ServeInv
<1>2. CASE Surroundings
  <2>1. UNCHANGED <<at, frame, ran>>
    BY <1>2 DEF Surroundings, C!JobEnds, C!Listen, C!Expire, C!Exit, C!Kill, C!HostSide
  <2> QED
    BY <2>1 DEF ClientsInv
<1>3. CASE UNCHANGED clientvars
  BY <1>3 DEF ClientsInv, clientvars
<1> QED
  BY <1>1, <1>2, <1>3 DEF PartsNext, InPart, allvars, C!Next, Surroundings

\* A daemon runs each call of a command at most once, whatever daemons stop and
\* however often the command dials, removes the socket and logs in again from
\* within its request (client_api.go:128-215): the request is sent anew only
\* when a dial has failed, that is, before any daemon has run it.
THEOREM ClientsCallRunsAtMostOnce == PartsSpec => []CallRunsAtMostOnce
<1>1. PartsInit => ClientsInv
  BY InitClients DEF PartsInit
<1>2. ClientsInv => CallRunsAtMostOnce
  BY DEF ClientsInv, Sound, CallRunsAtMostOnce, C!CallRunsAtMostOnce
<1> QED
  BY <1>1, <1>2, NextClients, PTL DEF PartsSpec

\* Of a client at a with frames f, t requests to make, the jobs js to await and rn
\* that run, where fl says whether a request has failed: the job of an await that
\* was answered is over, and a job that runs is to be awaited, or in the answer
\* that has come, or a request has failed or is about to.
Known(a, f, t, js, fl, rn) ==
  /\ a = "done" => js = {}
  /\ a = "answered" /\ Len(f) = 1 /\ f[1].req = "await" =>
       (CHOOSE j \in js : \A k \in js : k <= j) \notin rn
  /\ \/ fl \/ a \in {"refused", "failing"}
     \/ \A j \in rn : j \in js \/ (a = "started" /\ j = t)

JobsInv ==
  /\ todo \in [Client -> Int] /\ failed \in [Client -> BOOLEAN]
  /\ jobs \in [Client -> SUBSET Int] /\ running \in [Client -> SUBSET Int]
  /\ \A c \in Client : Known(at[c], frame[c], todo[c], jobs[c], failed[c], running[c])

\* The client c goes to a with frames f, and its jobs are those given.
JobsMove(c, a, f, t, js, fl, rn) ==
  /\ at' = [at EXCEPT ![c] = a] /\ frame' = [frame EXCEPT ![c] = f]
  /\ todo' = [todo EXCEPT ![c] = t] /\ jobs' = [jobs EXCEPT ![c] = js]
  /\ failed' = [failed EXCEPT ![c] = fl] /\ running' = [running EXCEPT ![c] = rn]
  /\ t \in Int /\ js \in SUBSET Int /\ fl \in BOOLEAN /\ rn \in SUBSET Int

LEMMA JobsMoveInv ==
  ASSUME ClientsInv, JobsInv, NEW c \in Client, NEW a, NEW f, NEW t, NEW js, NEW fl, NEW rn,
         JobsMove(c, a, f, t, js, fl, rn), Known(a, f, t, js, fl, rn)
  PROVE  JobsInv'
<1> USE DEF JobsMove
<1>1. /\ todo' \in [Client -> Int] /\ failed' \in [Client -> BOOLEAN]
      /\ jobs' \in [Client -> SUBSET Int] /\ running' \in [Client -> SUBSET Int]
  BY DEF JobsInv
<1>2. ASSUME NEW d \in Client
      PROVE  Known(at'[d], frame'[d], todo'[d], jobs'[d], failed'[d], running'[d])
  <2>1. CASE d = c
    <3>1. /\ at'[d] = a /\ frame'[d] = f /\ todo'[d] = t /\ jobs'[d] = js
          /\ failed'[d] = fl /\ running'[d] = rn
      BY <2>1 DEF JobsInv, ClientsInv
    <3> QED
      BY <3>1
  <2>2. CASE d # c
    <3>1. /\ at'[d] = at[d] /\ frame'[d] = frame[d] /\ todo'[d] = todo[d]
          /\ jobs'[d] = jobs[d] /\ failed'[d] = failed[d] /\ running'[d] = running[d]
      BY <2>2 DEF JobsInv, ClientsInv
    <3> QED
      BY <3>1 DEF JobsInv
  <2> QED
    BY <2>1, <2>2
<1> QED
  BY <1>1, <1>2 DEF JobsInv

LEMMA OwnJobs ==
  ASSUME ClientsInv, JobsInv, NEW c \in Client
  PROVE  /\ todo[c] \in Int /\ jobs[c] \in SUBSET Int /\ failed[c] \in BOOLEAN
         /\ running[c] \in SUBSET Int
         /\ Known(at[c], frame[c], todo[c], jobs[c], failed[c], running[c])
         /\ UNCHANGED at => at' = [at EXCEPT ![c] = at[c]]
         /\ UNCHANGED frame => frame' = [frame EXCEPT ![c] = frame[c]]
         /\ UNCHANGED todo => todo' = [todo EXCEPT ![c] = todo[c]]
         /\ UNCHANGED jobs => jobs' = [jobs EXCEPT ![c] = jobs[c]]
         /\ UNCHANGED failed => failed' = [failed EXCEPT ![c] = failed[c]]
         /\ UNCHANGED running => running' = [running EXCEPT ![c] = running[c]]
BY DEF ClientsInv, JobsInv

\* Most steps leave the jobs alone, and lose sight of none.
Goes(c, a, f) == at' = [at EXCEPT ![c] = a] /\ frame' = [frame EXCEPT ![c] = f]

LEMMA QuietJobs ==
  ASSUME ClientsInv, JobsInv, NEW c \in Client, NEW a, NEW f, Goes(c, a, f),
         UNCHANGED <<todo, jobs, failed, running>>,
         a \notin {"done", "answered"},
         at[c] \notin {"started", "refused", "failing"} \/ a = "failing"
  PROVE  JobsInv'
<1>1. Known(a, f, todo[c], jobs[c], failed[c], running[c])
  BY OwnJobs DEF Known
<1>2. JobsMove(c, a, f, todo[c], jobs[c], failed[c], running[c])
  BY OwnJobs DEF JobsMove, Goes
<1> QED
  BY <1>1, <1>2, JobsMoveInv

LEMMA ServeJobs ==
  ASSUME ClientsInv, JobsInv, NEW c \in Client, C!Serve(c) \/ C!ServeAwait(c)
  PROVE  JobsInv'
<1>1. at[c] = "sent" /\ UNCHANGED <<frame, todo, jobs, failed>>
  BY DEF C!Serve, C!ServeAwait, C!CommandSide
<1>2. ASSUME NEW a, NEW rn \in SUBSET Int, C!Goto(c, a), running' = [running EXCEPT ![c] = rn],
             Known(a, frame[c], todo[c], jobs[c], failed[c], rn)
      PROVE  JobsInv'
  <2>1. JobsMove(c, a, frame[c], todo[c], jobs[c], failed[c], rn)
    BY <1>1, <1>2, OwnJobs DEF C!Goto, JobsMove
  <2> QED
    BY <1>2, <2>1, JobsMoveInv
<1>3. CASE C!Goto(c, "refused") /\ UNCHANGED running
  <2>1. Known("refused", frame[c], todo[c], jobs[c], failed[c], running[c])
    BY DEF Known
  <2> QED
    BY <1>2, <1>3, <2>1, OwnJobs
<1>4. CASE C!Goto(c, "answered") /\ UNCHANGED running /\ C!Top(c).req \in {"ping", "call"}
  <2>1. Known("answered", frame[c], todo[c], jobs[c], failed[c], running[c])
    BY <1>1, <1>4, OwnJobs DEF Known, C!Top
  <2> QED
    BY <1>2, <1>4, <2>1, OwnJobs
<1>5. CASE C!Goto(c, "answered") /\ UNCHANGED running /\ C!Oldest(c) \notin running[c]
  <2>1. Known("answered", frame[c], todo[c], jobs[c], failed[c], running[c])
    BY <1>1, <1>5, OwnJobs DEF Known, C!Oldest
  <2> QED
    BY <1>2, <1>5, <2>1, OwnJobs
<1>6. ASSUME NEW a \in {"started", "refused"}, C!Goto(c, a),
             running' = [running EXCEPT ![c] = @ \cup {todo[c]}]
      PROVE  JobsInv'
  <2> DEFINE rn == running[c] \cup {todo[c]}
  <2>1. rn \in SUBSET Int /\ running' = [running EXCEPT ![c] = rn]
    BY <1>6, OwnJobs
  <2>2. Known(a, frame[c], todo[c], jobs[c], failed[c], rn)
    BY <1>1, <1>6, OwnJobs DEF Known
  <2> HIDE DEF rn
  <2> QED
    BY <1>2, <1>6, <2>1, <2>2
<1> QED
  BY <1>3, <1>4, <1>5, <1>6 DEF C!Serve, C!ServeAwait, C!HostSide

LEMMA ReceiveJobs ==
  ASSUME ClientsInv, JobsInv, NEW c \in Client, C!Receive(c)
  PROVE  JobsInv'
<1> DEFINE f == frame[c]
           outer == SubSeq(f, 1, Len(f) - 1)
<1>1. /\ at[c] \in {"answered", "started", "refused"} /\ UNCHANGED running
      /\ f \in Seq(RequestFrame) /\ Sound(at[c], f, ran[c])
  BY DEF ClientsInv, C!Receive, C!HostSide
<1>2. f # <<>> /\ Len(f) \in Nat \ {0}
  BY <1>1, TopIs
<1>3. Len(outer) = Len(f) - 1 /\ outer \in Seq(RequestFrame)
  BY <1>1, <1>2
<1>4. at[c] = "started" => Len(f) = 1 /\ f[1].req = "call"
  BY <1>1 DEF Sound
<1> HIDE DEF outer
<1>5. CASE at[c] # "refused" /\ outer # <<>> /\ C!Spend(c, outer) /\ UNCHANGED <<todo, jobs, failed>>
  <2>1. at[c] = "answered"
    <3>1. \A x \in Seq(RequestFrame) : Len(x) = 0 => x = <<>>
      OBVIOUS
    <3>2. Len(outer) = 0 => outer = <<>>
      BY <1>3, <3>1
    <3>3. Len(f) # 1
      BY <1>5, <1>3, <3>2
    <3> QED
      BY <1>1, <1>4, <1>5, <3>3
  <2>2. \E a \in {"dial", "failing"} : \E g : C!Goto(c, a) /\ frame' = [frame EXCEPT ![c] = g]
    BY <1>5 DEF C!Spend
  <2> QED
    BY <1>1, <1>5, <2>1, <2>2, QuietJobs DEF C!Goto, Goes
<1>6. CASE /\ at[c] # "refused" /\ outer = <<>> /\ frame' = [frame EXCEPT ![c] = outer]
           /\ C!Goto(c, "ready") /\ C!Succeed(c)
  <2>1. Len(f) = 1 /\ C!Top(c) = f[1]
    BY <1>2, <1>6, <1>3 DEF C!Top
  <2> DEFINE t == IF C!Top(c).req = "call" THEN todo[c] - 1 ELSE todo[c]
             js == CASE C!Top(c).req = "await" -> jobs[c] \ {C!Oldest(c)}
                     [] at[c] = "started"      -> jobs[c] \cup {todo[c]}
                     [] OTHER                  -> jobs[c]
  <2>2. todo' = [todo EXCEPT ![c] = t] /\ jobs' = [jobs EXCEPT ![c] = js] /\ UNCHANGED failed
    BY <1>6 DEF C!Succeed, outer
  <2>3. t \in Int /\ js \in SUBSET Int
    BY OwnJobs
  <2>4. failed[c] \/ \A j \in running[c] : j \in js
    <3>1. CASE at[c] = "started"
      BY <1>4, <2>1, <3>1, OwnJobs DEF Known
    <3>2. CASE at[c] = "answered" /\ C!Top(c).req = "await"
      BY <2>1, <3>2, OwnJobs DEF Known, C!Oldest
    <3>3. CASE at[c] = "answered" /\ C!Top(c).req # "await"
      BY <3>3, OwnJobs DEF Known
    <3> QED
      BY <1>1, <1>6, <3>1, <3>2, <3>3
  <2> HIDE DEF t, js
  <2>5. Known("ready", <<>>, t, js, failed[c], running[c])
    BY <2>4 DEF Known
  <2>6. at' = [at EXCEPT ![c] = "ready"] /\ frame' = [frame EXCEPT ![c] = <<>>]
    BY <1>6 DEF C!Goto
  <2>7. JobsMove(c, "ready", <<>>, t, js, failed[c], running[c])
    BY <1>1, <2>2, <2>3, <2>6, OwnJobs DEF JobsMove
  <2> QED
    BY <2>5, <2>7, JobsMoveInv
<1>7. CASE C!Goto(c, "failing") /\ UNCHANGED <<frame, todo, jobs, failed>>
  <2>1. Goes(c, "failing", frame[c])
    BY <1>7, OwnJobs DEF C!Goto, Goes
  <2> QED
    BY <1>1, <1>7, <2>1, QuietJobs
<1> QED
  BY <1>5, <1>6, <1>7 DEF C!Receive, C!Succeed, C!CommandSide, outer

LEMMA FailJobs ==
  ASSUME ClientsInv, JobsInv, NEW c \in Client, C!Fail(c)
  PROVE  JobsInv'
<1> DEFINE js == IF frame[c][1].req = "await" THEN jobs[c] \ {C!Oldest(c)} ELSE jobs[c]
<1>1. /\ at' = [at EXCEPT ![c] = "ready"] /\ frame' = [frame EXCEPT ![c] = <<>>]
      /\ failed' = [failed EXCEPT ![c] = TRUE] /\ jobs' = [jobs EXCEPT ![c] = js]
      /\ UNCHANGED running
  BY DEF C!Fail, C!Goto, C!HostSide
<1>2. PICK t \in Int : todo' = [todo EXCEPT ![c] = t]
  <2>1. PICK goesOn \in BOOLEAN : todo' = [todo EXCEPT ![c] = IF goesOn THEN @ - 1 ELSE 0]
    BY DEF C!Fail
  <2>2. todo' = [todo EXCEPT ![c] = IF goesOn THEN todo[c] - 1 ELSE 0]
    BY <2>1
  <2>3. (IF goesOn THEN todo[c] - 1 ELSE 0) \in Int
    BY OwnJobs
  <2> QED
    BY <2>2, <2>3
<1>3. js \in SUBSET Int
  BY OwnJobs
<1> HIDE DEF js
<1>4. Known("ready", <<>>, t, js, TRUE, running[c])
  BY DEF Known
<1>5. JobsMove(c, "ready", <<>>, t, js, TRUE, running[c])
  BY <1>1, <1>2, <1>3, OwnJobs DEF JobsMove
<1> QED
  BY <1>4, <1>5, JobsMoveInv

LEMMA CloseJobs ==
  ASSUME ClientsInv, JobsInv, NEW c \in Client, C!Close(c)
  PROVE  JobsInv'
<1>1. at[c] = "ready" /\ UNCHANGED <<todo, jobs, failed, running>>
  BY DEF C!Close, C!CommandSide, C!HostSide
<1>2. CASE C!Request(c, "await")
  BY <1>1, <1>2, QuietJobs DEF C!Request, C!Goto, Goes
<1>3. CASE jobs[c] = {} /\ C!Goto(c, "done") /\ UNCHANGED frame
  <2>1. Known("done", frame[c], todo[c], jobs[c], failed[c], running[c])
    BY <1>1, <1>3, OwnJobs DEF Known
  <2>2. JobsMove(c, "done", frame[c], todo[c], jobs[c], failed[c], running[c])
    BY <1>1, <1>3, OwnJobs DEF C!Goto, JobsMove
  <2> QED
    BY <2>1, <2>2, JobsMoveInv
<1> QED
  BY <1>2, <1>3 DEF C!Close

LEMMA StepJobs ==
  ASSUME ClientsInv, JobsInv, NEW c \in Client, C!Step(c)
  PROVE  JobsInv'
<1>1. CASE C!Stat(c) \/ C!Launch(c) \/ C!AwaitSocket(c) \/ C!Dial(c) \/ C!Broken(c)
  <2>1. /\ UNCHANGED <<frame, todo, jobs, failed, running>>
        /\ \E a \in Place : /\ C!Goto(c, a) /\ a \notin {"done", "answered"}
                             /\ \/ at[c] \notin {"started", "refused", "failing"}
                                \/ a = "failing"
    BY <1>1 DEF C!Stat, C!Launch, C!AwaitSocket, C!Dial, C!Broken, C!InRequest, Place,
       C!CommandSide, C!HostSide
  <2> QED
    BY <2>1, OwnJobs, QuietJobs DEF C!Goto, Goes
<1>2. CASE C!RemoveSocket(c)
  <2>1. /\ at[c] = "remove" /\ UNCHANGED <<todo, jobs, failed, running>>
        /\ \E a \in {"stat", "dial", "failing"} : \E g :
             C!Goto(c, a) /\ frame' = [frame EXCEPT ![c] = g]
    BY <1>2 DEF C!RemoveSocket, C!Spend, C!CommandSide, C!HostSide
  <2> QED
    BY <2>1, QuietJobs DEF C!Goto, Goes
<1>3. CASE C!Call(c)
  <2> DEFINE g == <<[req |-> "call", left |-> Retries]>>
  <2>1. /\ at[c] = "ready" /\ UNCHANGED <<todo, jobs, failed, running>>
        /\ Goes(c, "dial", g)
    BY <1>3 DEF C!Call, C!Request, C!CommandSide, C!Goto, Goes
  <2> HIDE DEF g
  <2> QED
    BY <2>1, QuietJobs
<1> QED
  BY <1>1, <1>2, <1>3, ServeJobs, ReceiveJobs, FailJobs, CloseJobs DEF C!Step

LEMMA JobEndsJobs ==
  ASSUME ClientsInv, JobsInv, NEW c \in Client, C!JobEnds(c)
  PROVE  JobsInv'
<1>1. UNCHANGED <<at, frame, todo, jobs, failed>>
  BY DEF C!JobEnds, C!CommandSide
<1>2. PICK j \in running[c] : running' = [running EXCEPT ![c] = running[c] \ {j}]
  BY DEF C!JobEnds
<1> DEFINE rn == running[c] \ {j}
<1>3. rn \in SUBSET Int
  BY OwnJobs
<1>4. Known(at[c], frame[c], todo[c], jobs[c], failed[c], rn)
  BY OwnJobs DEF Known
<1> HIDE DEF rn
<1>5. running' = [running EXCEPT ![c] = rn]
  BY <1>2 DEF rn
<1>6. JobsMove(c, at[c], frame[c], todo[c], jobs[c], failed[c], rn)
  BY <1>1, <1>3, <1>5, OwnJobs DEF JobsMove
<1> QED
  BY <1>4, <1>6, JobsMoveInv

LEMMA InitJobs == C!Init => JobsInv
BY ClientsAssumption DEF C!Init, C!ClientLifeAssumption, JobsInv, Known

LEMMA NextJobs == ClientsInv /\ JobsInv /\ [PartsNext]_allvars => JobsInv'
<1> SUFFICES ASSUME ClientsInv, JobsInv, [PartsNext]_allvars PROVE JobsInv'
  OBVIOUS
<1>1. CASE \E c \in Client : C!Step(c) \/ C!ServeAwait(c)
  BY <1>1, StepJobs, ServeJobs
<1>2. CASE Surroundings
  <2>1. CASE \E c \in Client : C!JobEnds(c)
    BY <2>1, JobEndsJobs
  <2>2. CASE \E d \in Daemon : C!Listen(d) \/ C!Expire(d) \/ C!Exit(d) \/ C!Kill(d)
    <3>1. UNCHANGED <<at, frame, todo, jobs, failed, running>>
      BY <2>2 DEF C!Listen, C!Expire, C!Exit, C!Kill, C!CommandSide, C!HostSide
    <3> QED
      BY <3>1 DEF JobsInv
  <2> QED
    BY <1>2, <2>1, <2>2 DEF Surroundings
<1>3. CASE UNCHANGED clientvars
  BY <1>3 DEF JobsInv, clientvars
<1> QED
  BY <1>1, <1>2, <1>3 DEF PartsNext, InPart, allvars, C!Next, Surroundings

\* When no request of a command has failed, none of its jobs runs when it ends:
\* what its calls have started, Close has awaited, and an await that a lost daemon
\* did not answer, or answered with an error, is a failed request
\* (client_api.go:155-183, 222).
THEOREM ClientsEndAfterTheirJobs == PartsSpec => []EndsAfterItsJobs
<1>1. PartsInit => ClientsInv /\ JobsInv
  BY InitClients, InitJobs DEF PartsInit
<1>2. JobsInv => EndsAfterItsJobs
  BY DEF JobsInv, Known, EndsAfterItsJobs, C!EndsAfterItsJobs
<1> QED
  BY <1>1, <1>2, NextClients, NextJobs, PTL DEF PartsSpec

------------------------------------------------------------------------------
(* One config command at a time implements HostTable *)

\* The table that is to be written differs from the last complete one by the
\* one name the command was given.
OneNameChanged(t) ==
  \E n \in Name : \/ t = [k \in DOMAIN whole \ {n} |-> whole[k]]
                  \/ \E p \in Profile : t = With(whole, n, p)

\* No command goes on with a damaged file, and only its writer breaks it.
FileFits(c) ==
  /\ pc[c] = "write" => file.state = "broken" /\ OneNameChanged(copy[c])
  /\ pc[c] = "truncate" \/ (pc[c] = "verify" /\ cmd[c].op = "set") =>
       file.state \in {"absent", "object"} /\ OneNameChanged(copy[c])
  /\ pc[c] = "verify" /\ cmd[c].op = "login" =>
       file.state \in {"absent", "object"} /\ copy[c] = whole

SerialInv ==
  /\ Inv
  /\ \A c, d \in Active : c = d
  /\ file.state # "unreadable"
  /\ file.state # "broken" => file.hosts = whole
  /\ \A c \in Command : FileFits(c)

Damaged == file.state \in {"broken", "null"} /\ Writing = {}

\* A step of HostTable on the last complete table, or none.
TableStep ==
  \/ UNCHANGED whole /\ (Damaged' <=> Damaged)
  \/ UNCHANGED whole /\ ~Damaged /\ Damaged'
  \/ ~Damaged /\ ~Damaged' /\ OneNameChanged(whole')

LEMMA OthersAreOver ==
  ASSUME MaxActive = 1, SerialInv, NEW c \in Command, Step(c), NEW d \in Command \ {c}
  PROVE  pc[d] \in Over \cup {"idle"}
<1>1. CASE Start(c)
  <2>1. Cardinality(Active) < 1
    BY <1>1 DEF Start
  <2>2. ASSUME d \in Active PROVE FALSE
    <3>1. Active = {d}
      BY <2>2 DEF SerialInv
    <3> QED
      BY <2>1, <3>1, FS_Singleton
  <2> QED
    BY <2>2 DEF Active
<1>2. CASE ~Start(c)
  <2>1. c \in Active
    BY <1>2 DEF Step, Credentials, Verify, ReadToAdd, ReadToSet, ReadToLogin, ReadToRemove,
       ReadToShow, ReadToList, Truncate, Write, Crash, Active, Over
  <2> QED
    BY <2>1 DEF SerialInv, Active
<1> QED
  BY <1>1, <1>2

LEMMA StepGoes == ASSUME NEW c \in Command, Step(c) PROVE \E w : Goto(c, w)
BY DEF Step, Start, Credentials, Verify, ReadToAdd, ReadToSet, ReadToLogin, ReadToRemove,
   ReadToShow, ReadToList, Truncate, Write, Crash

\* What a step of the only active command has to show.
LEMMA SerialStep ==
  ASSUME MaxActive = 1, SerialInv, NEW c \in Command, Step(c), FileFits(c)',
         file'.state # "unreadable", file'.state # "broken" => file'.hosts = whole'
  PROVE  SerialInv'
<1>1. Inv'
  BY StepInv DEF SerialInv, Next
<1>2. PICK w : Goto(c, w)
  BY StepGoes
<1>3. \A d \in Command \ {c} : pc'[d] = pc[d] /\ pc[d] \in Over \cup {"idle"}
  BY <1>2, OthersAreOver DEF Goto, SerialInv, Inv, TypeOK
<1>4. \A d \in Command \ {c} : FileFits(d)'
  BY <1>3 DEF FileFits, Over
<1>5. \A d, e \in Active' : d = e
  BY <1>3 DEF Active
<1> QED
  BY <1>1, <1>4, <1>5 DEF SerialInv

\* The file is complete as far as a command can tell, and so is what it reads.
LEMMA LoadedIsWhole ==
  ASSUME SerialInv, file.state \notin {"broken", "null"}
  PROVE  file.state \in {"absent", "object"} /\ Loaded = whole /\ file.hosts = whole
BY DEF SerialInv, Inv, TypeOK, File, Loaded

LEMMA WritingIsOwn ==
  ASSUME MaxActive = 1, SerialInv, NEW c \in Command, Step(c)
  PROVE  (Writing = {} <=> pc[c] # "write") /\ (Writing' = {} <=> pc'[c] # "write")
<1>1. PICK w : Goto(c, w)
  BY StepGoes
<1>2. \A d \in Command \ {c} : pc'[d] = pc[d] /\ pc[d] # "write"
  BY <1>1, OthersAreOver DEF Goto, SerialInv, Inv, TypeOK, Over
<1> QED
  BY <1>2 DEF Writing

\* A step that leaves the file alone and is not about its writing.
LEMMA FileLeftAlone ==
  ASSUME MaxActive = 1, SerialInv, NEW c \in Command, Step(c), UNCHANGED <<file, whole>>,
         pc[c] # "write", pc'[c] # "write", FileFits(c)'
  PROVE  SerialInv' /\ TableStep
<1>1. SerialInv'
  BY SerialStep DEF SerialInv
<1>2. Damaged' <=> Damaged
  BY WritingIsOwn DEF Damaged
<1> QED
  BY <1>1, <1>2 DEF TableStep

LEMMA MergedProfile ==
  ASSUME TypeOK, NEW c \in Command, NEW old \in Profile
  PROVE  Merged(c, old) \in Profile
BY DEF TypeOK, CommandLine, Profile, Merged

LEMMA ReadSerial ==
  ASSUME MaxActive = 1, SerialInv, NEW c \in Command,
         ReadToAdd(c) \/ ReadToSet(c) \/ ReadToLogin(c) \/ ReadToRemove(c)
         \/ ReadToShow(c) \/ ReadToList(c)
  PROVE  SerialInv' /\ TableStep
<1> DEFINE n == cmd[c].name
<1>1. /\ pc[c] = "read" /\ UNCHANGED <<file, cmd, whole>> /\ Step(c)
      /\ TypeOK /\ cmd[c] \in CommandLine /\ n \in Name
  BY DEF ReadToAdd, ReadToSet, ReadToLogin, ReadToRemove, ReadToShow, ReadToList, Step, SerialInv, Inv,
     TypeOK, CommandLine
<1>2. PICK w : Goto(c, w)
  BY <1>1, StepGoes
<1>3. pc'[c] = w
  BY <1>1, <1>2 DEF Goto, TypeOK
<1>4. CASE ReadToAdd(c)
  <2> DEFINE p == [url |-> cmd[c].url, key |-> cmd[c].key]
  <2>1. p \in Profile
    BY <1>4 DEF ReadToAdd, SerialInv, Inv, Knows, TypeOK
  <2>2. CASE w = "truncate"
    <3>1. file.state \notin {"broken", "null"} /\ copy'[c] = With(Loaded, n, p)
      BY <1>1, <1>2, <1>3, <1>4, <2>2 DEF ReadToAdd, Goto, TypeOK
    <3>2. OneNameChanged(copy'[c])
      BY <1>1, <2>1, <3>1, LoadedIsWhole DEF OneNameChanged
    <3>3. FileFits(c)'
      BY <1>1, <1>3, <2>2, <3>1, <3>2, LoadedIsWhole DEF FileFits, OneNameChanged
    <3> QED
      BY <1>1, <1>3, <2>2, <3>3, FileLeftAlone
  <2>3. CASE w # "truncate"
    <3>1. w = "panic"
      BY <1>1, <1>2, <1>3, <1>4, <2>3 DEF ReadToAdd, Goto, TypeOK
    <3>2. FileFits(c)'
      BY <1>3, <3>1 DEF FileFits
    <3> QED
      BY <1>1, <1>3, <3>1, <3>2, FileLeftAlone
  <2> QED
    BY <2>2, <2>3
<1>5. CASE ReadToSet(c)
  <2>1. CASE w = "verify"
    <3>1. /\ file.state # "null" /\ n \in DOMAIN Loaded
          /\ copy'[c] = With(Loaded, n, Merged(c, Loaded[n])) /\ cmd[c].op = "set"
      BY <1>1, <1>2, <1>3, <1>5, <2>1 DEF ReadToSet, Goto, TypeOK
    <3>2. file.state = "object"
      BY <3>1, NoneIsHosts DEF Loaded
    <3>3. Merged(c, Loaded[n]) \in Profile
      BY <1>1, <3>1, LoadedIs, HostsAre, MergedProfile DEF AllIn
    <3>4. OneNameChanged(copy'[c])
      BY <1>1, <3>1, <3>2, <3>3, LoadedIsWhole DEF OneNameChanged
    <3>5. FileFits(c)'
      BY <1>1, <1>3, <2>1, <3>1, <3>2, <3>4 DEF FileFits, OneNameChanged
    <3> QED
      BY <1>1, <1>3, <2>1, <3>5, FileLeftAlone
  <2>2. CASE w # "verify"
    <3>1. w \in {"panic", "refused"}
      BY <1>1, <1>2, <1>3, <1>5, <2>2 DEF ReadToSet, Goto, TypeOK
    <3>2. FileFits(c)'
      BY <1>3, <3>1 DEF FileFits
    <3> QED
      BY <1>1, <1>3, <3>1, <3>2, FileLeftAlone
  <2> QED
    BY <2>1, <2>2
<1>6. CASE ReadToLogin(c)
  <2>1. /\ w \in {"panic", "refused", "verify"} /\ cmd[c].op = "login"
        /\ w = "verify" => file.state \in {"absent", "object"}
        /\ copy'[c] = file.hosts
    BY <1>1, <1>2, <1>3, <1>6 DEF ReadToLogin, Goto, TypeOK
  <2>2. w = "verify" => copy'[c] = whole
    BY <2>1, LoadedIsWhole
  <2>3. FileFits(c)'
    BY <1>1, <1>3, <2>1, <2>2 DEF FileFits
  <2> QED
    BY <1>1, <1>3, <2>1, <2>3, FileLeftAlone
<1>7. CASE ReadToRemove(c)
  <2>1. CASE w = "truncate"
    <3>1. /\ file.state = "object"
          /\ copy'[c] = [k \in DOMAIN file.hosts \ {n} |-> file.hosts[k]]
      BY <1>1, <1>2, <1>3, <1>7, <2>1 DEF ReadToRemove, Goto, TypeOK
    <3>2. file.hosts = whole
      BY <3>1, LoadedIsWhole
    <3>3. OneNameChanged(copy'[c])
      BY <1>1, <3>1, <3>2 DEF OneNameChanged
    <3>4. FileFits(c)'
      BY <1>1, <1>3, <2>1, <3>1, <3>3 DEF FileFits, OneNameChanged
    <3> QED
      BY <1>1, <1>3, <2>1, <3>4, FileLeftAlone
  <2>2. CASE w # "truncate"
    <3>1. w = "refused"
      BY <1>1, <1>2, <1>3, <1>7, <2>2 DEF ReadToRemove, Goto, TypeOK
    <3>2. FileFits(c)'
      BY <1>3, <3>1 DEF FileFits
    <3> QED
      BY <1>1, <1>3, <3>1, <3>2, FileLeftAlone
  <2> QED
    BY <2>1, <2>2
<1>8. CASE ReadToList(c)
  <2>1. w \in {"refused", "none", "listed"}
    BY <1>1, <1>2, <1>3, <1>8 DEF ReadToList, Goto, TypeOK
  <2>2. FileFits(c)'
    BY <1>3, <2>1 DEF FileFits
  <2> QED
    BY <1>1, <1>3, <2>1, <2>2, FileLeftAlone
<1>9. CASE ReadToShow(c)
  <2>1. w \in {"refused", "listed"}
    BY <1>1, <1>2, <1>3, <1>9 DEF ReadToShow, Goto, TypeOK
  <2>2. FileFits(c)'
    BY <1>3, <2>1 DEF FileFits
  <2> QED
    BY <1>1, <1>3, <2>1, <2>2, FileLeftAlone
<1> QED
  BY <1>4, <1>5, <1>6, <1>7, <1>8, <1>9

LEMMA VerifySerial ==
  ASSUME MaxActive = 1, SerialInv, NEW c \in Command, Verify(c)
  PROVE  SerialInv' /\ TableStep
<1>1. /\ pc[c] = "verify" /\ UNCHANGED <<file, cmd, whole>> /\ Step(c)
      /\ TypeOK /\ cmd[c] \in CommandLine /\ cmd[c].op \in {"add", "set", "login"}
      /\ FileFits(c)
  BY DEF Verify, Step, SerialInv, Inv, Knows, TypeOK
<1>2. CASE Goto(c, "refused") /\ UNCHANGED copy
  <2>1. pc'[c] = "refused"
    BY <1>1, <1>2 DEF Goto, TypeOK
  <2>2. FileFits(c)'
    BY <2>1 DEF FileFits
  <2> QED
    BY <1>1, <2>1, <2>2, FileLeftAlone
<1>3. ASSUME NEW p \in Tried(c),
             copy' = [copy EXCEPT ![c] =
               IF cmd[c].op = "login" THEN With(@, cmd[c].name, p) ELSE @],
             Goto(c, IF cmd[c].op = "add" THEN "read" ELSE "truncate")
      PROVE  SerialInv' /\ TableStep
  <2>1. CASE cmd[c].op = "add"
    <3>1. pc'[c] = "read"
      BY <1>1, <1>3, <2>1 DEF Goto, TypeOK
    <3>2. FileFits(c)'
      BY <3>1 DEF FileFits
    <3> QED
      BY <1>1, <3>1, <3>2, FileLeftAlone
  <2>2. CASE cmd[c].op # "add"
    <3>1. pc'[c] = "truncate"
      BY <1>1, <1>3, <2>2 DEF Goto, TypeOK
    <3>2. file.state \in {"absent", "object"} /\ OneNameChanged(copy'[c])
      <4>1. CASE cmd[c].op = "set"
        <5>1. copy'[c] = copy[c]
          BY <1>1, <1>3, <4>1 DEF TypeOK
        <5> QED
          BY <1>1, <4>1, <5>1 DEF FileFits
      <4>2. CASE cmd[c].op = "login"
        <5>1. copy'[c] = With(copy[c], cmd[c].name, p) /\ p \in Profile
          BY <1>1, <1>3, <4>2 DEF TypeOK, Tried
        <5>2. cmd[c].name \in Name
          BY <1>1 DEF CommandLine
        <5> QED
          BY <1>1, <4>2, <5>1, <5>2 DEF FileFits, OneNameChanged
      <4> QED
        BY <1>1, <2>2, <4>1, <4>2
    <3>3. FileFits(c)'
      BY <1>1, <3>1, <3>2 DEF FileFits, OneNameChanged
    <3> QED
      BY <1>1, <3>1, <3>3, FileLeftAlone
  <2> QED
    BY <2>1, <2>2
<1> QED
  BY <1>2, <1>3 DEF Verify

LEMMA WriteSerial ==
  ASSUME MaxActive = 1, SerialInv, NEW c \in Command, Truncate(c) \/ Write(c) \/ Crash(c)
  PROVE  SerialInv' /\ TableStep
<1>1. Step(c) /\ TypeOK /\ FileFits(c) /\ UNCHANGED <<cmd, copy>>
  BY DEF Truncate, Write, Crash, Step, SerialInv, Inv
<1>2. CASE Truncate(c)
  <2>1. /\ pc[c] = "truncate" /\ pc'[c] = "write" /\ UNCHANGED whole
        /\ file.state \in {"absent", "object"} /\ OneNameChanged(copy[c])
        /\ file' = [state |-> "broken", hosts |-> None]
    BY <1>1, <1>2 DEF Truncate, Goto, TypeOK, FileFits
  <2>2. FileFits(c)'
    BY <1>1, <2>1 DEF FileFits, OneNameChanged
  <2>3. SerialInv'
    BY <1>1, <2>1, <2>2, SerialStep
  <2>4. ~Damaged /\ ~Damaged'
    BY <1>1, <2>1, WritingIsOwn DEF Damaged
  <2> QED
    BY <2>1, <2>3, <2>4 DEF TableStep
<1>3. CASE Write(c)
  <2>1. /\ pc[c] = "write" /\ pc'[c] = "saved"
        /\ file.state = "broken" /\ OneNameChanged(copy[c])
        /\ file' = [state |-> "object", hosts |-> copy[c]] /\ whole' = copy[c]
    BY <1>1, <1>3 DEF Write, Goto, TypeOK, FileFits
  <2>2. FileFits(c)'
    BY <2>1 DEF FileFits
  <2>3. SerialInv'
    BY <1>1, <2>1, <2>2, SerialStep
  <2>4. ~Damaged /\ ~Damaged'
    BY <1>1, <2>1, WritingIsOwn DEF Damaged
  <2> QED
    BY <2>1, <2>3, <2>4 DEF TableStep
<1>4. CASE Crash(c)
  <2>1. pc'[c] = "crashed" /\ UNCHANGED <<file, whole>>
    BY <1>1, <1>4 DEF Crash, Goto, TypeOK
  <2>2. FileFits(c)'
    BY <2>1 DEF FileFits
  <2>3. CASE pc[c] = "write"
    <3>1. SerialInv'
      BY <1>1, <2>1, <2>2, SerialStep DEF SerialInv
    <3>2. ~Damaged /\ Damaged'
      BY <1>1, <2>1, <2>3, WritingIsOwn DEF Damaged, FileFits
    <3> QED
      BY <2>1, <3>1, <3>2 DEF TableStep
  <2>4. CASE pc[c] # "write"
    BY <1>1, <2>1, <2>2, <2>4, FileLeftAlone
  <2> QED
    BY <2>3, <2>4
<1> QED
  BY <1>2, <1>3, <1>4

LEMMA StartSerial ==
  ASSUME MaxActive = 1, SerialInv, NEW c \in Command, Start(c) \/ Credentials(c)
  PROVE  SerialInv' /\ TableStep
<1>1. /\ Step(c) /\ TypeOK /\ pc[c] \in {"idle", "creds"} /\ UNCHANGED <<file, whole>>
  BY DEF Start, Credentials, Step, SerialInv, Inv
<1>2. /\ pc'[c] \in {"creds", "read", "refused", "verify", "fatal"}
      /\ pc'[c] = "verify" => cmd'[c].op = "add"
  <2>1. CASE Start(c)
    <3>1. PICK line \in CommandLine :
            /\ cmd' = [cmd EXCEPT ![c] = line]
            /\ Goto(c, CASE line.op \in {"remove", "list", "show"} -> "creds"
                         [] line.op \in {"set", "login"} -> "read"
                         [] line.op = "add" /\ Unset \in {line.url, line.key} -> "refused"
                         [] OTHER -> "verify")
      BY <2>1 DEF Start
    <3>2. line.op \in {"add", "set", "remove", "login", "list", "show"} /\ cmd'[c] = line
      BY <1>1, <3>1 DEF CommandLine, TypeOK
    <3> QED
      BY <1>1, <3>1, <3>2 DEF Goto, TypeOK
  <2>2. CASE Credentials(c)
    BY <1>1, <2>2 DEF Credentials, Goto, TypeOK
  <2> QED
    BY <2>1, <2>2
<1>3. FileFits(c)'
  BY <1>2 DEF FileFits
<1> QED
  BY <1>1, <1>2, <1>3, FileLeftAlone

LEMMA NextSerial ==
  ASSUME MaxActive = 1, SerialInv, [Next]_vars
  PROVE  SerialInv' /\ TableStep
<1>1. ASSUME NEW c \in Command, Step(c) PROVE SerialInv' /\ TableStep
  BY <1>1, StartSerial, ReadSerial, VerifySerial, WriteSerial DEF Step
<1>2. CASE UNCHANGED vars
  <2>1. SerialInv'
    <3>1. Inv'
      BY <1>2, StepInv DEF SerialInv
    <3>2. ASSUME NEW c \in Command PROVE FileFits(c)'
      <4>1. FileFits(c)
        BY DEF SerialInv
      <4>2. /\ file' = file /\ pc'[c] = pc[c] /\ cmd'[c] = cmd[c]
            /\ copy'[c] = copy[c] /\ whole' = whole
        BY <1>2 DEF vars
      <4> QED
        BY <4>1, <4>2 DEF FileFits, OneNameChanged
    <3>3. Active' = Active
      BY <1>2 DEF vars, Active
    <3> QED
      BY <1>2, <3>1, <3>2, <3>3 DEF vars, SerialInv
  <2>2. TableStep
    BY <1>2 DEF vars, TableStep, Damaged, Writing
  <2> QED
    BY <2>1, <2>2
<1> QED
  BY <1>1, <1>2 DEF Next

LEMMA InitSerial ==
  ASSUME Init, file.state # "unreadable"
  PROVE  SerialInv
<1>1. Inv
  BY InitInv
<1>2. Active = {}
  BY DEF Init, Active
<1> QED
  BY <1>1, <1>2 DEF Init, SerialInv, FileFits

\* Config commands that run one after the other keep the promise of HostTable:
\* each changes the one name it was given, or nothing, and a file that a crash
\* has left half written, or that is the json null, is never replaced
\* (addHost, setConfig, loginToHost and removeConfig in cmd/config.go).
THEOREM ClientsImplementHostTable == MaxActive = 1 /\ PartsSpec => ImplementsHostTable
<1> SUFFICES ASSUME MaxActive = 1 PROVE PartsSpec => ImplementsHostTable
  OBVIOUS
<1> DEFINE SI == part = "serial" => SerialInv
<1>1. PartsInit => SI /\ Table!Init
  <2> SUFFICES ASSUME PartsInit PROVE SI /\ Table!Init
    OBVIOUS
  <2>1. SI
    BY InitSerial DEF PartsInit
  <2>2. None \in [{} -> Profile] /\ {} \in SUBSET Name
    BY DEF None
  <2>3. part = "serial" => whole \in Hosts
    BY <2>1 DEF SerialInv, Inv, TypeOK
  <2> QED
    BY <2>1, <2>2, <2>3 DEF Table!Init, Hosts
<1>2. SI /\ [PartsNext]_allvars => SI' /\ [Table!Next]_Table!vars
  <2> SUFFICES ASSUME SI, [PartsNext]_allvars PROVE SI' /\ [Table!Next]_Table!vars
    OBVIOUS
  <2>1. part' = part
    BY DEF PartsNext, InPart, allvars
  <2>2. CASE part = "serial"
    <3>1. [Next]_vars
      BY <2>2 DEF PartsNext, InPart, allvars
    <3>2. SerialInv' /\ TableStep
      BY <2>2, <3>1, NextSerial
    <3>3. CASE UNCHANGED whole /\ (Damaged' <=> Damaged)
      BY <2>1, <2>2, <3>2, <3>3 DEF Table!vars, Damaged
    <3>4. CASE UNCHANGED whole /\ ~Damaged /\ Damaged'
      BY <2>1, <2>2, <3>2, <3>4 DEF Table!Next, Table!Damage, Damaged
    <3>5. CASE ~Damaged /\ ~Damaged' /\ OneNameChanged(whole')
      <4>1. PICK n \in Name : \/ whole' = [k \in DOMAIN whole \ {n} |-> whole[k]]
                              \/ \E p \in Profile : whole' = With(whole, n, p)
        BY <3>5 DEF OneNameChanged
      <4>2. CASE whole' = [k \in DOMAIN whole \ {n} |-> whole[k]]
        <5>1. Table!Remove(n)
          BY <2>1, <2>2, <3>5, <4>2 DEF Table!Remove, Damaged
        <5> QED
          BY <2>1, <2>2, <3>2, <5>1 DEF Table!Next
      <4>3. ASSUME NEW p \in Profile, whole' = With(whole, n, p)
            PROVE  SI' /\ [Table!Next]_Table!vars
        <5>1. Table!Store(n, p)
          BY <2>1, <2>2, <3>5, <4>3 DEF Table!Store, Damaged, With
        <5> QED
          BY <2>1, <2>2, <3>2, <5>1 DEF Table!Next
      <4> QED
        BY <4>1, <4>2, <4>3
    <3> QED
      BY <2>1, <2>2, <3>2, <3>3, <3>4, <3>5 DEF TableStep
  <2>3. CASE part # "serial"
    BY <2>1, <2>3 DEF Table!vars
  <2> QED
    BY <2>2, <2>3
<1> QED
  BY <1>1, <1>2, PTL DEF PartsSpec, ImplementsHostTable, Table!Spec
==============================================================================
