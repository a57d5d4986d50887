---------------------------- MODULE IscsiCommands ----------------------------
(***************************************************************************)
(* The iSCSI commands: each model has the state of the machine or the host *)
(* its command works on, so a behaviour is one of a single part.           *)
(*   "delete"    deactivate and delete                                     *)
(*   "activate"  locate, activate and create-and-activate                  *)
(*   "several"   commands that create shares at the same time              *)
(*   "single"    commands that do so one after the other                   *)
(***************************************************************************)
EXTENDS IscsiDelete

CONSTANTS
  Target, Elsewhere, Receptions,   (* of IscsiActivate                      *)
  User, None, CanFail,             (* of IscsiCreate                        *)
  Several, Singles,                (* The volumes each command is given.    *)
  MaxActive                        (* Bound: commands at the same time.     *)

VARIABLES part, minimal, hasDir, shares, missing, outer, inner, queue, prints, seen, steady,
          has, assoc, portals, initiators, late, stage, known, made, lost

A == INSTANCE IscsiActivate WITH MaxTries <- Receptions
C == INSTANCE IscsiCreate WITH Args <- Several
S == INSTANCE IscsiCreate WITH Args <- Singles, MaxActive <- 1

ASSUME IscsiCommandsAssumption ==
  A!IscsiActivateAssumption /\ C!IscsiCreateAssumption /\ S!IscsiCreateAssumption

machine == <<host, session, disk, event, mode, pc, todo, helper, scans, tries>>
deletion == <<found, results, answer, targets>>
activation == <<minimal, hasDir, shares, missing, outer, inner, queue, prints, seen, steady>>
creation == <<has, assoc, portals, initiators, late, stage, known, made, lost>>
allvars == <<part, machine, deletion, activation, creation>>

\* What the other parts' variables are in a part that has no use for them.
NoMachine ==
  /\ host = {} /\ session = {} /\ disk = {} /\ event = FALSE /\ mode = "none" /\ pc = "none"
  /\ todo = {} /\ helper = "off" /\ scans = 0 /\ tries = 0
NoDeletion ==
  /\ found = {} /\ results = {} /\ answer = FALSE /\ targets = {}
NoActivation ==
  /\ minimal = FALSE /\ hasDir = FALSE /\ shares = {} /\ missing = {} /\ outer = {} /\ inner = {}
  /\ queue = {} /\ prints = {} /\ seen = {} /\ steady = {}
NoCreation ==
  /\ has = {} /\ assoc = {} /\ portals = 0 /\ initiators = 0 /\ late = {} /\ stage = {}
  /\ known = {} /\ made = {} /\ lost = {}

PartsInit ==
  \/ part = "delete" /\ Init /\ NoActivation /\ NoCreation
  \/ part = "activate" /\ A!Init /\ NoDeletion /\ NoCreation
  \/ part = "several" /\ C!Init /\ NoMachine /\ NoDeletion /\ NoActivation
  \/ part = "single" /\ S!Init /\ NoMachine /\ NoDeletion /\ NoActivation

PartsNext ==
  \/ part = "delete" /\ Next /\ UNCHANGED <<part, activation, creation>>
  \/ part = "activate" /\ A!Next /\ UNCHANGED <<part, deletion, creation>>
  \/ part = "several" /\ C!Next /\ UNCHANGED <<part, machine, deletion, activation>>
  \/ part = "single" /\ S!Next /\ UNCHANGED <<part, machine, deletion, activation>>

PartsSpec == PartsInit /\ [][PartsNext]_allvars

\* When an activating command ends without an error, every share it was to log
\* in to has one line of output besides that of its creation, whichever
\* goroutine saw its device first, those given up on have none with
\* --parsable, no other share has a line, and what is reported active has had
\* its device.
ReportedOnce == part = "activate" => A!ReportedOnce


\* A creating command that fails has taken back every target and extent it
\* has made, but of a kind for which a call of its had no usable answer.
FailureLeavesNothing == part = "several" => C!FailureLeavesNothing

\* A command for one volume that runs alone and ends without an error has
\* shared it, whatever part of the share there was before, unless an earlier
\* command does not know that it has taken the share back.
SingleCreateIsWhole == part = "single" => S!SingleCreateIsWhole
==============================================================================
