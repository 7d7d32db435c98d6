--------------------------- MODULE MCRunnerProofs ---------------------------
(***************************************************************************)
(* Proofs about the parts of MCRunner together, for every value of the     *)
(* bounds.  The parts do not touch each other, so that a behaviour of the  *)
(* whole is one of each part: what is proved of the turns in a module of   *)
(* their own holds of it.  The session manager, the tunnel and the         *)
(* installed service are proved here.                                      *)
(*                                                                         *)
(* SessionsAgree is not inductive: its first half, that a process which    *)
(* runs is the one in the map, does not say why a command that has waited  *)
(* may put its object there, or take out the one that is there.            *)
(* ManagerOneAtATime says that the commands of a session that is not       *)
(* contested do not meet, and Holds what each of them finds in the map     *)
(* when it goes on.                                                        *)
(*                                                                         *)
(* EndsAgree is not inductive.  TunnelInv adds that hello comes first on a *)
(* connection and attaches it once, that the runner takes one connection   *)
(* for open, and that OPEN is the first frame about a stream that the      *)
(* runner does not know (OpenFirst); EndsTold and EndsSent are EndsAgree,  *)
(* one side each.                                                          *)
(***************************************************************************)
EXTENDS MCRunner, SequenceTheorems, FiniteSetTheorems, TLAPS

TurnProofs == INSTANCE CodexTurnsProofs

-----------------------------------------------------------------------------
(* A behaviour of the whole is one of each part.                           *)

LEMMA Bounds == TurnProofs!Bounded
BY MCRunnerAssumption DEF TurnProofs!Bounded, TurnProofs!BuildKinds

LEMMA TurnsRun == Spec => TurnProofs!Spec
<1>1. Init => TurnProofs!Init
  BY DEF Init,
    Turns!Init, TurnProofs!Init, Turns!None, TurnProofs!None, Turns!Turn,
    TurnProofs!Turn
<1>2. UNCHANGED turnsVars => UNCHANGED TurnProofs!vars
  BY DEF turnsVars, TurnProofs!vars, TurnProofs!pastVars, TurnProofs!turnVars,
         TurnProofs!codexVars
<1>3. Turns!Next => TurnProofs!Next
  BY Zenon DEF
    Turns!Next, TurnProofs!Next, Turns!ForceComplete, TurnProofs!ForceComplete,
    Turns!pastVars, TurnProofs!pastVars, Turns!codexVars, TurnProofs!codexVars,
    Turns!Event, TurnProofs!Event, Turns!EmitAfterFlush, TurnProofs!EmitAfterFlush,
    Turns!None, TurnProofs!None, Turns!turnVars, TurnProofs!turnVars, Turns!Replaying,
    TurnProofs!Replaying, Turns!Turn, TurnProofs!Turn, Turns!Cancel, TurnProofs!Cancel,
    Turns!FlushOutput, TurnProofs!FlushOutput, Turns!Replay, TurnProofs!Replay,
    Turns!Process, TurnProofs!Process, Turns!TurnCompleted, TurnProofs!TurnCompleted,
    Turns!TurnStarted, TurnProofs!TurnStarted, Turns!HoldTimer, TurnProofs!HoldTimer,
    Turns!ReadAnswer, TurnProofs!ReadAnswer, Turns!ReadLine, TurnProofs!ReadLine,
    Turns!ReadDirect, TurnProofs!ReadDirect, Turns!ReadWrapped, TurnProofs!ReadWrapped,
    Turns!CodexExits, TurnProofs!CodexExits, Turns!Request, TurnProofs!Request,
    Turns!CodexInterrupts, TurnProofs!CodexInterrupts, Turns!Written,
    TurnProofs!Written, Turns!CodexCompletes, TurnProofs!CodexCompletes,
    Turns!CodexWrites, TurnProofs!CodexWrites, Turns!CodexStarts, TurnProofs!CodexStarts
<1>4. [Next]_vars => [TurnProofs!Next]_TurnProofs!vars
  BY <1>2, <1>3 DEF Next, vars
<1> QED
  BY <1>1, <1>4, PTL DEF Spec, TurnProofs!Spec

LEMMA ManagerRuns == Spec => Manager!Init /\ [][Manager!Next]_Manager!vars
<1>1. Init => Manager!Init
  BY DEF Init
<1>2. [Next]_vars => [Manager!Next]_Manager!vars
  BY DEF Next, vars, managerVars, Manager!vars
<1> QED
  BY <1>1, <1>2, PTL DEF Spec

LEMMA TunnelsRun == Spec => Tunnels!Init /\ [][Tunnels!Next]_Tunnels!vars
<1>1. Init => Tunnels!Init
  BY DEF Init
<1>2. [Next]_vars => [Tunnels!Next]_Tunnels!vars
  BY DEF Next, vars, tunnelVars, Tunnels!vars
<1> QED
  BY <1>1, <1>2, PTL DEF Spec

LEMMA ServiceRuns == Spec => Service!Init /\ [][Service!Next]_Service!vars
<1>1. Init => Service!Init
  BY DEF Init
<1>2. [Next]_vars => [Service!Next]_Service!vars
  BY DEF Next, vars, serviceVars, Service!vars
<1> QED
  BY <1>1, <1>2, PTL DEF Spec

-----------------------------------------------------------------------------
(* The session manager.                                                    *)

\* The bounds are numbers, and there is a session.
ManagerBounded == MaxCommands \in Nat /\ MaxOptions \in Nat /\ Sessions # {}

CommandRecord ==
    [kind : {"none", "start", "send", "stop", "cleanup", "cancel"}, session : Sessions,
     at : Manager!Waiting \cup Manager!Settled \cup {"none", "hung"},
     object : Manager!Command \cup {Manager!None}, version : 0..MaxOptions]
ObjectRecord ==
    [process : {"none", "runs", "ended"}, thread : BOOLEAN, version : 0..MaxOptions,
     killed : BOOLEAN, failed : BOOLEAN]

\* A command that has not come, or has not made its object, has left no trace.
Fresh ==
    \A c \in Manager!Command :
        /\ managerCommands[c].kind = "none" <=> managerCommands[c].at = "none"
        /\ managerCommands[c].at \in {"none", "check"} =>
             /\ objects[c].process = "none" /\ ~objects[c].killed /\ ~objects[c].failed
             /\ \A s \in Sessions : sessions[s] # c
             /\ \A d \in Manager!Command : managerCommands[d].object # c

\* The object of a command: its own while it opens the session, else one that an
\* earlier command of the session has made.
ObjectKnown ==
    \A c \in Manager!Command :
        /\ managerCommands[c].at = "interrupt" =>
            managerCommands[c].kind \in {"stop", "cleanup", "cancel"}
        /\ managerCommands[c].at = "check" => managerCommands[c].object = Manager!None
        /\ managerCommands[c].at \in {"begin", "opening"} => managerCommands[c].object = c
        /\ managerCommands[c].at \in {"check", "begin"} => objects[c].process = "none"
        /\ managerCommands[c].at \in {"next", "turn", "interrupt"} =>
            managerCommands[c].object # Manager!None
        /\ managerCommands[c].at \in {"next", "interrupt"} => managerCommands[c].object # c
        /\ managerCommands[c].at = "turn" => objects[managerCommands[c].object].thread
        /\ managerCommands[c].object # Manager!None =>
             managerCommands[managerCommands[c].object].session = managerCommands[c].session

\* What is in the map of a session was made by a command of it.
MapOwned ==
    \A s \in Sessions : sessions[s] # Manager!None => managerCommands[sessions[s]].session = s

\* Where no commands met, none meets another.
ManagerOneAtATime ==
    \A c, d \in Manager!Command :
        managerCommands[c].session = managerCommands[d].session
            /\ managerCommands[c].session \notin contested
        /\ Manager!Opens(c) /\ c # d => ~Manager!Opens(d) /\ ~Manager!Closes(d)

\* What a command finds in the map when it goes on.
Holds ==
    \A c \in Manager!Command : managerCommands[c].session \notin contested =>
        /\ managerCommands[c].at = "check" => sessions[managerCommands[c].session] = Manager!None
        /\ Manager!Opens(c) /\ managerCommands[c].at # "check" =>
            sessions[managerCommands[c].session] = c
        /\ Manager!Closes(c) =>
            sessions[managerCommands[c].session] \in {Manager!None, managerCommands[c].object}

\* The two halves of ProcessInMap, for one object and one session each.
RunsInMap ==
    \A o \in Manager!Command :
        managerCommands[o].session \notin contested /\ objects[o].process = "runs" =>
            objects[o].killed \/ objects[o].failed \/ sessions[managerCommands[o].session] = o
MapRuns ==
    \A s \in Sessions \ contested : \A o \in Manager!Command : sessions[s] = o =>
        /\ ~objects[o].killed /\ ~objects[o].failed
        /\ Manager!Opens(o) \/ objects[o].thread \/ managerCommands[o].at = "hung"

SessionsInv ==
    /\ Manager!TypeOK /\ Fresh /\ ObjectKnown /\ MapOwned /\ ManagerOneAtATime /\ Holds
    /\ RunsInMap /\ MapRuns /\ Manager!RunningRuns

LEMMA NoneIsNoCommand ==
    ASSUME ManagerBounded
    PROVE  \A c \in Manager!Command : c # Manager!None
BY DEF ManagerBounded, Manager!Command, Manager!None

LEMMA Halves ==
    ASSUME Manager!TypeOK, MapOwned, RunsInMap, MapRuns
    PROVE  Manager!ProcessInMap
<1> SUFFICES ASSUME NEW s \in Sessions \ contested
             PROVE  /\ \A o \in Manager!Command :
                         managerCommands[o].session = s /\ objects[o].process = "runs" =>
                           objects[o].killed \/ objects[o].failed \/ sessions[s] = o
                    /\ sessions[s] # Manager!None =>
                         /\ managerCommands[sessions[s]].session = s
                         /\ ~objects[sessions[s]].killed /\ ~objects[sessions[s]].failed
                         /\ Manager!Opens(sessions[s]) \/ objects[sessions[s]].thread
                            \/ managerCommands[sessions[s]].at = "hung"
  BY DEF Manager!ProcessInMap
<1>1. sessions[s] \in Manager!Command \cup {Manager!None}
  BY DEF Manager!TypeOK
<1> QED
  BY <1>1 DEF MapOwned, RunsInMap, MapRuns

\* Commands stay what they are.
Stay ==
    \A d \in Manager!Command :
        /\ managerCommands'[d].kind = managerCommands[d].kind
        /\ managerCommands'[d].session = managerCommands[d].session
        /\ managerCommands'[d].at = "none" <=> managerCommands[d].at = "none"

LEMMA FreshKept ==
    ASSUME ManagerBounded, Fresh, Stay,
           \A d \in Manager!Command : managerCommands'[d].at \in {"none", "check"} =>
             /\ managerCommands[d].at \in {"none", "check"}
             /\ objects'[d].process = objects[d].process
             /\ objects'[d].killed = objects[d].killed /\ objects'[d].failed = objects[d].failed,
           \A s \in Sessions : \/ sessions'[s] = Manager!None \/ sessions'[s] = sessions[s]
                               \/ managerCommands'[sessions'[s]].at \notin {"none", "check"},
           \A d \in Manager!Command :
             \/ managerCommands'[d].object = Manager!None
             \/ managerCommands'[d].object = managerCommands[d].object
             \/ managerCommands'[managerCommands'[d].object].at \notin {"none", "check"}
    PROVE  Fresh'
<1>0. \A d \in Manager!Command : managerCommands'[d].kind = "none" <=>
        managerCommands'[d].at = "none"
  BY DEF Fresh, Stay
<1> SUFFICES ASSUME NEW c \in Manager!Command, managerCommands'[c].at \in {"none", "check"}
             PROVE  /\ objects'[c].process = "none" /\ ~objects'[c].killed /\ ~objects'[c].failed
                    /\ \A s \in Sessions : sessions'[s] # c
                    /\ \A d \in Manager!Command : managerCommands'[d].object # c
  BY <1>0 DEF Fresh
<1>1. /\ objects[c].process = "none" /\ ~objects[c].killed /\ ~objects[c].failed
      /\ \A s \in Sessions : sessions[s] # c
      /\ \A d \in Manager!Command : managerCommands[d].object # c
  BY DEF Fresh
<1>2. objects'[c].process = "none" /\ ~objects'[c].killed /\ ~objects'[c].failed
  BY <1>1
<1>3. ASSUME NEW s \in Sessions PROVE sessions'[s] # c
  BY <1>1, NoneIsNoCommand
<1>4. ASSUME NEW d \in Manager!Command PROVE managerCommands'[d].object # c
  BY <1>1, NoneIsNoCommand
<1> QED
  BY <1>2, <1>3, <1>4

LEMMA OwnedKept ==
    ASSUME Manager!TypeOK, MapOwned, Stay,
           \A s \in Sessions : \/ sessions'[s] = Manager!None \/ sessions'[s] = sessions[s]
                               \/ sessions'[s] \in Manager!Command
                                   /\ managerCommands[sessions'[s]].session = s
    PROVE  MapOwned'
<1> SUFFICES ASSUME NEW s \in Sessions, sessions'[s] # Manager!None
             PROVE  managerCommands'[sessions'[s]].session = s
  BY DEF MapOwned
<1>1. sessions'[s] \in Manager!Command /\ managerCommands[sessions'[s]].session = s
  BY DEF Manager!TypeOK, MapOwned
<1> QED
  BY <1>1 DEF Stay

LEMMA OneKept ==
    ASSUME ManagerOneAtATime, Stay, contested' = contested,
           \A d \in Manager!Command : (Manager!Opens(d)' => Manager!Opens(d))
               /\ (Manager!Closes(d)' => Manager!Closes(d))
    PROVE  ManagerOneAtATime'
BY DEF ManagerOneAtATime, Stay

LEMMA HoldsKept ==
    ASSUME Holds, Stay, contested' = contested,
           \A d \in Manager!Command : managerCommands'[d].at = "check" =>
               managerCommands[d].at = "check",
           \A d \in Manager!Command : Manager!Opens(d)' /\ managerCommands'[d].at # "check" =>
                                Manager!Opens(d) /\ managerCommands[d].at # "check",
           \A d \in Manager!Command : Manager!Closes(d)' => Manager!Closes(d)
               /\ managerCommands'[d].object = managerCommands[d].object,
           \A d \in Manager!Command : LET s == managerCommands[d].session IN
             s \notin contested => \/ sessions'[s] = sessions[s]
                                   \/ sessions'[s] = Manager!None
                                       /\ (Manager!Opens(d)' => managerCommands'[d].at = "check")
    PROVE  Holds'
<1> SUFFICES ASSUME NEW d \in Manager!Command, managerCommands'[d].session \notin contested'
             PROVE  /\ managerCommands'[d].at = "check" =>
                        sessions'[managerCommands'[d].session] = Manager!None
                    /\ Manager!Opens(d)' /\ managerCommands'[d].at # "check" =>
                        sessions'[managerCommands'[d].session] = d
                    /\ Manager!Closes(d)' =>
                        sessions'[managerCommands'[d].session] \in {Manager!None,
                            managerCommands'[d].object}
  BY DEF Holds
<1>1. /\ managerCommands'[d].session = managerCommands[d].session
      /\ managerCommands[d].session \notin contested
  BY DEF Stay
<1> QED
  BY <1>1 DEF Holds

LEMMA RunsKept ==
    ASSUME RunsInMap, Stay, contested' = contested,
           \A o \in Manager!Command : objects'[o].process = "runs" =>
             \/ objects[o].process = "runs"
             \/ managerCommands[o].session \in contested
                 \/ sessions'[managerCommands[o].session] = o,
           \A o \in Manager!Command : (objects[o].killed => objects'[o].killed)
                              /\ (objects[o].failed => objects'[o].failed),
           \A o \in Manager!Command :
             managerCommands[o].session \notin contested
                 /\ sessions[managerCommands[o].session] = o
             /\ objects[o].process = "runs" =>
               sessions'[managerCommands[o].session] = o \/ objects'[o].killed
                   \/ objects'[o].failed
    PROVE  RunsInMap'
BY DEF RunsInMap, Stay

LEMMA MapKept ==
    ASSUME ManagerBounded, MapRuns, contested' = contested,
           \A s \in Sessions \ contested : \A o \in Manager!Command : sessions'[s] = o =>
               sessions[s] = o,
           \A s \in Sessions \ contested : \A o \in Manager!Command :
             sessions'[s] = o /\ sessions[s] = o =>
               /\ objects'[o].killed = objects[o].killed /\ objects'[o].failed = objects[o].failed
               /\ objects[o].thread => objects'[o].thread
               /\ managerCommands[o].at = "hung" => managerCommands'[o].at = "hung"
               /\ Manager!Opens(o) => Manager!Opens(o)' \/ objects'[o].thread
                   \/ managerCommands'[o].at = "hung"
    PROVE  MapRuns'
<1> SUFFICES ASSUME NEW s \in Sessions \ contested, NEW o \in Manager!Command, sessions'[s] = o
             PROVE  /\ ~objects'[o].killed /\ ~objects'[o].failed
                    /\ Manager!Opens(o)' \/ objects'[o].thread \/ managerCommands'[o].at = "hung"
  BY DEF MapRuns
<1>1. sessions[s] = o
  OBVIOUS
<1>2. /\ ~objects[o].killed /\ ~objects[o].failed
      /\ Manager!Opens(o) \/ objects[o].thread \/ managerCommands[o].at = "hung"
  BY <1>1 DEF MapRuns
<1> QED
  BY <1>1, <1>2

LEMMA RunningKept ==
    ASSUME Manager!RunningRuns, Stay,
           \A s \in Sessions : status'[s] = "running" =>
             \/ /\ status[s] = "running"
                /\ \A o \in Manager!Command : managerCommands[o].session = s
                    /\ objects[o].process = "runs" =>
                     objects'[o].process = "runs"
             \/ \E o \in Manager!Command : managerCommands[o].session = s
                 /\ objects'[o].process = "runs"
    PROVE  Manager!RunningRuns'
<1> SUFFICES ASSUME NEW s \in Sessions, status'[s] = "running"
             PROVE  \E o \in Manager!Command : managerCommands'[o].session = s
                      /\ objects'[o].process = "runs"
  BY DEF Manager!RunningRuns
<1>1. PICK o \in Manager!Command : managerCommands[o].session = s /\ objects'[o].process = "runs"
  BY DEF Manager!RunningRuns
<1> QED
  BY <1>1 DEF Stay

LEMMA ObjectsKept ==
    ASSUME ManagerBounded, ObjectKnown, Stay,
           \A d \in Manager!Command :
               managerCommands[d].object \in Manager!Command \cup {Manager!None},
           \A d \in Manager!Command : managerCommands'[d].object = managerCommands[d].object,
           \A o \in Manager!Command : objects[o].thread => objects'[o].thread,
           \A d \in Manager!Command :
             \/ managerCommands'[d].at \notin Manager!Waiting
             \/ /\ managerCommands'[d].at = managerCommands[d].at
                /\ managerCommands[d].at \in {"check", "begin"} =>
                    objects'[d].process = objects[d].process
             \/ managerCommands'[d].at = "opening" /\ managerCommands[d].object = d
             \/ /\ managerCommands'[d].at = "turn" /\ managerCommands[d].object # Manager!None
                /\ objects'[managerCommands[d].object].thread
    PROVE  ObjectKnown'
<1> SUFFICES ASSUME NEW c \in Manager!Command
      PROVE  /\ managerCommands'[c].at = "interrupt" =>
                 managerCommands'[c].kind \in {"stop", "cleanup", "cancel"}
             /\ managerCommands'[c].at = "check" => managerCommands'[c].object = Manager!None
             /\ managerCommands'[c].at \in {"begin", "opening"} => managerCommands'[c].object = c
             /\ managerCommands'[c].at \in {"check", "begin"} => objects'[c].process = "none"
             /\ managerCommands'[c].at \in {"next", "turn", "interrupt"} =>
                 managerCommands'[c].object # Manager!None
             /\ managerCommands'[c].at \in {"next", "interrupt"} => managerCommands'[c].object # c
             /\ managerCommands'[c].at = "turn" => objects'[managerCommands'[c].object].thread
             /\ managerCommands'[c].object # Manager!None =>
                  managerCommands'[managerCommands'[c].object].session =
                      managerCommands'[c].session
  BY DEF ObjectKnown
<1>1. /\ managerCommands[c].at = "interrupt" =>
          managerCommands[c].kind \in {"stop", "cleanup", "cancel"}
      /\ managerCommands[c].at = "check" => managerCommands[c].object = Manager!None
      /\ managerCommands[c].at \in {"begin", "opening"} => managerCommands[c].object = c
      /\ managerCommands[c].at \in {"check", "begin"} => objects[c].process = "none"
      /\ managerCommands[c].at \in {"next", "turn", "interrupt"} =>
          managerCommands[c].object # Manager!None
      /\ managerCommands[c].at \in {"next", "interrupt"} => managerCommands[c].object # c
      /\ managerCommands[c].at = "turn" => objects[managerCommands[c].object].thread
      /\ managerCommands[c].object # Manager!None =>
           managerCommands[managerCommands[c].object].session = managerCommands[c].session
  BY DEF ObjectKnown
<1>2. /\ managerCommands'[c].object = managerCommands[c].object
      /\ managerCommands[c].object \in Manager!Command \cup {Manager!None}
  OBVIOUS
<1>3. managerCommands'[c].object # Manager!None =>
        managerCommands'[managerCommands'[c].object].session = managerCommands'[c].session
  BY <1>1, <1>2 DEF Stay
<1>4. managerCommands'[c].at \in Manager!Waiting =>
        \/ /\ managerCommands'[c].at = managerCommands[c].at
           /\ managerCommands[c].at \in {"check", "begin"} =>
               objects'[c].process = objects[c].process
        \/ managerCommands'[c].at = "opening" /\ managerCommands[c].object = c
        \/ /\ managerCommands'[c].at = "turn" /\ managerCommands[c].object # Manager!None
           /\ objects'[managerCommands[c].object].thread
  OBVIOUS
<1>5. objects[managerCommands[c].object].thread /\ managerCommands[c].object # Manager!None =>
        objects'[managerCommands[c].object].thread
  BY <1>2
<1> QED
  BY <1>1, <1>2, <1>3, <1>4, <1>5 DEF Stay, Manager!Waiting

(* The steps.                                                              *)

LEMMA Kinds ==
    ASSUME Manager!TypeOK
    PROVE  /\ \A d \in Manager!Command : managerCommands[d].session \in Sessions
                                 /\ managerCommands[d].object \in
                                     Manager!Command \cup {Manager!None}
           /\ \A s \in Sessions : sessions[s] \in Manager!Command \cup {Manager!None}
BY DEF Manager!TypeOK

LEMMA MovedFacts ==
    ASSUME Manager!TypeOK, NEW c \in Manager!Command, NEW at, Manager!Moved(c, at)
    PROVE  \A d \in Manager!Command :
             /\ managerCommands'[d].kind = managerCommands[d].kind
             /\ managerCommands'[d].session = managerCommands[d].session
             /\ managerCommands'[d].object = managerCommands[d].object
             /\ managerCommands'[d].at = IF d = c THEN at ELSE managerCommands[d].at
BY DEF Manager!TypeOK, Manager!Moved

LEMMA MovedType ==
    ASSUME Manager!TypeOK, NEW c \in Manager!Command,
             NEW at \in Manager!Waiting \cup Manager!Settled \cup {"none", "hung"},
                 Manager!Moved(c, at)
    PROVE  managerCommands' \in [Manager!Command -> CommandRecord]
BY DEF CommandRecord, ObjectRecord, Manager!TypeOK, Manager!Moved

\* A command goes on, or ends, without touching the map or the objects.
LEMMA MoveStep ==
    ASSUME ManagerBounded, SessionsInv, NEW c \in Manager!Command, NEW at, Manager!Moved(c, at),
           managerCommands[c].at \in {"check", "next", "turn", "interrupt"},
           at \in {"failed", "reported", "turn", "hung", "begun", "done"},
           at = "turn" => managerCommands[c].at = "next"
               /\ objects[managerCommands[c].object].thread,
           UNCHANGED <<sessions, objects, uploads, options, contested>>,
           status' \in [Sessions -> {"none", "starting", "running", "exited", "failed"}],
           \A s \in Sessions : status'[s] = "running" => status[s] = "running"
    PROVE  SessionsInv'
<1>1. /\ Manager!TypeOK /\ Fresh /\ ObjectKnown /\ MapOwned /\ ManagerOneAtATime /\ Holds
      /\ RunsInMap /\ MapRuns /\ Manager!RunningRuns
  BY DEF SessionsInv
<1>2. /\ \A d \in Manager!Command : managerCommands[d].session \in Sessions
                            /\ managerCommands[d].object \in Manager!Command \cup {Manager!None}
      /\ \A s \in Sessions : sessions[s] \in Manager!Command \cup {Manager!None}
  BY <1>1, Kinds
<1>3. \A d \in Manager!Command :
        /\ managerCommands'[d].kind = managerCommands[d].kind
        /\ managerCommands'[d].session = managerCommands[d].session
        /\ managerCommands'[d].object = managerCommands[d].object
        /\ managerCommands'[d].at = IF d = c THEN at ELSE managerCommands[d].at
  BY <1>1, MovedFacts
<1>4. Stay
  BY <1>3 DEF Stay
<1>5. Manager!TypeOK'
  BY <1>1, MovedType DEF CommandRecord, ObjectRecord, Manager!TypeOK, Manager!Waiting,
     Manager!Settled
<1>6. Fresh'
  BY <1>1, <1>2, <1>3, <1>4, FreshKept
<1>7. ObjectKnown'
  BY <1>1, <1>2, <1>3, <1>4, ObjectsKept DEF ObjectKnown, Manager!Waiting
<1>8. MapOwned'
  BY <1>1, <1>4, OwnedKept
<1>9. \A d \in Manager!Command : /\ Manager!Opens(d)' => Manager!Opens(d) /\ d # c
                                 /\ Manager!Closes(d)' => Manager!Closes(d)
                                 /\ d # c => (Manager!Opens(d) <=> Manager!Opens(d)')
  BY <1>1, <1>3 DEF Manager!Opens, Manager!Closes, ObjectKnown
<1>10. ManagerOneAtATime'
  BY <1>1, <1>4, <1>9, OneKept
<1>11. Holds'
  BY <1>1, <1>3, <1>4, <1>9, HoldsKept
<1>12. RunsInMap'
  BY <1>1, <1>4, RunsKept
<1>13. MapRuns'
  BY <1>1, NoneIsNoCommand, <1>3, <1>9, MapKept DEF Manager!Opens, ObjectKnown, Holds, MapOwned
<1>14. Manager!RunningRuns'
  BY <1>1, <1>4, RunningKept
<1> QED
  BY <1>5, <1>6, <1>7, <1>8, <1>10, <1>11, <1>12, <1>13, <1>14 DEF SessionsInv

LEMMA FailedFacts ==
    ASSUME Manager!TypeOK, NEW c \in Manager!Command,
             Manager!Failed(c, managerCommands[c].session)
    PROVE  /\ \A o \in Manager!Command :
                /\ objects'[o].process = objects[o].process
                /\ objects'[o].thread = objects[o].thread
                /\ objects'[o].killed = objects[o].killed
                /\ objects'[o].failed = IF o = c THEN TRUE ELSE objects[o].failed
           /\ \A s \in Sessions :
                /\ sessions'[s] = IF s = managerCommands[c].session THEN Manager!None
                    ELSE sessions[s]
                /\ status'[s] = IF s = managerCommands[c].session THEN "failed" ELSE status[s]
           /\ objects' \in [Manager!Command -> ObjectRecord]
           /\ sessions' \in [Sessions -> Manager!Command \cup {Manager!None}]
           /\ status' \in [Sessions -> {"none", "starting", "running", "exited", "failed"}]
BY DEF CommandRecord, ObjectRecord, Manager!TypeOK, Manager!Failed

\* The command that opens a session fails, and its object leaves the map.
LEMMA FailedStep ==
    ASSUME ManagerBounded, SessionsInv, NEW c \in Manager!Command,
             Manager!Failed(c, managerCommands[c].session),
           Manager!Opens(c), managerCommands[c].at # "check",
               UNCHANGED <<uploads, options, contested>>
    PROVE  SessionsInv'
<1>1. /\ Manager!TypeOK /\ Fresh /\ ObjectKnown /\ MapOwned /\ ManagerOneAtATime /\ Holds
      /\ RunsInMap /\ MapRuns /\ Manager!RunningRuns
  BY DEF SessionsInv
<1>2. /\ \A d \in Manager!Command : managerCommands[d].session \in Sessions
                            /\ managerCommands[d].object \in Manager!Command \cup {Manager!None}
      /\ \A s \in Sessions : sessions[s] \in Manager!Command \cup {Manager!None}
  BY <1>1, Kinds
<1>3. Manager!Moved(c, "failed") /\ managerCommands[c].at # "none"
  BY DEF Manager!Failed, Manager!Opens
<1>4. \A d \in Manager!Command :
        /\ managerCommands'[d].kind = managerCommands[d].kind
        /\ managerCommands'[d].session = managerCommands[d].session
        /\ managerCommands'[d].object = managerCommands[d].object
        /\ managerCommands'[d].at = IF d = c THEN "failed" ELSE managerCommands[d].at
  BY <1>1, <1>3, MovedFacts
<1>5. Stay
  BY <1>3, <1>4 DEF Stay
<1>6. /\ \A o \in Manager!Command :
           /\ objects'[o].process = objects[o].process /\ objects'[o].thread = objects[o].thread
           /\ objects'[o].killed = objects[o].killed
           /\ objects'[o].failed = IF o = c THEN TRUE ELSE objects[o].failed
      /\ \A s \in Sessions :
           /\ sessions'[s] = IF s = managerCommands[c].session THEN Manager!None ELSE sessions[s]
           /\ status'[s] = IF s = managerCommands[c].session THEN "failed" ELSE status[s]
  BY <1>1, FailedFacts
<1>7. Manager!TypeOK'
  BY <1>1, <1>3, MovedType, FailedFacts DEF Manager!Settled, CommandRecord, ObjectRecord,
     Manager!TypeOK
<1>8. Fresh'
  BY <1>6, <1>1, <1>4, <1>5, FreshKept
<1>9. ObjectKnown'
  BY <1>1, <1>2, <1>4, <1>5, <1>6, ObjectsKept DEF ObjectKnown, Manager!Waiting
<1>10. MapOwned'
  BY <1>1, <1>5, <1>6, OwnedKept
<1>11. \A d \in Manager!Command : /\ Manager!Opens(d)' => Manager!Opens(d) /\ d # c
                                  /\ Manager!Closes(d)' => Manager!Closes(d)
                                  /\ d # c => (Manager!Opens(d) <=> Manager!Opens(d)')
  BY <1>1, <1>4 DEF Manager!Opens, Manager!Closes
<1>12. ManagerOneAtATime'
  BY <1>1, <1>5, <1>11, OneKept
<1>13. Holds'
  <2>1. ASSUME NEW d \in Manager!Command, managerCommands[d].session \notin contested,
               sessions'[managerCommands[d].session] # sessions[managerCommands[d].session]
        PROVE  sessions'[managerCommands[d].session] = Manager!None /\ ~Manager!Opens(d)'
    BY <1>2, <1>6, <2>1, <1>1, <1>11 DEF ManagerOneAtATime
  <2> QED
    BY <1>1, <1>4, <1>5, <1>11, <2>1, HoldsKept
<1>14. RunsInMap'
  <2>1. \A o \in Manager!Command : managerCommands[o].session = managerCommands[c].session
          /\ managerCommands[o].session \notin contested
              /\ sessions[managerCommands[o].session] = o => o = c
    BY <1>1 DEF Holds
  <2> QED
    BY <1>1, <1>2, <1>5, <1>6, <2>1, RunsKept
<1>15. MapRuns'
  <2>1. ASSUME NEW s \in Sessions \ contested, NEW o \in Manager!Command, sessions'[s] = o
        PROVE  sessions[s] = o /\ o # c
    BY <1>6, <2>1, NoneIsNoCommand, <1>1 DEF MapOwned
  <2> QED
    BY <1>1, <1>4, <1>6, <1>11, <2>1, MapKept
<1>16. Manager!RunningRuns'
  BY <1>1, <1>5, <1>6, RunningKept
<1> QED
  BY <1>7, <1>8, <1>9, <1>10, <1>12, <1>13, <1>14, <1>15, <1>16 DEF SessionsInv

LEMMA CloseFacts ==
    ASSUME Manager!TypeOK, NEW o \in Manager!Command, NEW s \in Sessions, NEW kind,
             Manager!Close(kind, s, o)
    PROVE  /\ \A p \in Manager!Command :
                /\ objects'[p].process = objects[p].process
                /\ objects'[p].thread = objects[p].thread
                /\ objects'[p].failed = objects[p].failed
                /\ objects'[p].killed = IF p = o THEN TRUE ELSE objects[p].killed
           /\ \A t \in Sessions : sessions'[t] = IF t = s THEN Manager!None ELSE sessions[t]
           /\ objects' \in [Manager!Command -> ObjectRecord]
           /\ sessions' \in [Sessions -> Manager!Command \cup {Manager!None}]
           /\ uploads' \subseteq Sessions
BY DEF CommandRecord, ObjectRecord, Manager!TypeOK, Manager!Close

\* A command that stops a session has its answer.
LEMMA ClosedStep ==
    ASSUME ManagerBounded, SessionsInv, NEW c \in Manager!Command, Manager!Closes(c),
             Manager!Moved(c, "done"),
           Manager!Close(managerCommands[c].kind, managerCommands[c].session,
               managerCommands[c].object),
           UNCHANGED <<status, options, contested>>
    PROVE  SessionsInv'
<1>1. /\ Manager!TypeOK /\ Fresh /\ ObjectKnown /\ MapOwned /\ ManagerOneAtATime /\ Holds
      /\ RunsInMap /\ MapRuns /\ Manager!RunningRuns
  BY DEF SessionsInv
<1>2. /\ \A d \in Manager!Command : managerCommands[d].session \in Sessions
                            /\ managerCommands[d].object \in Manager!Command \cup {Manager!None}
      /\ \A s \in Sessions : sessions[s] \in Manager!Command \cup {Manager!None}
  BY <1>1, Kinds
<1> DEFINE t == managerCommands[c].session
           o == managerCommands[c].object
<1>3. t \in Sessions /\ o \in Manager!Command /\ managerCommands[c].at = "interrupt"
  BY <1>1, <1>2 DEF ObjectKnown, Manager!Closes
<1>4. \A d \in Manager!Command :
        /\ managerCommands'[d].kind = managerCommands[d].kind
        /\ managerCommands'[d].session = managerCommands[d].session
        /\ managerCommands'[d].object = managerCommands[d].object
        /\ managerCommands'[d].at = IF d = c THEN "done" ELSE managerCommands[d].at
  BY <1>1, MovedFacts
<1>5. Stay
  BY <1>3, <1>4 DEF Stay
<1>6. /\ \A p \in Manager!Command :
           /\ objects'[p].process = objects[p].process /\ objects'[p].thread = objects[p].thread
           /\ objects'[p].failed = objects[p].failed
           /\ objects'[p].killed = IF p = o THEN TRUE ELSE objects[p].killed
      /\ \A s \in Sessions : sessions'[s] = IF s = t THEN Manager!None ELSE sessions[s]
  BY <1>1, <1>3, CloseFacts
<1>7. Manager!TypeOK'
  BY <1>1, <1>3, MovedType, CloseFacts DEF Manager!Settled, CommandRecord, ObjectRecord,
     Manager!TypeOK
<1> HIDE DEF t, o
<1>8. Fresh'
  <2>1. \A s \in Sessions : sessions'[s] = Manager!None \/ sessions'[s] = sessions[s]
    BY <1>6
  <2>2. \A d \in Manager!Command : managerCommands[d].at \in {"none", "check"} => d # o
    BY <1>1 DEF Fresh, o
  <2> QED
    BY <1>1, <1>4, <1>5, <1>6, <2>1, <2>2, FreshKept
<1>9. ObjectKnown'
  BY <1>1, <1>2, <1>4, <1>5, <1>6, ObjectsKept DEF ObjectKnown, Manager!Waiting
<1>10. MapOwned'
  BY <1>1, <1>5, <1>6, OwnedKept
<1>11. \A d \in Manager!Command : /\ Manager!Opens(d)' <=> Manager!Opens(d)
                                  /\ Manager!Closes(d)' => Manager!Closes(d)
  BY <1>3, <1>4 DEF Manager!Opens, Manager!Closes
<1>12. ManagerOneAtATime'
  BY <1>1, <1>5, <1>11, OneKept
<1>13. Holds'
  <2>1. ASSUME NEW d \in Manager!Command, managerCommands[d].session \notin contested,
               sessions'[managerCommands[d].session] # sessions[managerCommands[d].session]
        PROVE  sessions'[managerCommands[d].session] = Manager!None /\ ~Manager!Opens(d)'
    BY <1>2, <1>6, <2>1, <1>1, <1>3, <1>11 DEF t, ManagerOneAtATime, Manager!Opens,
       Manager!Closes
  <2> QED
    BY <1>1, <1>3, <1>4, <1>5, <1>11, <2>1, HoldsKept
<1>14. RunsInMap'
  <2>1. \A p \in Manager!Command : managerCommands[p].session = t
          /\ managerCommands[p].session \notin contested
              /\ sessions[managerCommands[p].session] = p => p = o
    BY <1>1, NoneIsNoCommand DEF Holds, t, o
  <2> QED
    BY <1>1, <1>2, <1>5, <1>6, <2>1, RunsKept
<1>15. MapRuns'
  <2>1. ASSUME NEW s \in Sessions \ contested, NEW p \in Manager!Command, sessions'[s] = p
        PROVE  sessions[s] = p /\ p # o
    BY <1>6, <2>1, NoneIsNoCommand, <1>1, <1>3 DEF MapOwned, ObjectKnown, t, o
  <2> QED
    BY <1>1, <1>3, <1>4, <1>6, <1>11, <2>1, MapKept
<1>16. Manager!RunningRuns'
  BY <1>1, <1>5, <1>6, RunningKept
<1> QED
  BY <1>7, <1>8, <1>9, <1>10, <1>12, <1>13, <1>14, <1>15, <1>16 DEF SessionsInv

\* The object of a command goes into the map.
LEMMA CheckedStep ==
    ASSUME ManagerBounded, SessionsInv, NEW c \in Manager!Command, Manager!Checked(c)
    PROVE  SessionsInv'
<1>1. /\ Manager!TypeOK /\ Fresh /\ ObjectKnown /\ MapOwned /\ ManagerOneAtATime /\ Holds
      /\ RunsInMap /\ MapRuns /\ Manager!RunningRuns
  BY DEF SessionsInv
<1>2. /\ \A d \in Manager!Command : managerCommands[d].session \in Sessions
                            /\ managerCommands[d].object \in Manager!Command \cup {Manager!None}
      /\ \A s \in Sessions : sessions[s] \in Manager!Command \cup {Manager!None}
  BY <1>1, Kinds
<1> DEFINE t == managerCommands[c].session
<1>3. /\ managerCommands[c].at = "check" /\ t \in Sessions
      /\ UNCHANGED <<uploads, status, options, contested>>
  BY <1>2 DEF Manager!Checked
<1>4. \A d \in Manager!Command :
        /\ managerCommands'[d].kind = managerCommands[d].kind
        /\ managerCommands'[d].session = managerCommands[d].session
        /\ managerCommands'[d].object = IF d = c THEN c ELSE managerCommands[d].object
        /\ managerCommands'[d].at = IF d = c THEN "begin" ELSE managerCommands[d].at
  BY <1>1 DEF Manager!Checked, Manager!TypeOK
<1>5. Stay
  BY <1>3, <1>4 DEF Stay
<1>6. /\ \A o \in Manager!Command :
           /\ objects'[o].process = objects[o].process /\ objects'[o].thread = objects[o].thread
           /\ objects'[o].failed = objects[o].failed /\ objects'[o].killed = objects[o].killed
      /\ \A s \in Sessions : sessions'[s] = IF s = t THEN c ELSE sessions[s]
  BY <1>1 DEF Manager!Checked, Manager!TypeOK
<1>7. Manager!TypeOK'
  <2>1. managerCommands' \in [Manager!Command -> CommandRecord]
    <3>1. managerCommands[c] \in CommandRecord /\ "begin" \in Manager!Waiting
      BY <1>1 DEF Manager!TypeOK, CommandRecord, Manager!Waiting
    <3>2. [managerCommands[c] EXCEPT !.at = "begin", !.object = c] \in CommandRecord
      BY <3>1 DEF CommandRecord
    <3>3. managerCommands' =
            [managerCommands EXCEPT ![c] = [managerCommands[c] EXCEPT !.at = "begin",
                !.object = c]]
      BY <1>1 DEF Manager!Checked, Manager!TypeOK
    <3>4. managerCommands \in [Manager!Command -> CommandRecord]
      BY <1>1 DEF Manager!TypeOK, CommandRecord
    <3> QED
      BY <3>2, <3>3, <3>4
  <2>2. objects' \in [Manager!Command -> ObjectRecord]
    BY <1>1 DEF Manager!Checked, Manager!TypeOK, CommandRecord, ObjectRecord
  <2>3. sessions' \in [Sessions -> Manager!Command \cup {Manager!None}]
    BY <1>1 DEF Manager!Checked, Manager!TypeOK
  <2> QED
    BY <1>1, <1>3, <2>1, <2>2, <2>3 DEF CommandRecord, ObjectRecord, Manager!TypeOK
<1> HIDE DEF t
<1>8. Fresh'
  BY <1>1, <1>3, <1>4, <1>5, <1>6, FreshKept
<1>9. ObjectKnown'
  <2> SUFFICES ASSUME NEW d \in Manager!Command
      PROVE  /\ managerCommands'[d].at = "interrupt" =>
                 managerCommands'[d].kind \in {"stop", "cleanup", "cancel"}
             /\ managerCommands'[d].at = "check" => managerCommands'[d].object = Manager!None
             /\ managerCommands'[d].at \in {"begin", "opening"} => managerCommands'[d].object = d
             /\ managerCommands'[d].at \in {"check", "begin"} => objects'[d].process = "none"
             /\ managerCommands'[d].at \in {"next", "turn", "interrupt"} =>
                 managerCommands'[d].object # Manager!None
             /\ managerCommands'[d].at \in {"next", "interrupt"} => managerCommands'[d].object # d
             /\ managerCommands'[d].at = "turn" => objects'[managerCommands'[d].object].thread
             /\ managerCommands'[d].object # Manager!None =>
                  managerCommands'[managerCommands'[d].object].session =
                      managerCommands'[d].session
    BY DEF ObjectKnown
  <2>1. CASE d = c
    BY <1>1, <1>3, <1>4, <1>6, <2>1 DEF ObjectKnown
  <2>2. CASE d # c
    BY <1>1, <1>2, <1>4, <1>6, <2>2 DEF ObjectKnown
  <2> QED
    BY <2>1, <2>2
<1>10. MapOwned'
  BY <1>1, <1>5, <1>6, OwnedKept DEF t
<1>11. \A d \in Manager!Command : /\ Manager!Opens(d)' <=> Manager!Opens(d)
                                  /\ Manager!Closes(d)' => Manager!Closes(d) /\ d # c
  BY <1>1, <1>3, <1>4 DEF Manager!Opens, Manager!Closes, ObjectKnown
<1>12. ManagerOneAtATime'
  BY <1>1, <1>3, <1>5, <1>11, OneKept
<1>13. ASSUME t \notin contested
       PROVE  sessions[t] = Manager!None /\ \A d \in Manager!Command :
                managerCommands[d].session = t /\ d # c =>
                                                                 ~Manager!Opens(d)
                                                                     /\ ~Manager!Closes(d)
  BY <1>1, <1>3, <1>13 DEF Holds, ManagerOneAtATime, Manager!Opens, t
<1>14. Holds'
  BY <1>3, <1>4, <1>6, <1>11, <1>13, <1>1, <1>2 DEF Holds, t, Manager!Opens
<1>15. RunsInMap'
  BY <1>1, <1>2, <1>3, <1>5, <1>6, <1>13, NoneIsNoCommand, RunsKept DEF t
<1>16. MapRuns'
  <2> SUFFICES ASSUME NEW s \in Sessions \ contested, NEW o \in Manager!Command, sessions'[s] = o
             PROVE  /\ ~objects'[o].killed /\ ~objects'[o].failed
                    /\ Manager!Opens(o)' \/ objects'[o].thread \/ managerCommands'[o].at = "hung"
    BY <1>3 DEF MapRuns
  <2>1. CASE s = t
    BY <1>6, <2>1, <1>1, <1>3, <1>4 DEF Fresh, Manager!Opens
  <2>2. CASE s # t
    BY <1>1, <1>4, <1>6, <1>11, <2>2, <1>3 DEF MapRuns
  <2> QED
    BY <2>1, <2>2
<1>17. Manager!RunningRuns'
  BY <1>1, <1>3, <1>5, <1>6, RunningKept
<1> QED
  BY <1>7, <1>8, <1>9, <1>10, <1>12, <1>14, <1>15, <1>16, <1>17 DEF SessionsInv

\* The command that opens a session has spawned its process, or has its thread.
LEMMA OpeningStep ==
    ASSUME ManagerBounded, SessionsInv, NEW c \in Manager!Command, Manager!Begin(c)
             \/ Manager!Opened(c)
    PROVE  SessionsInv'
<1>1. /\ Manager!TypeOK /\ Fresh /\ ObjectKnown /\ MapOwned /\ ManagerOneAtATime /\ Holds
      /\ RunsInMap /\ MapRuns /\ Manager!RunningRuns
  BY DEF SessionsInv
<1>2. /\ \A d \in Manager!Command : managerCommands[d].session \in Sessions
                            /\ managerCommands[d].object \in Manager!Command \cup {Manager!None}
      /\ \A s \in Sessions : sessions[s] \in Manager!Command \cup {Manager!None}
  BY <1>1, Kinds
<1> DEFINE t == managerCommands[c].session
           at == IF managerCommands[c].at = "begin" THEN "opening" ELSE "turn"
           thread == objects[c].thread \/ at = "turn"
           shown == IF at = "turn" THEN "running" ELSE "starting"
<1>3. /\ managerCommands[c].at = "begin" \/ managerCommands[c].at = "opening"
      /\ Manager!Moved(c, at) /\ t \in Sessions /\ managerCommands[c].object = c
      /\ at = "turn" => objects[c].process = "runs"
      /\ UNCHANGED <<sessions, uploads, options, contested>>
  BY <1>1, <1>2 DEF Manager!Begin, Manager!Opened, Manager!Reachable, ObjectKnown
<1>4. \A d \in Manager!Command :
        /\ managerCommands'[d].kind = managerCommands[d].kind
        /\ managerCommands'[d].session = managerCommands[d].session
        /\ managerCommands'[d].object = managerCommands[d].object
        /\ managerCommands'[d].at = IF d = c THEN at ELSE managerCommands[d].at
  BY <1>1, <1>3, MovedFacts
<1>5. Stay
  BY <1>3, <1>4 DEF Stay
<1>6. /\ \A o \in Manager!Command :
           /\ objects'[o].process = IF o = c THEN "runs" ELSE objects[o].process
           /\ objects'[o].thread = IF o = c THEN thread ELSE objects[o].thread
           /\ objects'[o].failed = objects[o].failed /\ objects'[o].killed = objects[o].killed
      /\ \A s \in Sessions : status'[s] = IF s = t THEN shown ELSE status[s]
  <2>1. CASE Manager!Begin(c)
    BY <1>1, <2>1 DEF Manager!Begin, Manager!TypeOK
  <2>2. CASE Manager!Opened(c)
    BY <1>1, <2>2 DEF Manager!Opened, Manager!Reachable, Manager!TypeOK, ObjectRecord
  <2> QED
    BY <2>1, <2>2
<1>7. Manager!TypeOK'
  <2>1. managerCommands' \in [Manager!Command -> CommandRecord]
    BY <1>1, <1>3, MovedType DEF Manager!Waiting
  <2>2. objects' \in [Manager!Command -> ObjectRecord]
    <3>1. objects \in [Manager!Command -> ObjectRecord]
      BY <1>1 DEF Manager!TypeOK, ObjectRecord
    <3>2. \/ objects' = [objects EXCEPT ![c].process = "runs"]
          \/ objects' = [objects EXCEPT ![c].thread = TRUE]
      BY DEF Manager!Begin, Manager!Opened
    <3> QED
      BY <3>1, <3>2 DEF ObjectRecord
  <2>3. status' \in [Sessions -> {"none", "starting", "running", "exited", "failed"}]
    BY <1>1 DEF Manager!Begin, Manager!Opened, Manager!TypeOK
  <2> QED
    BY <1>1, <1>3, <2>1, <2>2, <2>3 DEF Manager!TypeOK, CommandRecord, ObjectRecord
<1>8. at = "opening" \/ at = "turn"
  BY <1>3
<1>9. objects[c].thread => thread
  OBVIOUS
<1>10. at = "turn" => thread /\ objects[c].process = "runs"
  BY <1>3
<1>11. shown = "running" => at = "turn"
  OBVIOUS
<1> HIDE DEF t, at, thread, shown
<1>12. Fresh'
  BY <1>1, <1>3, <1>4, <1>5, <1>6, <1>8, FreshKept
<1>13. ObjectKnown'
  <2>1. \A d \in Manager!Command :
             \/ managerCommands'[d].at \notin Manager!Waiting
             \/ /\ managerCommands'[d].at = managerCommands[d].at
                /\ managerCommands[d].at \in {"check", "begin"} =>
                    objects'[d].process = objects[d].process
             \/ managerCommands'[d].at = "opening" /\ managerCommands[d].object = d
             \/ /\ managerCommands'[d].at = "turn" /\ managerCommands[d].object # Manager!None
                /\ objects'[managerCommands[d].object].thread
    BY <1>3, <1>4, <1>6, <1>8, <1>10, NoneIsNoCommand
  <2>2. \A o \in Manager!Command : objects[o].thread => objects'[o].thread
    BY <1>6, <1>9
  <2> QED
    BY <1>1, <1>2, <1>4, <1>5, <2>1, <2>2, ObjectsKept
<1>14. MapOwned'
  BY <1>1, <1>3, <1>5, OwnedKept
<1>15. \A d \in Manager!Command : /\ Manager!Opens(d)' <=> Manager!Opens(d)
                                  /\ Manager!Closes(d)' => Manager!Closes(d)
  BY <1>3, <1>4, <1>8 DEF Manager!Opens, Manager!Closes
<1>16. ManagerOneAtATime'
  BY <1>1, <1>3, <1>5, <1>15, OneKept
<1>17. Holds'
  BY <1>1, <1>3, <1>4, <1>5, <1>8, <1>15, HoldsKept
<1>18. RunsInMap'
  BY <1>1, <1>3, <1>5, <1>6, RunsKept DEF Holds, Manager!Opens, t
<1>19. MapRuns'
  BY <1>1, <1>3, <1>4, <1>6, <1>9, <1>15, MapKept
<1>20. Manager!RunningRuns'
  BY <1>6, <1>1, <1>5, RunningKept DEF t
<1> QED
  BY <1>7, <1>12, <1>13, <1>14, <1>16, <1>17, <1>18, <1>19, <1>20 DEF SessionsInv

\* The options of an object change.
LEMMA OptionsStep ==
    ASSUME ManagerBounded, SessionsInv, NEW s \in Sessions, Manager!OptionsUpdate(s)
    PROVE  SessionsInv'
<1>1. /\ Manager!TypeOK /\ Fresh /\ ObjectKnown /\ MapOwned /\ ManagerOneAtATime /\ Holds
      /\ RunsInMap /\ MapRuns /\ Manager!RunningRuns
  BY DEF SessionsInv
<1>2. \A d \in Manager!Command : managerCommands[d].object \in Manager!Command \cup {Manager!None}
  BY <1>1, Kinds
<1>3. UNCHANGED <<sessions, managerCommands, uploads, status, contested>>
  BY DEF Manager!OptionsUpdate
<1>4. Stay
  BY <1>3 DEF Stay
<1>5. \A o \in Manager!Command :
        /\ objects'[o].process = objects[o].process /\ objects'[o].thread = objects[o].thread
        /\ objects'[o].failed = objects[o].failed /\ objects'[o].killed = objects[o].killed
  BY <1>1 DEF Manager!OptionsUpdate, Manager!TypeOK
<1>6. Manager!TypeOK'
  BY <1>1, <1>3 DEF Manager!OptionsUpdate, Manager!TypeOK, ManagerBounded, ObjectRecord
<1>7. \A d \in Manager!Command : (Manager!Opens(d)' <=> Manager!Opens(d))
        /\ (Manager!Closes(d)' <=> Manager!Closes(d))
  BY <1>3 DEF Manager!Opens, Manager!Closes
<1>8. Fresh'
  BY <1>1, <1>3, <1>4, <1>5, FreshKept
<1>9. ObjectKnown'
  BY <1>1, <1>2, <1>3, <1>4, <1>5, ObjectsKept
<1>10. MapOwned' /\ ManagerOneAtATime'
  BY <1>1, <1>3, <1>4, <1>7, OwnedKept, OneKept
<1>11. Holds'
  BY <1>1, <1>3, <1>4, <1>7, HoldsKept
<1>12. RunsInMap'
  BY <1>1, <1>3, <1>4, <1>5, RunsKept
<1>13. MapRuns'
  BY <1>1, <1>3, <1>5, <1>7, MapKept
<1>14. Manager!RunningRuns'
  BY <1>1, <1>3, <1>4, <1>5, RunningKept
<1> QED
  BY <1>6, <1>8, <1>9, <1>10, <1>11, <1>12, <1>13, <1>14 DEF SessionsInv

\* A command of the host comes.  One that stops a session without a thread takes
\* its object out of the map at once.
LEMMA ReceivedStep ==
    ASSUME ManagerBounded, SessionsInv, NEW c \in Manager!Command, NEW s \in Sessions, NEW kind,
             NEW at, NEW o,
           NEW closes \in BOOLEAN, Manager!Received(c, kind, s, at, o),
           kind \in {"start", "send", "stop", "cleanup", "cancel"},
           at \in {"rejected", "check", "next", "interrupt", "hung", "done"},
           o = Manager!None \/ o = sessions[s], at = "check" => sessions[s] = Manager!None,
           at \in {"next", "interrupt"} => o # Manager!None,
           at = "interrupt" => kind \in {"stop", "cleanup", "cancel"},
           closes => at = "done" /\ kind \in {"stop", "cleanup"} /\ o # Manager!None,
           IF closes THEN Manager!Close(kind, s, o) ELSE UNCHANGED <<sessions, objects>>,
           uploads' \subseteq Sessions, UNCHANGED <<status, options>>
    PROVE  SessionsInv'
<1>1. /\ Manager!TypeOK /\ Fresh /\ ObjectKnown /\ MapOwned /\ ManagerOneAtATime /\ Holds
      /\ RunsInMap /\ MapRuns /\ Manager!RunningRuns
  BY DEF SessionsInv
<1>2. /\ \A d \in Manager!Command : managerCommands[d].session \in Sessions
                            /\ managerCommands[d].object \in Manager!Command \cup {Manager!None}
      /\ \A t \in Sessions : sessions[t] \in Manager!Command \cup {Manager!None}
  BY <1>1, Kinds
<1>3. managerCommands[c].at = "none" /\ managerCommands[c].kind = "none"
  BY <1>1 DEF Manager!Received, Manager!New, Fresh
<1>4. /\ \A d \in Manager!Command : d # c => managerCommands'[d] = managerCommands[d]
      /\ managerCommands'[c].kind = kind /\ managerCommands'[c].session = s
      /\ managerCommands'[c].object = o
      /\ managerCommands'[c].at = at
  BY <1>1 DEF Manager!Received, Manager!TypeOK
<1>5. /\ objects[c].process = "none" /\ ~objects[c].killed /\ ~objects[c].failed
      /\ \A t \in Sessions : sessions[t] # c
      /\ \A d \in Manager!Command : managerCommands[d].object # c
  BY <1>1, <1>3 DEF Fresh
<1>6. /\ o \in Manager!Command \cup {Manager!None} /\ o # c
      /\ o # Manager!None => sessions[s] = o /\ o \in Manager!Command
          /\ managerCommands[o].session = s
  BY <1>1, <1>2, <1>5, NoneIsNoCommand DEF MapOwned
<1>7. /\ \A p \in Manager!Command :
           /\ objects'[p].process = objects[p].process /\ objects'[p].thread = objects[p].thread
           /\ objects'[p].failed = objects[p].failed
           /\ objects'[p].killed = IF closes /\ p = o THEN TRUE ELSE objects[p].killed
      /\ \A t \in Sessions : sessions'[t] = IF closes /\ t = s THEN Manager!None ELSE sessions[t]
      /\ objects' \in [Manager!Command -> ObjectRecord]
      /\ sessions' \in [Sessions -> Manager!Command \cup {Manager!None}]
  <2>1. CASE closes
    <3>1. Manager!Close(kind, s, o) /\ o \in Manager!Command /\ Manager!TypeOK
      BY <1>1, <1>6, <2>1
    <3>2. /\ \A p \in Manager!Command :
               /\ objects'[p].process = objects[p].process
               /\ objects'[p].thread = objects[p].thread
               /\ objects'[p].failed = objects[p].failed
               /\ objects'[p].killed = IF p = o THEN TRUE ELSE objects[p].killed
          /\ \A t \in Sessions : sessions'[t] = IF t = s THEN Manager!None ELSE sessions[t]
          /\ objects' \in [Manager!Command -> ObjectRecord]
          /\ sessions' \in [Sessions -> Manager!Command \cup {Manager!None}]
      BY <3>1, CloseFacts
    <3> QED
      BY <2>1, <3>2
  <2>2. CASE ~closes
    BY <1>1, <2>2 DEF Manager!TypeOK, ObjectRecord
  <2> QED
    BY <2>1, <2>2
<1>8. contested \subseteq contested' /\ contested' \subseteq Sessions
  BY <1>1 DEF Manager!Received, Manager!TypeOK
<1>9. Manager!TypeOK'
  <2>1. managerCommands' \in [Manager!Command -> CommandRecord]
    BY <1>1, <1>6 DEF Manager!TypeOK, CommandRecord, Manager!Waiting, Manager!Settled,
       Manager!Received
  <2> QED
    BY <1>1, <1>7, <1>8, <2>1 DEF Manager!TypeOK, CommandRecord, ObjectRecord
<1>10. Fresh'
  <2> SUFFICES ASSUME NEW d \in Manager!Command
      PROVE  /\ managerCommands'[d].kind = "none" <=> managerCommands'[d].at = "none"
             /\ managerCommands'[d].at \in {"none", "check"} =>
                  /\ objects'[d].process = "none" /\ ~objects'[d].killed /\ ~objects'[d].failed
                  /\ \A t \in Sessions : sessions'[t] # d
                  /\ \A e \in Manager!Command : managerCommands'[e].object # d
    BY DEF Fresh
  <2>1. CASE d = c
    BY <1>5, <1>7, NoneIsNoCommand, <1>4, <1>6, <2>1
  <2>2. CASE d # c
    <3>1. managerCommands'[d] = managerCommands[d]
      BY <1>4, <2>2
    <3>2. managerCommands[d].kind = "none" <=> managerCommands[d].at = "none"
      BY <1>1 DEF Fresh
    <3>3. ASSUME managerCommands[d].at \in {"none", "check"}
          PROVE  /\ objects'[d].process = "none" /\ ~objects'[d].killed /\ ~objects'[d].failed
                 /\ \A t \in Sessions : sessions'[t] # d
                 /\ \A e \in Manager!Command : managerCommands'[e].object # d
      <4>1. /\ objects[d].process = "none" /\ ~objects[d].killed /\ ~objects[d].failed
            /\ \A t \in Sessions : sessions[t] # d
            /\ \A e \in Manager!Command : managerCommands[e].object # d
        BY <1>1, <3>3 DEF Fresh
      <4>2. o # d
        BY <1>6, <4>1, NoneIsNoCommand
      <4>3. \A t \in Sessions : sessions'[t] # d
        BY <1>7, <4>1, NoneIsNoCommand
      <4>4. \A e \in Manager!Command : managerCommands'[e].object # d
        BY <1>4, <4>1, <4>2
      <4> QED
        BY <1>7, <4>1, <4>2, <4>3, <4>4
    <3> QED
      BY <3>1, <3>2, <3>3
  <2> QED
    BY <2>1, <2>2
<1>11. ObjectKnown'
  <2> SUFFICES ASSUME NEW d \in Manager!Command
      PROVE  /\ managerCommands'[d].at = "interrupt" =>
                 managerCommands'[d].kind \in {"stop", "cleanup", "cancel"}
             /\ managerCommands'[d].at = "check" => managerCommands'[d].object = Manager!None
             /\ managerCommands'[d].at \in {"begin", "opening"} => managerCommands'[d].object = d
             /\ managerCommands'[d].at \in {"check", "begin"} => objects'[d].process = "none"
             /\ managerCommands'[d].at \in {"next", "turn", "interrupt"} =>
                 managerCommands'[d].object # Manager!None
             /\ managerCommands'[d].at \in {"next", "interrupt"} => managerCommands'[d].object # d
             /\ managerCommands'[d].at = "turn" => objects'[managerCommands'[d].object].thread
             /\ managerCommands'[d].object # Manager!None =>
                  managerCommands'[managerCommands'[d].object].session =
                      managerCommands'[d].session
    BY DEF ObjectKnown
  <2>1. CASE d = c
    BY <1>4, <1>5, <1>6, <1>7, <2>1, NoneIsNoCommand
  <2>2. CASE d # c
    <3>1. managerCommands'[d] = managerCommands[d] /\ managerCommands[d].object # c
      BY <1>4, <1>5, <2>2
    <3>2. /\ managerCommands[d].at = "turn" => objects'[managerCommands[d].object].thread
          /\ managerCommands[d].object # Manager!None =>
               managerCommands'[managerCommands[d].object].session = managerCommands[d].session
      BY <1>1, <1>2, <1>4, <1>7, <3>1 DEF ObjectKnown
    <3>3. /\ managerCommands[d].at = "interrupt" =>
              managerCommands[d].kind \in {"stop", "cleanup", "cancel"}
          /\ managerCommands[d].at = "check" => managerCommands[d].object = Manager!None
          /\ managerCommands[d].at \in {"begin", "opening"} => managerCommands[d].object = d
          /\ managerCommands[d].at \in {"check", "begin"} => objects[d].process = "none"
          /\ managerCommands[d].at \in {"next", "turn", "interrupt"} =>
              managerCommands[d].object # Manager!None
          /\ managerCommands[d].at \in {"next", "interrupt"} => managerCommands[d].object # d
      BY <1>1 DEF ObjectKnown
    <3>4. objects'[d].process = objects[d].process
      BY <1>7
    <3> QED
      BY <3>1, <3>2, <3>3, <3>4
  <2> QED
    BY <2>1, <2>2
<1>12. MapOwned'
  BY <1>2, <1>5, <1>7, <1>1, <1>4 DEF MapOwned
<1>13. \A d \in Manager!Command : d # c => /\ Manager!Opens(d)' <=> Manager!Opens(d)
                                           /\ Manager!Closes(d)' <=> Manager!Closes(d)
  BY <1>4 DEF Manager!Opens, Manager!Closes
<1>14. /\ Manager!Opens(c)' <=> at = "check"
       /\ Manager!Closes(c)' => kind \in {"stop", "cleanup"}
       /\ ~Manager!Opens(c) /\ ~Manager!Closes(c)
  BY <1>3, <1>4 DEF Manager!Opens, Manager!Closes
<1>15. ASSUME s \notin contested', NEW d \in Manager!Command, d # c,
         managerCommands[d].session = s
       PROVE  /\ at = "check" \/ kind \in {"stop", "cleanup"} => ~Manager!Opens(d)
              /\ at = "check" => ~Manager!Closes(d)
  BY <1>15 DEF Manager!Received, Manager!Overlaps
<1>16. ManagerOneAtATime'
  <2> SUFFICES ASSUME NEW d \in Manager!Command, NEW e \in Manager!Command, d # e,
                      managerCommands'[d].session = managerCommands'[e].session,
                      managerCommands'[d].session \notin contested', Manager!Opens(d)'
               PROVE  ~Manager!Opens(e)' /\ ~Manager!Closes(e)'
    BY DEF ManagerOneAtATime
  <2>1. CASE d = c
    BY <1>4, <1>13, <1>14, <1>15, <2>1
  <2>2. CASE e = c
    BY <1>4, <1>13, <1>14, <1>15, <2>2
  <2>3. CASE d # c /\ e # c
    BY <1>4, <1>8, <2>3, <1>1, <1>13 DEF ManagerOneAtATime
  <2> QED
    BY <2>1, <2>2, <2>3
<1>17. Holds'
  <2> SUFFICES ASSUME NEW d \in Manager!Command, managerCommands'[d].session \notin contested'
             PROVE  /\ managerCommands'[d].at = "check" =>
                        sessions'[managerCommands'[d].session] = Manager!None
                    /\ Manager!Opens(d)' /\ managerCommands'[d].at # "check" =>
                        sessions'[managerCommands'[d].session] = d
                    /\ Manager!Closes(d)' =>
                        sessions'[managerCommands'[d].session] \in {Manager!None,
                            managerCommands'[d].object}
    BY DEF Holds
  <2>1. CASE d = c
    BY <1>4, <1>6, <1>7, <1>14, <2>1 DEF Manager!Closes
  <2>2. CASE d # c
    <3>1. managerCommands'[d] = managerCommands[d] /\ managerCommands[d].session \notin contested
          /\ managerCommands[d].session \in Sessions
      BY <1>2, <1>4, <1>8, <2>2
    <3>2. CASE closes /\ managerCommands[d].session = s
      BY <1>15, <2>2, <3>1, <3>2, <1>7, <1>13 DEF Manager!Opens
    <3>3. CASE ~(closes /\ managerCommands[d].session = s)
      BY <1>1, <1>7, <1>13, <2>2, <3>1, <3>3 DEF Holds
    <3> QED
      BY <3>2, <3>3
  <2> QED
    BY <2>1, <2>2
<1>18. RunsInMap'
  <2> SUFFICES ASSUME NEW p \in Manager!Command, managerCommands'[p].session \notin contested',
                      objects'[p].process = "runs"
               PROVE  objects'[p].killed \/ objects'[p].failed
                        \/ sessions'[managerCommands'[p].session] = p
    BY DEF RunsInMap
  <2>1. p # c
    BY <1>5, <1>7
  <2>2. managerCommands'[p] = managerCommands[p] /\ managerCommands[p].session \in Sessions
        /\ managerCommands[p].session \notin contested /\ objects[p].process = "runs"
    BY <1>2, <1>4, <1>7, <1>8, <2>1
  <2>3. objects[p].killed \/ objects[p].failed \/ sessions[managerCommands[p].session] = p
    BY <1>1, <2>2 DEF RunsInMap
  <2>4. CASE objects[p].killed \/ objects[p].failed
    BY <1>7, <2>4
  <2>5. CASE sessions[managerCommands[p].session] = p
    BY <1>6, <1>7, <2>2, <2>5
  <2> QED
    BY <2>3, <2>4, <2>5
<1>19. MapRuns'
  <2> SUFFICES ASSUME NEW t \in Sessions \ contested, NEW p \in Manager!Command, sessions'[t] = p
               PROVE  /\ ~objects'[p].killed /\ ~objects'[p].failed
                      /\ Manager!Opens(p)' \/ objects'[p].thread
                          \/ managerCommands'[p].at = "hung"
    BY <1>8 DEF MapRuns
  <2>1. sessions[t] = p /\ ~(closes /\ t = s) /\ p # c
    BY <1>5, <1>7, NoneIsNoCommand
  <2>2. /\ ~objects[p].killed /\ ~objects[p].failed
        /\ Manager!Opens(p) \/ objects[p].thread \/ managerCommands[p].at = "hung"
    BY <1>1, <2>1 DEF MapRuns
  <2>3. closes => p # o
    BY <1>1, <1>6, <2>1, NoneIsNoCommand DEF MapOwned
  <2> QED
    BY <1>4, <1>7, <1>13, <2>1, <2>2, <2>3
<1>20. Manager!RunningRuns'
  <2> SUFFICES ASSUME NEW t \in Sessions, status[t] = "running"
               PROVE  \E p \in Manager!Command : managerCommands'[p].session = t
                        /\ objects'[p].process = "runs"
    BY DEF Manager!RunningRuns
  <2>1. PICK p \in Manager!Command : managerCommands[p].session = t /\ objects[p].process = "runs"
    BY <1>1 DEF Manager!RunningRuns
  <2> QED
    BY <1>4, <1>5, <1>7, <2>1
<1> QED
  BY <1>9, <1>10, <1>11, <1>12, <1>16, <1>17, <1>18, <1>19, <1>20 DEF SessionsInv

\* The process of an object ends, and the commands that wait for it go on.
LEMMA EndStep ==
    ASSUME ManagerBounded, SessionsInv, NEW o \in Manager!Command, Manager!ProcessEnds(o)
    PROVE  SessionsInv'
<1>1. /\ Manager!TypeOK /\ Fresh /\ ObjectKnown /\ MapOwned /\ ManagerOneAtATime /\ Holds
      /\ RunsInMap /\ MapRuns /\ Manager!RunningRuns
  BY DEF SessionsInv
<1>2. /\ \A d \in Manager!Command : managerCommands[d].session \in Sessions
                            /\ managerCommands[d].object \in Manager!Command \cup {Manager!None}
      /\ \A t \in Sessions : sessions[t] \in Manager!Command \cup {Manager!None}
  BY <1>1, Kinds
<1> DEFINE s == managerCommands[o].session
           closing == {d \in Manager!Command : managerCommands[d].object = o /\ Manager!Closes(d)}
           fails(again) == Manager!Awaits(o, o) /\ o \notin again
<1>3. PICK again \in SUBSET {d \in Manager!Command : Manager!Awaits(d, o)} :
        /\ managerCommands' =
            [d \in Manager!Command |-> [managerCommands[d] EXCEPT !.at = Manager!RejectPending(d,
                o, again)]]
        /\ objects' = [objects EXCEPT ![o].process = "ended",
                         ![o].killed = @ \/ closing # {}, ![o].failed = @ \/ fails(again)]
        /\ sessions' = IF closing # {} \/ fails(again)
            THEN [sessions EXCEPT ![s] = Manager!None] ELSE sessions
        /\ uploads' = IF \E d \in closing : managerCommands[d].kind = "cleanup"
            THEN uploads \ {s} ELSE uploads
        /\ \E end \in {"exited", "failed"} :
             status' = [status EXCEPT ![s] = Manager!EndStatus(s, fails(again), end)]
  BY DEF Manager!ProcessEnds
<1> DEFINE failing == fails(again)
           leaves == closing # {} \/ failing
<1>3a. /\ managerCommands' =
            [d \in Manager!Command |-> [managerCommands[d] EXCEPT !.at = Manager!RejectPending(d,
                o, again)]]
       /\ again \subseteq {d \in Manager!Command : Manager!Awaits(d, o)}
  BY <1>3
<1>3b. /\ objects' \in [Manager!Command -> ObjectRecord]
       /\ \A p \in Manager!Command : p # o => objects'[p] = objects[p]
       /\ objects'[o].process = "ended" /\ objects'[o].thread = objects[o].thread
       /\ objects'[o].killed = (objects[o].killed \/ closing # {})
       /\ objects'[o].failed = (objects[o].failed \/ failing)
  <2>1. objects' = [objects EXCEPT ![o].process = "ended",
                      ![o].killed = @ \/ closing # {}, ![o].failed = @ \/ failing]
    BY <1>3
  <2>2. objects \in [Manager!Command -> ObjectRecord]
    BY <1>1 DEF Manager!TypeOK, ObjectRecord
  <2> DEFINE k == closing # {}
  <2>3. k \in BOOLEAN /\ failing \in BOOLEAN
    OBVIOUS
  <2>4. objects' = [objects EXCEPT ![o].process = "ended",
                      ![o].killed = @ \/ k, ![o].failed = @ \/ failing]
    BY <2>1
  <2> HIDE DEF k, failing
  <2> DEFINE r == [objects[o] EXCEPT !.process = "ended", !.killed = @ \/ k, !.failed = @
        \/ failing]
  <2>5. /\ r \in ObjectRecord /\ r.process = "ended" /\ r.thread = objects[o].thread
        /\ r.killed = (objects[o].killed \/ k) /\ r.failed = (objects[o].failed \/ failing)
    BY <2>2, <2>3 DEF ObjectRecord
  <2>6. objects' = [objects EXCEPT ![o] = r]
    BY <2>2, <2>4 DEF ObjectRecord
  <2> HIDE DEF r
  <2>7. /\ objects' \in [Manager!Command -> ObjectRecord]
        /\ \A p \in Manager!Command : p # o => objects'[p] = objects[p]
        /\ objects'[o] = r
    BY <2>2, <2>5, <2>6
  <2> QED
    BY <2>5, <2>7, Zenon DEF k
<1>4. /\ objects[o].process = "runs" /\ s \in Sessions
      /\ UNCHANGED <<options, contested>>
  BY <1>2 DEF Manager!ProcessEnds, Manager!Reachable
<1>5. \A d \in Manager!Command :
        /\ managerCommands'[d].kind = managerCommands[d].kind
        /\ managerCommands'[d].session = managerCommands[d].session
        /\ managerCommands'[d].object = managerCommands[d].object
        /\ managerCommands'[d].at = Manager!RejectPending(d, o, again)
  BY <1>1, <1>3a DEF Manager!TypeOK
<1>6. /\ \A p \in Manager!Command :
           /\ p # o => objects'[p] = objects[p]
           /\ objects'[p].process = IF p = o THEN "ended" ELSE objects[p].process
           /\ objects'[p].thread = objects[p].thread
           /\ p = o => (objects'[p].killed <=> objects[p].killed \/ closing # {})
           /\ p = o => (objects'[p].failed <=> objects[p].failed \/ failing)
      /\ \A t \in Sessions : sessions'[t] = IF leaves /\ t = s THEN Manager!None ELSE sessions[t]
      /\ \A t \in Sessions : IF t = s THEN status'[t] # "running" ELSE status'[t] = status[t]
  BY <1>1, <1>3, <1>3b DEF Manager!TypeOK, Manager!EndStatus
<1>7. Manager!TypeOK'
  <2>1. ASSUME NEW d \in Manager!Command
        PROVE  [managerCommands[d] EXCEPT !.at = Manager!RejectPending(d, o, again)] \in
                 CommandRecord
    BY <1>1 DEF Manager!TypeOK, CommandRecord, Manager!RejectPending, Manager!Settled
  <2>2. managerCommands' \in [Manager!Command -> CommandRecord]
    BY <1>3, <2>1
  <2>4. sessions' \in [Sessions -> Manager!Command \cup {Manager!None}]
    BY <1>1, <1>3 DEF Manager!TypeOK
  <2>5. status' \in [Sessions -> {"none", "starting", "running", "exited", "failed"}]
    BY <1>1, <1>3 DEF Manager!TypeOK, Manager!EndStatus
  <2>6. uploads' \subseteq Sessions
    BY <1>1, <1>3 DEF Manager!TypeOK
  <2> QED
    BY <1>1, <1>4, <1>3b, <2>2, <2>4, <2>5, <2>6 DEF Manager!TypeOK, CommandRecord, ObjectRecord
<1>8. Stay
  BY <1>5, <1>3a DEF Manager!RejectPending, Manager!Awaits, Stay
<1>10. \A d \in Manager!Command : /\ Manager!Opens(d)' => Manager!Opens(d)
                                  /\ Manager!Closes(d)' => Manager!Closes(d)
                                      /\ managerCommands[d].object # o
                                  /\ managerCommands'[d].at \in Manager!Waiting =>
                                      managerCommands'[d].at = managerCommands[d].at
                                  /\ managerCommands[d].at = "hung" =>
                                      managerCommands'[d].at = "hung"
  BY <1>5 DEF Manager!RejectPending, Manager!Waiting, Manager!Awaits, Manager!Opens,
     Manager!Closes
\* Who is in the way when the object leaves the map.
<1>11. failing => Manager!Opens(o) /\ ~Manager!Opens(o)' /\ managerCommands[o].at # "check"
  BY <1>5 DEF Manager!Opens, Manager!Awaits, Manager!RejectPending
<1>12. ASSUME NEW d \in closing
       PROVE  d \in Manager!Command /\ Manager!Closes(d) /\ managerCommands[d].object = o
                /\ managerCommands[d].session = s /\ ~Manager!Opens(d)
  BY <1>1, NoneIsNoCommand DEF ObjectKnown, Manager!Closes, Manager!Opens
<1>13. ASSUME leaves, s \notin contested
       PROVE  /\ \A d \in Manager!Command : managerCommands[d].session = s => ~Manager!Opens(d)'
              /\ sessions[s] \in {Manager!None, o}
  <2>1. CASE failing
    BY <1>1, <1>11, <1>13, <2>1, <1>10 DEF ManagerOneAtATime, Holds
  <2>2. CASE closing # {}
    BY <1>12, <2>2, <1>1, <1>13, <1>10 DEF ManagerOneAtATime, Holds
  <2> QED
    BY <1>13, <2>1, <2>2
<1> HIDE DEF s, closing, fails, failing, leaves
<1>14. Fresh'
  BY <1>1, <1>4, <1>8, <1>10, <1>6, <1>5, FreshKept DEF Stay, Fresh, Manager!Waiting
<1>15. ObjectKnown'
  BY <1>1, <1>4, <1>6, <1>10, <1>2, <1>5, <1>8, ObjectsKept DEF ObjectKnown
<1>16. MapOwned'
  BY <1>1, <1>6, <1>8, OwnedKept
<1>17. ManagerOneAtATime'
  BY <1>1, <1>4, <1>8, <1>10, OneKept
<1>18. Holds'
  <2>1. \A d \in Manager!Command : managerCommands'[d].at = "check" =>
          managerCommands[d].at = "check"
    BY <1>10 DEF Manager!Waiting
  <2>2. \A d \in Manager!Command : Manager!Opens(d)' /\ managerCommands'[d].at # "check" =>
          Manager!Opens(d) /\ managerCommands[d].at # "check"
    BY <1>10 DEF Manager!Opens, Manager!Waiting
  <2>3. ASSUME NEW d \in Manager!Command, managerCommands[d].session \notin contested,
               sessions'[managerCommands[d].session] # sessions[managerCommands[d].session]
        PROVE  sessions'[managerCommands[d].session] = Manager!None /\ ~Manager!Opens(d)'
    BY <1>2, <1>6, <2>3, <1>4, <1>13
  <2> QED
    BY <1>1, <1>4, <1>5, <1>8, <1>10, <2>1, <2>2, <2>3, HoldsKept
<1>19. RunsInMap'
  <2>1. \A p \in Manager!Command : (objects[p].killed => objects'[p].killed)
                           /\ (objects[p].failed => objects'[p].failed)
    BY <1>6
  <2>2. ASSUME NEW p \in Manager!Command, managerCommands[p].session \notin contested,
               sessions[managerCommands[p].session] = p
        PROVE  sessions'[managerCommands[p].session] = p \/ objects'[p].killed
                 \/ objects'[p].failed
    <3>1. CASE leaves /\ managerCommands[p].session = s
      BY <1>13, <2>2, <3>1, NoneIsNoCommand, <1>6 DEF leaves
    <3>2. CASE ~(leaves /\ managerCommands[p].session = s)
      BY <1>2, <1>6, <2>2, <3>2
    <3> QED
      BY <3>1, <3>2
  <2>3. \A p \in Manager!Command : objects'[p].process = "runs" => objects[p].process = "runs"
    BY <1>6
  <2> QED
    BY <1>1, <1>4, <1>8, <2>1, <2>2, <2>3, RunsKept
<1>20. MapRuns'
  <2>1. ASSUME NEW t \in Sessions \ contested, NEW p \in Manager!Command, sessions'[t] = p
        PROVE  /\ sessions[t] = p
               /\ objects'[p].killed = objects[p].killed /\ objects'[p].failed = objects[p].failed
               /\ Manager!Opens(p) => Manager!Opens(p)' \/ managerCommands'[p].at = "hung"
    <3>1. sessions[t] = p /\ ~(leaves /\ t = s)
      BY <1>6, <2>1, NoneIsNoCommand
    <3>2. managerCommands[p].session = t
      BY <1>1, <3>1, NoneIsNoCommand DEF MapOwned
    <3>3. CASE p = o
      <4>1. ~leaves
        BY <3>1, <3>2, <3>3 DEF s
      <4>2. objects'[p].killed = objects[p].killed /\ objects'[p].failed = objects[p].failed
        BY <1>1, <1>7, <1>6, <3>3, <4>1 DEF Manager!TypeOK, leaves
      <4>3. Manager!Opens(p) => Manager!Opens(p)' \/ managerCommands'[p].at = "hung"
        BY <1>1, <1>5, <3>3, <4>1 DEF Manager!Opens, Manager!Awaits, Manager!RejectPending,
           ObjectKnown, leaves, failing, fails
      <4> QED
        BY <3>1, <4>2, <4>3
    <3>4. CASE p # o
      BY <1>1, <1>5, <1>3a, <3>4, <1>6, <3>1 DEF Manager!Opens, Manager!Awaits,
         Manager!RejectPending, ObjectKnown
    <3> QED
      BY <3>3, <3>4
  <2> QED
    BY <1>1, <1>4, <1>6, <1>10, <2>1, MapKept
<1>21. Manager!RunningRuns'
  BY <1>6, <1>1, <1>8, RunningKept DEF s
<1> QED
  BY <1>7, <1>14, <1>15, <1>16, <1>17, <1>18, <1>19, <1>20, <1>21 DEF SessionsInv

(* The results.                                                            *)

LEMMA SessionsInit ==
    ASSUME ManagerBounded, Manager!Init
    PROVE  SessionsInv
<1>1. Manager!Unused.session \in Sessions
  BY DEF Manager!Unused, ManagerBounded
<1>2. Manager!Unused \in CommandRecord
  BY <1>1 DEF Manager!Unused, CommandRecord, ManagerBounded, Manager!None
<1>3. Manager!TypeOK
  BY <1>2 DEF Manager!Init, Manager!TypeOK, CommandRecord, Manager!NoObject, ManagerBounded
<1>4. \A c \in Manager!Command :
        /\ managerCommands[c].kind = "none" /\ managerCommands[c].at = "none"
        /\ managerCommands[c].object = Manager!None
        /\ objects[c].process = "none" /\ ~objects[c].killed /\ ~objects[c].failed
  BY DEF Manager!Init, Manager!Unused, Manager!NoObject
<1>5. \A s \in Sessions : sessions[s] = Manager!None /\ status[s] = "none"
  BY DEF Manager!Init
<1>6. \A c \in Manager!Command : ~Manager!Opens(c) /\ ~Manager!Closes(c)
  BY <1>4 DEF Manager!Opens, Manager!Closes
<1>7. Fresh /\ ObjectKnown /\ MapOwned /\ ManagerOneAtATime /\ Manager!RunningRuns
  BY <1>4, <1>5, <1>6, NoneIsNoCommand DEF Fresh, ObjectKnown, MapOwned, ManagerOneAtATime,
     Manager!RunningRuns
<1>8. Holds /\ RunsInMap /\ MapRuns
  BY <1>4, <1>5, <1>6, NoneIsNoCommand DEF Holds, RunsInMap, MapRuns
<1> QED
  BY <1>3, <1>7, <1>8 DEF SessionsInv

\* A command of the host of each kind.
LEMMA CommandStep ==
    ASSUME ManagerBounded, SessionsInv, NEW c \in Manager!Command, NEW s \in Sessions,
           \/ Manager!SessionStart(c, s) \/ Manager!SessionSend(c, s)
               \/ Manager!SessionCancel(c, s)
           \/ Manager!SessionClose(c, s, "stop") \/ Manager!SessionClose(c, s, "cleanup")
    PROVE  SessionsInv'
<1>1. uploads \subseteq Sessions
  BY DEF SessionsInv, Manager!TypeOK
<1>2. CASE Manager!SessionStart(c, s)
  BY <1>2, <1>1, ReceivedStep DEF Manager!SessionStart
<1>3. CASE Manager!SessionSend(c, s)
  BY <1>3, <1>1, ReceivedStep DEF Manager!SessionSend
<1>4. CASE Manager!SessionCancel(c, s)
  BY <1>4, <1>1, ReceivedStep DEF Manager!SessionCancel, Manager!Interrupt
<1>5. ASSUME NEW kind \in {"stop", "cleanup"}, Manager!SessionClose(c, s, kind)
      PROVE  SessionsInv'
  BY <1>5, <1>1, ReceivedStep DEF Manager!SessionClose, Manager!Close, Manager!Interrupt
<1> QED
  BY <1>2, <1>3, <1>4, <1>5

\* What the commands await.
LEMMA AwaitedStep ==
    ASSUME ManagerBounded, SessionsInv, NEW c \in Manager!Command,
           \/ Manager!Checked(c) \/ Manager!CodexMissing(c) \/ Manager!Begin(c)
               \/ Manager!SpawnFails(c) \/ Manager!Opened(c) \/ Manager!Refused(c)
           \/ Manager!Send(c) \/ Manager!TurnStarted(c) \/ Manager!TurnRefused(c)
               \/ Manager!Interrupted(c)
    PROVE  SessionsInv'
<1>1. Manager!TypeOK /\ ObjectKnown
  BY DEF SessionsInv
<1>2. status \in [Sessions -> {"none", "starting", "running", "exited", "failed"}]
  BY <1>1 DEF Manager!TypeOK
<1>3. CASE Manager!Checked(c)
  BY <1>3, CheckedStep
<1>4. CASE Manager!CodexMissing(c)
  BY <1>2, <1>4, MoveStep DEF Manager!CodexMissing
<1>5. CASE Manager!Begin(c) \/ Manager!Opened(c)
  BY <1>5, OpeningStep
<1>6. CASE Manager!SpawnFails(c) \/ Manager!Refused(c)
  BY <1>6, FailedStep DEF Manager!SpawnFails, Manager!Refused, Manager!Opens
<1>7. CASE Manager!Send(c)
  BY <1>7, <1>2, MoveStep DEF Manager!Send
<1>8. CASE Manager!TurnStarted(c)
  BY <1>8, <1>2, MoveStep DEF Manager!TurnStarted
<1>9. CASE Manager!TurnRefused(c)
  <2>1. CASE managerCommands[c].object = c
    BY <1>9, <2>1, FailedStep DEF Manager!TurnRefused, Manager!TurnFails, Manager!Opens
  <2>2. CASE managerCommands[c].object # c
    BY <1>9, <2>2, <1>2, MoveStep DEF Manager!TurnRefused, Manager!TurnFails
  <2> QED
    BY <2>1, <2>2
<1>10. CASE Manager!Interrupted(c)
  <2>1. /\ managerCommands[c].at = "interrupt" /\ Manager!Moved(c, "done")
        /\ UNCHANGED <<status, options, contested>>
    BY <1>10 DEF Manager!Interrupted
  <2>2. CASE managerCommands[c].kind = "cancel"
    BY <1>10, <2>2, <1>2, <2>1, MoveStep DEF Manager!Interrupted
  <2>3. CASE managerCommands[c].kind # "cancel"
    BY <1>10, <2>3, <1>1, <2>1, ClosedStep DEF Manager!Interrupted, Manager!Closes,
       ObjectKnown, Manager!TypeOK
  <2> QED
    BY <2>2, <2>3
<1> QED
  BY <1>3, <1>4, <1>5, <1>6, <1>7, <1>8, <1>9, <1>10

LEMMA SessionsStep ==
    ASSUME ManagerBounded, SessionsInv, [Manager!Next]_Manager!vars
    PROVE  SessionsInv'
<1>1. CASE UNCHANGED Manager!vars
  BY <1>1 DEF Manager!vars, SessionsInv, Manager!TypeOK, Fresh, ObjectKnown, MapOwned,
     ManagerOneAtATime, Holds,
     RunsInMap, MapRuns, Manager!RunningRuns, Manager!Opens, Manager!Closes
<1>2. CASE Manager!Next
  BY <1>2, CommandStep, OptionsStep, AwaitedStep, EndStep DEF Manager!Next
<1> QED
  BY <1>1, <1>2

-----------------------------------------------------------------------------
(* The streams of a tunnel.                                                *)

TunnelBounded == MaxConnections \in Nat /\ MaxIds \in Nat

\* What the host asks of the runner, and the types of what is on its way.
Ask == [type : {"OPEN", "END"}, id : Tunnels!Id]
Typed == Tunnels!TypeOK /\ toRunner \in [Tunnels!Connection -> Seq(Ask)]

\* hello was read, or the connection has not sent it.
Greeted(c) == \A k \in 1..Len(toHost[c]) : toHost[c][k].type # "hello"

\* hello comes first on its connection, and a connection is attached once: when
\* its hello is read.
AttachedOnce ==
    /\ \A c \in Tunnels!Connection :
         /\ link[c] = "new" => toHost[c] = <<>> /\ hubWs # c
         /\ \A k \in 2..Len(toHost[c]) : toHost[c][k].type # "hello"
    /\ hubWs # Tunnels!None => Greeted(hubWs)
    /\ \A i \in Tunnels!Id : on[i] # Tunnels!None => Greeted(on[i]) /\ link[on[i]] # "new"

\* The connection that the runner has is the one it takes for open.
OneAtATime == \A c \in Tunnels!Connection : link[c] \in {"open", "unseen"} <=> c = ws

\* A stream that was not opened is unknown to the runner.
Unopened ==
    \A i \in Tunnels!Id :
        /\ hub[i] = "none" => on[i] = Tunnels!None
        /\ on[i] = Tunnels!None =>
             /\ hub[i] = "none" /\ far[i] = "none"
             /\ \A c \in Tunnels!Connection : \A k \in 1..Len(toRunner[c]) : toRunner[c][k].id # i

\* The streams on which host and runner have to agree.
Shared(i) == ws # Tunnels!None /\ link[ws] = "open" /\ on[i] = ws /\ i \notin unsent

\* Of the frames still to read by a runner that has a stream in this state, OPEN
\* is the first about the stream, and there is one.
Introduced(frames, state, i) ==
    /\ state = "none" =>
         \E k \in 1..Len(frames) :
             /\ frames[k] = Tunnels!F("OPEN", i)
             /\ \A m \in 1..Len(frames) :
                   frames[m].id = i /\ m # k => m > k /\ frames[m] = Tunnels!F("END", i)
    /\ state # "none" => \A m \in 1..Len(frames) : frames[m] # Tunnels!F("OPEN", i)

OpenFirst == \A i \in Tunnels!Id : Shared(i) => Introduced(toRunner[ws], far[i], i)

\* EndsAgree, one side each.
EndsTold ==
    \A i \in Tunnels!Id : Shared(i) /\ hubWs = ws /\ hub[i] = "open" /\ far[i] = "gone" =>
        Tunnels!Underway(toHost[ws], "END", i) \/ Tunnels!Underway(toHost[ws], "ERROR", i)
EndsSent ==
    \A i \in Tunnels!Id : Shared(i) /\ hubWs = ws /\ hub[i] = "gone"
        /\ far[i] \in {"none", "open"} =>
        Tunnels!Underway(toRunner[ws], "END", i)

TunnelInv ==
    /\ Typed /\ AttachedOnce /\ OneAtATime /\ Unopened /\ OpenFirst /\ EndsTold /\ EndsSent

\* One frame of a type more, for the streams ids, on the connection attached to
\* the hub, or the host knows that there is not.
More(type, ids) ==
    /\ unsent \subseteq unsent' /\ unsent' \subseteq unsent \cup ids
    /\ toRunner' \in [Tunnels!Connection -> Seq(Ask)]
    /\ \A c \in Tunnels!Connection :
         /\ Len(toRunner'[c]) >= Len(toRunner[c])
         /\ \A k \in 1..Len(toRunner[c]) : toRunner'[c][k] = toRunner[c][k]
         /\ \A k \in (Len(toRunner[c]) + 1)..Len(toRunner'[c]) :
               c = hubWs /\ \E i \in ids : toRunner'[c][k] = Tunnels!F(type, i)
         /\ \A k, m \in (Len(toRunner[c]) + 1)..Len(toRunner'[c]) :
               toRunner'[c][k] = toRunner'[c][m] => k = m
    /\ hubWs # Tunnels!None /\ link[hubWs] = "open" =>
         \A i \in ids : i \in unsent' \/ Tunnels!Underway(toRunner'[hubWs], type, i)

LEMMA FrameFacts ==
    ASSUME TunnelBounded
    PROVE  /\ \A type, i : Tunnels!F(type, i).type = type /\ Tunnels!F(type, i).id = i
           /\ \A type \in {"OPEN", "END"}, i \in Tunnels!Id : Tunnels!F(type, i) \in Ask
           /\ \A type \in {"END", "ERROR"}, i \in Tunnels!Id :
                  Tunnels!F(type, i) \in Tunnels!Frame
           /\ \A f \in Ask : f.type \in {"OPEN", "END"} /\ f.id \in Tunnels!Id
                  /\ f = Tunnels!F(f.type, f.id)
           /\ \A f \in Tunnels!Frame : f.type # "hello" => f.id \in Tunnels!Id
                  /\ f = Tunnels!F(f.type, f.id)
           /\ \A f \in Tunnels!Frame : f.type \in {"hello", "OPEN", "END", "ERROR"}
           /\ [type |-> "hello"] \in Tunnels!Frame /\ [type |-> "hello"].type = "hello"
           /\ Tunnels!Connection \subseteq Nat /\ Tunnels!Id \subseteq Nat
                  /\ Tunnels!None \notin Tunnels!Connection
           /\ Ask \subseteq Tunnels!Frame
BY DEF TunnelBounded, Tunnels!F, Ask, Tunnels!Frame, Tunnels!Connection, Tunnels!Id,
    Tunnels!None

LEMMA SizeAgrees == \A S : Tunnels!Cardinality(S) = Cardinality(S)
BY DEF Tunnels!Cardinality, Cardinality

LEMMA SendFacts ==
    ASSUME TunnelBounded, Typed, NEW type \in {"OPEN", "END"}, NEW ids \in SUBSET Tunnels!Id,
           Tunnels!HubSend(type, ids)
    PROVE  More(type, ids)
<1>1. /\ hubWs \in Tunnels!Connection \cup {Tunnels!None}
          /\ toRunner \in [Tunnels!Connection -> Seq(Ask)]
      /\ \A c \in Tunnels!Connection : toRunner[c] \in Seq(Ask) /\ Len(toRunner[c]) \in Nat
    BY LenProperties DEF Typed, Tunnels!TypeOK
<1>2. CASE ~Tunnels!HostOpen(hubWs)
  BY <1>2, <1>1 DEF Tunnels!HubSend, More
<1>3. CASE Tunnels!HostOpen(hubWs)
    <2>1. hubWs \in Tunnels!Connection
        BY <1>1, <1>3 DEF Tunnels!HostOpen
    <2>2. PICK dropped \in SUBSET ids :
             /\ unsent' = unsent \cup dropped
             /\ IF link[hubWs] # "open" THEN UNCHANGED toRunner
                ELSE \E sent \in [1..Cardinality(ids \ dropped) -> ids \ dropped] :
                     /\ \A j, k \in DOMAIN sent : j < k => sent[j] < sent[k]
                     /\ \A i \in ids \ dropped : \E k \in DOMAIN sent : sent[k] = i
                     /\ toRunner' = [toRunner EXCEPT ![hubWs] =
                                      @ \o [k \in DOMAIN sent |-> Tunnels!F(type, sent[k])]]
        BY <1>3, SizeAgrees DEF Tunnels!HubSend
    <2>3. unsent \subseteq unsent' /\ unsent' \subseteq unsent \cup ids
        BY <2>2
    <2>4. CASE link[hubWs] # "open"
      BY <2>2, <2>4, <1>1, <2>3 DEF More
    <2>5. CASE link[hubWs] = "open"
        <3> DEFINE n == Cardinality(ids \ dropped)
        <3>1. PICK sent \in [1..n -> ids \ dropped] :
                 /\ \A j, k \in DOMAIN sent : j < k => sent[j] < sent[k]
                 /\ \A i \in ids \ dropped : \E k \in DOMAIN sent : sent[k] = i
                 /\ toRunner' = [toRunner EXCEPT ![hubWs] =
                                  @ \o [k \in DOMAIN sent |-> Tunnels!F(type, sent[k])]]
            BY <2>2, <2>5
        <3>2. n \in Nat
            <4>1. IsFiniteSet(Tunnels!Id)
                BY FS_Interval DEF TunnelBounded, Tunnels!Id
            <4>2. IsFiniteSet(ids \ dropped)
                BY <4>1, FS_Subset
            <4> QED
                BY <4>2, FS_CardinalityType
        <3> HIDE DEF n
        <3>3. \A k \in 1..n : sent[k] \in ids \ dropped /\ sent[k] \in Tunnels!Id
                  /\ sent[k] \in ids
            OBVIOUS
        <3> DEFINE fs == [k \in 1..n |-> Tunnels!F(type, sent[k])]
        <3>4. fs \in Seq(Ask) /\ Len(fs) = n /\ \A k \in 1..n : fs[k] = Tunnels!F(type, sent[k])
            BY <3>2, <3>3, FrameFacts
        <3>5. toRunner' = [toRunner EXCEPT ![hubWs] = @ \o fs]
            BY <3>1
        <3> HIDE DEF fs
        <3>6. /\ toRunner'[hubWs] = toRunner[hubWs] \o fs
              /\ \A c \in Tunnels!Connection : c # hubWs => toRunner'[c] = toRunner[c]
            BY <1>1, <2>1, <3>5
        <3>7. /\ toRunner[hubWs] \o fs \in Seq(Ask)
              /\ Len(toRunner[hubWs] \o fs) = Len(toRunner[hubWs]) + n
              /\ \A k \in 1..(Len(toRunner[hubWs]) + n) :
                    (toRunner[hubWs] \o fs)[k] = IF k <= Len(toRunner[hubWs])
                        THEN toRunner[hubWs][k]
                                                 ELSE fs[k - Len(toRunner[hubWs])]
            BY <1>1, <2>1, <3>4, ConcatProperties
        <3>8. toRunner' \in [Tunnels!Connection -> Seq(Ask)]
            BY <1>1, <3>5, <3>7
        <3> DEFINE old == Len(toRunner[hubWs])
        <3>9. /\ old \in Nat /\ Len(toRunner'[hubWs]) = old + n
              /\ \A k \in 1..old : toRunner'[hubWs][k] = toRunner[hubWs][k]
              /\ \A k \in (old + 1)..(old + n) :
                    k - old \in 1..n /\ toRunner'[hubWs][k] = Tunnels!F(type, sent[k - old])
            BY <1>1, <2>1, <3>2, <3>4, <3>6, <3>7
        <3> HIDE DEF old
        <3>10. \A k, m \in (old + 1)..(old + n) :
                  toRunner'[hubWs][k] = toRunner'[hubWs][m] => k = m
            <4> SUFFICES ASSUME NEW k \in (old + 1)..(old + n), NEW m \in (old + 1)..(old + n),
                                toRunner'[hubWs][k] = toRunner'[hubWs][m]
                         PROVE  k = m
                OBVIOUS
            <4>1. Tunnels!F(type, sent[k - old]) = Tunnels!F(type, sent[m - old])
                  /\ k - old \in 1..n /\ m - old \in 1..n
                BY <3>9
            <4>2. sent[k - old] = sent[m - old] /\ sent[k - old] \in Nat
                BY <3>3, <4>1, FrameFacts
            <4>3. ~(k - old < m - old) /\ ~(m - old < k - old)
                BY <3>1, <4>1, <4>2
            <4> QED
                BY <3>2, <3>9, <4>3
        <3>11. \A i \in ids : i \in unsent' \/ Tunnels!Underway(toRunner'[hubWs], type, i)
            <4> SUFFICES ASSUME NEW i \in ids, i \notin unsent'
                         PROVE  Tunnels!Underway(toRunner'[hubWs], type, i)
                OBVIOUS
            <4>1. i \in ids \ dropped
                BY <2>2
            <4>2. PICK k \in 1..n : sent[k] = i
                BY <3>1, <4>1
            <4>3. /\ old + k \in (old + 1)..(old + n) /\ old + k - old = k
                  /\ old + k \in 1..(old + n)
                BY <3>2, <3>9
            <4>4. toRunner'[hubWs][old + k] = Tunnels!F(type, i)
                BY <3>9, <4>2, <4>3
            <4> QED
                BY <3>9, <4>3, <4>4 DEF Tunnels!Underway
        <3>12. \A c \in Tunnels!Connection :
                 /\ Len(toRunner'[c]) >= Len(toRunner[c])
                 /\ \A k \in 1..Len(toRunner[c]) : toRunner'[c][k] = toRunner[c][k]
                 /\ \A k \in (Len(toRunner[c]) + 1)..Len(toRunner'[c]) :
                       c = hubWs /\ \E i \in ids : toRunner'[c][k] = Tunnels!F(type, i)
                 /\ \A k, m \in (Len(toRunner[c]) + 1)..Len(toRunner'[c]) :
                       toRunner'[c][k] = toRunner'[c][m] => k = m
            <4> SUFFICES ASSUME NEW c \in Tunnels!Connection
                         PROVE  /\ Len(toRunner'[c]) >= Len(toRunner[c])
                                /\ \A k \in 1..Len(toRunner[c]) : toRunner'[c][k] = toRunner[c][k]
                                /\ \A k \in (Len(toRunner[c]) + 1)..Len(toRunner'[c]) :
                                      c = hubWs /\ \E i \in ids :
                                          toRunner'[c][k] = Tunnels!F(type, i)
                                /\ \A k, m \in (Len(toRunner[c]) + 1)..Len(toRunner'[c]) :
                                      toRunner'[c][k] = toRunner'[c][m] => k = m
                OBVIOUS
            <4>1. CASE c = hubWs
              BY <4>1, <3>2, <3>3, <3>9, <3>10 DEF old
            <4>2. CASE c # hubWs
                BY <1>1, <3>6, <4>2
            <4> QED
                BY <4>1, <4>2
        <3> QED
            BY <2>3, <3>8, <3>11, <3>12 DEF More
    <2> QED
        BY <2>4, <2>5
<1> QED
    BY <1>2, <1>3

LEMMA TypedFacts ==
    ASSUME Typed
    PROVE  /\ \A c \in Tunnels!Connection :
                /\ toRunner[c] \in Seq(Ask) /\ Len(toRunner[c]) \in Nat
                /\ \A k \in 1..Len(toRunner[c]) : toRunner[c][k] \in Ask
                /\ toHost[c] \in Seq(Tunnels!Frame) /\ Len(toHost[c]) \in Nat
                /\ \A k \in 1..Len(toHost[c]) : toHost[c][k] \in Tunnels!Frame
           /\ ws \in Tunnels!Connection \cup {Tunnels!None}
                  /\ hubWs \in Tunnels!Connection \cup {Tunnels!None}
           /\ \A i \in Tunnels!Id : on[i] \in Tunnels!Connection \cup {Tunnels!None}
<1>1. \A c \in Tunnels!Connection : toRunner[c] \in Seq(Ask) /\ toHost[c] \in Seq(Tunnels!Frame)
    BY DEF Typed, Tunnels!TypeOK
<1>2. \A c \in Tunnels!Connection : Len(toRunner[c]) \in Nat /\ Len(toHost[c]) \in Nat
    BY <1>1, LenProperties
<1>3. \A c \in Tunnels!Connection :
         /\ \A k \in 1..Len(toRunner[c]) : toRunner[c][k] \in Ask
         /\ \A k \in 1..Len(toHost[c]) : toHost[c][k] \in Tunnels!Frame
    BY <1>1, ElementOfSeq
<1> QED
    BY <1>1, <1>2, <1>3 DEF Typed, Tunnels!TypeOK

LEMMA ReadFacts ==
    ASSUME NEW S, NEW s \in Seq(S), s # <<>>
    PROVE  /\ Len(s) \in Nat /\ Len(s) >= 1 /\ Head(s) = s[1] /\ Head(s) \in S
               /\ Tail(s) \in Seq(S)
           /\ Len(Tail(s)) = Len(s) - 1
           /\ \A k \in 1..Len(Tail(s)) : k + 1 \in 2..Len(s) /\ k + 1 \in 1..Len(s)
                  /\ Tail(s)[k] = s[k + 1]
           /\ \A k \in 2..Len(s) : k - 1 \in 1..Len(Tail(s)) /\ Tail(s)[k - 1] = s[k]
<1>1. Len(s) \in Nat /\ Len(s) >= 1 /\ s[1] \in S
    BY LenProperties, EmptySeq, ElementOfSeq
<1>2. Head(s) = s[1] /\ Tail(s) \in Seq(S) /\ Len(Tail(s)) = Len(s) - 1
      /\ \A k \in 1..Len(Tail(s)) : Tail(s)[k] = s[k + 1]
    BY HeadTailProperties
<1>3. \A k \in 2..Len(s) : k - 1 \in 1..Len(Tail(s)) /\ k - 1 + 1 = k
    BY <1>1, <1>2
<1> QED
    BY <1>1, <1>2, <1>3

LEMMA NothingMore == TunnelBounded /\ Typed /\ UNCHANGED <<toRunner, unsent>> => More("END", {})
<1> SUFFICES ASSUME TunnelBounded, Typed, UNCHANGED <<toRunner, unsent>> PROVE More("END", {})
    OBVIOUS
<1> QED
    BY TypedFacts DEF More, Typed, Tunnels!TypeOK

\* What the host does to a stream that is open, or to its connections, leaves the
\* runner's view of the streams as it was.
LEMMA AskKeeps ==
    ASSUME TunnelBounded, TunnelInv, NEW ids \in SUBSET Tunnels!Id, More("END", ids),
               UNCHANGED <<ws, on, far>>,
           \A i \in ids : Tunnels!Live(i),
           \A i \in Tunnels!Id : hub'[i] # hub[i] => Tunnels!Live(i) /\ hub'[i] # "none",
           ws # Tunnels!None /\ link'[ws] = "open" => link[ws] = "open",
           hubWs' = hubWs \/ hubWs' = Tunnels!None \/ \A i \in Tunnels!Id : on[i] # hubWs',
           hubWs' = hubWs /\ hubWs' # Tunnels!None =>
               \A i \in Tunnels!Id : hub'[i] = "gone" /\ hub[i] # "gone" => i \in ids
    PROVE  Unopened' /\ OpenFirst' /\ EndsSent'
<1>1. /\ Typed /\ Unopened /\ OpenFirst /\ EndsSent
      /\ ws \in Tunnels!Connection \cup {Tunnels!None} /\ Tunnels!None \notin Tunnels!Connection
    BY TypedFacts, FrameFacts DEF TunnelInv
<1>2. /\ unsent \subseteq unsent'
      /\ \A c \in Tunnels!Connection :
           /\ Len(toRunner'[c]) \in Nat /\ Len(toRunner[c]) \in Nat
           /\ Len(toRunner'[c]) >= Len(toRunner[c])
           /\ \A k \in 1..Len(toRunner[c]) : toRunner'[c][k] = toRunner[c][k]
                  /\ k \in 1..Len(toRunner'[c])
           /\ \A k \in 1..Len(toRunner'[c]) :
                 \/ k \in 1..Len(toRunner[c])
                 \/ k > Len(toRunner[c]) /\ \E i \in ids : toRunner'[c][k] = Tunnels!F("END", i)
    <2>1. \A c \in Tunnels!Connection : Len(toRunner'[c]) \in Nat /\ Len(toRunner[c]) \in Nat
        BY <1>1, TypedFacts, LenProperties DEF More
    <2>2. unsent \subseteq unsent'
        BY DEF More
    <2> SUFFICES ASSUME NEW c \in Tunnels!Connection
                 PROVE  /\ Len(toRunner'[c]) >= Len(toRunner[c])
                        /\ \A k \in 1..Len(toRunner[c]) : toRunner'[c][k] = toRunner[c][k]
                               /\ k \in 1..Len(toRunner'[c])
                        /\ \A k \in 1..Len(toRunner'[c]) :
                              \/ k \in 1..Len(toRunner[c])
                              \/ k > Len(toRunner[c]) /\ \E i \in ids :
                                     toRunner'[c][k] = Tunnels!F("END", i)
        BY <2>1, <2>2
    <2>3. /\ Len(toRunner'[c]) >= Len(toRunner[c])
          /\ \A k \in 1..Len(toRunner[c]) : toRunner'[c][k] = toRunner[c][k]
          /\ \A k \in (Len(toRunner[c]) + 1)..Len(toRunner'[c]) :
               \E i \in ids : toRunner'[c][k] = Tunnels!F("END", i)
        BY DEF More
    <2> QED
        BY <2>1, <2>3
<1>3. \A i \in Tunnels!Id : Shared(i)' => Shared(i) /\ ws \in Tunnels!Connection
    BY <1>1, <1>2 DEF Shared
<1>4. Unopened'
    <2> SUFFICES ASSUME NEW i \in Tunnels!Id
                 PROVE  /\ hub'[i] = "none" => on[i] = Tunnels!None
                        /\ on[i] = Tunnels!None =>
                             /\ hub'[i] = "none" /\ far[i] = "none"
                             /\ \A c \in Tunnels!Connection : \A k \in 1..Len(toRunner'[c]) :
                                    toRunner'[c][k].id # i
        BY DEF Unopened
    <2>1. hub'[i] = "none" => hub[i] = "none"
        OBVIOUS
    <2>2. on[i] = Tunnels!None => hub[i] = "none" /\ ~Tunnels!Live(i) /\ i \notin ids
        BY <1>1 DEF Unopened, Tunnels!Live
    <2>3. ASSUME on[i] = Tunnels!None, NEW c \in Tunnels!Connection,
              NEW k \in 1..Len(toRunner'[c])
          PROVE  toRunner'[c][k].id # i
      BY <1>1, <1>2, <2>3, <2>2, FrameFacts DEF Unopened
    <2> QED
        BY <1>1, <2>1, <2>2, <2>3 DEF Unopened
<1>5. OpenFirst'
    <2> SUFFICES ASSUME NEW i \in Tunnels!Id, Shared(i)'
                 PROVE  Introduced(toRunner'[ws], far[i], i)
        BY DEF OpenFirst
    <2>1. Shared(i) /\ ws \in Tunnels!Connection /\ Introduced(toRunner[ws], far[i], i)
        BY <1>1, <1>3 DEF OpenFirst
    <2>2. CASE far[i] = "none"
        <3>1. PICK k \in 1..Len(toRunner[ws]) :
                 /\ toRunner[ws][k] = Tunnels!F("OPEN", i)
                 /\ \A m \in 1..Len(toRunner[ws]) :
                       toRunner[ws][m].id = i /\ m # k => m > k
                           /\ toRunner[ws][m] = Tunnels!F("END", i)
            BY <2>1, <2>2 DEF Introduced
        <3>2. k \in 1..Len(toRunner'[ws]) /\ toRunner'[ws][k] = Tunnels!F("OPEN", i)
            BY <1>2, <2>1, <3>1
        <3>3. \A m \in 1..Len(toRunner'[ws]) :
                 toRunner'[ws][m].id = i /\ m # k => m > k
                     /\ toRunner'[ws][m] = Tunnels!F("END", i)
            BY <1>2, <2>1, <3>1, FrameFacts
        <3> QED
            BY <2>2, <3>2, <3>3 DEF Introduced
    <2>3. CASE far[i] # "none"
        <3>1. \A m \in 1..Len(toRunner[ws]) : toRunner[ws][m] # Tunnels!F("OPEN", i)
            BY <2>1, <2>3 DEF Introduced
        <3>2. \A j : Tunnels!F("END", j) # Tunnels!F("OPEN", i)
            BY DEF Tunnels!F
        <3> QED
            BY <1>2, <2>1, <2>3, <3>1, <3>2 DEF Introduced
    <2> QED
        BY <2>2, <2>3
<1>6. EndsSent'
    <2> SUFFICES ASSUME NEW i \in Tunnels!Id, Shared(i)', hubWs' = ws, hub'[i] = "gone",
            far[i] \in {"none", "open"}
                 PROVE  Tunnels!Underway(toRunner'[ws], "END", i)
        BY DEF EndsSent, Tunnels!Underway, Tunnels!F
    <2>1. Shared(i) /\ ws \in Tunnels!Connection /\ on[i] = ws /\ link[ws] = "open"
              /\ hubWs = ws /\ hubWs # Tunnels!None
        BY <1>1, <1>3 DEF Shared
    <2>2. CASE hub[i] = "gone"
      BY <1>1, <2>1, <2>2, <1>2 DEF EndsSent, Tunnels!Underway
    <2>3. CASE hub[i] # "gone"
      BY <2>1, <2>3 DEF Shared, More
    <2> QED
        BY <2>2, <2>3
<1> QED
    BY <1>4, <1>5, <1>6

\* What becomes of the frames for the host on one connection.
Fewer(c) ==
    \/ toHost'[c] = toHost[c]
    \/ toHost'[c] = <<>>
    \/ toHost[c] # <<>> /\ toHost'[c] = Tail(toHost[c])
    \/ /\ c = ws /\ link[c] = "open"
       /\ \E i \in Tunnels!Id, type \in {"END", "ERROR"} :
              toHost'[c] = Append(toHost[c], Tunnels!F(type, i))

LEMMA HelloKeeps ==
    ASSUME TunnelBounded, Typed, AttachedOnce,
           \A c \in Tunnels!Connection : Fewer(c) /\ (link'[c] = "new" => link[c] = "new"),
           \/ hubWs' \in {hubWs, Tunnels!None}
           \/ /\ hubWs' \in Tunnels!Connection /\ link[hubWs'] # "new" /\ toHost[hubWs'] # <<>>
              /\ toHost'[hubWs'] = Tail(toHost[hubWs']),
           \A i \in Tunnels!Id : on'[i] = on[i] \/ (on'[i] = hubWs /\ hubWs # Tunnels!None)
    PROVE  AttachedOnce'
<1>1. \A c \in Tunnels!Connection :
         /\ toHost[c] \in Seq(Tunnels!Frame) /\ Len(toHost[c]) \in Nat /\ Tunnels!None # c
         /\ \A k \in 2..Len(toHost[c]) : toHost[c][k].type # "hello"
    BY TypedFacts, FrameFacts DEF AttachedOnce
<1>2. \A c \in Tunnels!Connection :
         toHost[c] # <<>> /\ toHost'[c] = Tail(toHost[c]) =>
             \A k \in 1..Len(toHost'[c]) : toHost'[c][k].type # "hello"
  BY <1>1, ReadFacts
<1>3. ASSUME NEW c \in Tunnels!Connection, c = ws, link[c] = "open",
             NEW i \in Tunnels!Id, NEW type \in {"END", "ERROR"},
                 toHost'[c] = Append(toHost[c], Tunnels!F(type, i))
      PROVE  \A k \in 1..Len(toHost'[c]) :
                \/ k \in 1..Len(toHost[c]) /\ toHost'[c][k] = toHost[c][k]
                \/ toHost'[c][k].type # "hello"
  BY FrameFacts, <1>1, <1>3, AppendProperties
<1>4. \A c \in Tunnels!Connection : Greeted(c) => Greeted(c)'
  BY <1>2, <1>3 DEF Greeted, Fewer
<1>5. \A c \in Tunnels!Connection : \A k \in 2..Len(toHost'[c]) : toHost'[c][k].type # "hello"
    <2> SUFFICES ASSUME NEW c \in Tunnels!Connection, NEW k \in 2..Len(toHost'[c])
                 PROVE  toHost'[c][k].type # "hello"
        OBVIOUS
    <2>1. CASE toHost'[c] = toHost[c]
        BY <1>1, <2>1
    <2>2. CASE toHost'[c] = <<>>
        BY <2>2
    <2>3. CASE toHost[c] # <<>> /\ toHost'[c] = Tail(toHost[c])
      BY <1>1, <2>3, ReadFacts, <1>2
    <2>4. CASE /\ c = ws /\ link[c] = "open"
               /\ \E i \in Tunnels!Id, type \in {"END", "ERROR"} :
                      toHost'[c] = Append(toHost[c], Tunnels!F(type, i))
        <3>1. k \in 1..Len(toHost'[c])
            <4>1. Len(toHost'[c]) \in Nat
              BY <2>4, <1>1, FrameFacts, AppendProperties
            <4> QED
                BY <4>1
        <3> QED
            BY <1>1, <1>3, <2>4, <3>1
    <2> QED
        BY <2>1, <2>2, <2>3, <2>4 DEF Fewer
<1>6. \A c \in Tunnels!Connection : link'[c] = "new" => toHost'[c] = <<>> /\ hubWs' # c
  BY <1>1 DEF AttachedOnce, Fewer
<1>7. hubWs' # Tunnels!None => Greeted(hubWs)'
    <2> SUFFICES ASSUME hubWs' # Tunnels!None PROVE Greeted(hubWs)'
        OBVIOUS
    <2>1. PICK c : c = hubWs'
        OBVIOUS
    <2>2. CASE hubWs' \in {hubWs, Tunnels!None}
      BY <2>1, <2>2, TypedFacts, <1>4 DEF AttachedOnce, Greeted
    <2>3. CASE /\ hubWs' \in Tunnels!Connection /\ toHost[hubWs'] # <<>>
               /\ toHost'[hubWs'] = Tail(toHost[hubWs'])
      BY <1>2, <2>1, <2>3 DEF Greeted
    <2> QED
        BY <2>2, <2>3
<1>8. \A i \in Tunnels!Id : on'[i] # Tunnels!None => Greeted(on[i])' /\ link'[on'[i]] # "new"
  BY TypedFacts, <1>4 DEF AttachedOnce, Greeted
<1> QED
    BY <1>5, <1>6, <1>7, <1>8 DEF AttachedOnce

LEMMA ConnectKeeps == TunnelBounded /\ TunnelInv
          /\ (\E c \in Tunnels!Connection : Tunnels!Connect(c)) => TunnelInv'
<1> SUFFICES ASSUME TunnelBounded, TunnelInv, NEW c \in Tunnels!Connection,
        Tunnels!Connect(c) PROVE TunnelInv'
    OBVIOUS
<1>1. /\ Typed /\ AttachedOnce /\ OneAtATime /\ Unopened /\ Tunnels!None # c
      /\ ws = Tunnels!None /\ link[c] = "new" /\ ws' = c /\ link' = [link EXCEPT ![c] = "open"]
      /\ toHost' = [toHost EXCEPT ![c] = <<[type |-> "hello"]>>]
      /\ UNCHANGED <<hubWs, toRunner, hub, on, far, unsent>>
    BY FrameFacts DEF TunnelInv, Tunnels!Connect
<1>2. /\ link'[c] = "open" /\ \A d \in Tunnels!Connection : d # c => link'[d] = link[d]
      /\ toHost'[c] = <<[type |-> "hello"]>>
      /\ \A d \in Tunnels!Connection : d # c => toHost'[d] = toHost[d]
    BY <1>1 DEF Typed, Tunnels!TypeOK
<1>3. Typed'
  BY FrameFacts, <1>1 DEF Typed, Tunnels!TypeOK
<1>4. hubWs # c /\ \A i \in Tunnels!Id : on[i] # c
    BY <1>1 DEF AttachedOnce
<1>5. AttachedOnce'
    <2>1. \A d \in Tunnels!Connection : d # c /\ Greeted(d) => Greeted(d)'
        BY <1>2 DEF Greeted
    <2>2. \A d \in Tunnels!Connection :
             /\ link'[d] = "new" => toHost'[d] = <<>> /\ hubWs' # d
             /\ \A k \in 2..Len(toHost'[d]) : toHost'[d][k].type # "hello"
      BY <1>2, <1>1 DEF AttachedOnce
    <2>3. hubWs # Tunnels!None => hubWs \in Tunnels!Connection /\ Greeted(hubWs)'
      BY <1>1, <1>4, TypedFacts, <2>1 DEF AttachedOnce, Greeted
    <2>4. \A i \in Tunnels!Id : on'[i] # Tunnels!None => Greeted(on[i])' /\ link'[on'[i]] # "new"
      BY <1>1, <1>4, TypedFacts, <1>2, <2>1 DEF AttachedOnce, Greeted
    <2> QED
        BY <1>1, <2>2, <2>3, <2>4 DEF AttachedOnce
<1>6. OneAtATime'
    BY <1>1, <1>2, TypedFacts, FrameFacts DEF OneAtATime
<1>7. Unopened'
    BY <1>1 DEF Unopened
<1>8. OpenFirst' /\ EndsTold' /\ EndsSent'
    BY <1>1, <1>4 DEF OpenFirst, EndsTold, EndsSent, Shared
<1> QED
    BY <1>3, <1>5, <1>6, <1>7, <1>8 DEF TunnelInv

LEMMA RunnerLosesKeeps == TunnelBounded /\ TunnelInv /\ Tunnels!RunnerLoses => TunnelInv'
<1> SUFFICES ASSUME TunnelBounded, TunnelInv, Tunnels!RunnerLoses PROVE TunnelInv'
    OBVIOUS
<1>1. /\ Typed /\ AttachedOnce /\ OneAtATime /\ Unopened /\ ws # Tunnels!None
          /\ ws \in Tunnels!Connection
      /\ link' = [link EXCEPT ![ws] = IF @ = "unseen" THEN "closed" ELSE "lost"]
      /\ toRunner' = [toRunner EXCEPT ![ws] = <<>>] /\ ws' = Tunnels!None
      /\ far' = [i \in Tunnels!Id |-> IF far[i] = "none" THEN "none" ELSE "gone"]
      /\ UNCHANGED <<hubWs, toHost, hub, on, unsent>>
    BY TypedFacts DEF TunnelInv, Tunnels!RunnerLoses
<1>2. /\ link'[ws] \in {"closed", "lost"} /\ \A d \in Tunnels!Connection : d # ws =>
          link'[d] = link[d]
      /\ toRunner'[ws] = <<>> /\ \A d \in Tunnels!Connection : d # ws =>
             toRunner'[d] = toRunner[d]
    BY <1>1 DEF Typed, Tunnels!TypeOK
<1>3. Typed'
  BY <1>1 DEF Typed, Tunnels!TypeOK
<1>4. AttachedOnce'
  BY <1>1, <1>2, HelloKeeps DEF Fewer
<1>5. OneAtATime'
    BY <1>1, <1>2, FrameFacts DEF OneAtATime
<1>6. Unopened'
  BY <1>2, <1>1 DEF Unopened
<1>7. OpenFirst' /\ EndsTold' /\ EndsSent'
    BY <1>1 DEF OpenFirst, EndsTold, EndsSent, Shared
<1> QED
    BY <1>3, <1>4, <1>5, <1>6, <1>7 DEF TunnelInv

\* A stream that waits to be told of its end, while nothing that it waits for is read.
LEMMA ToldKeeps ==
    ASSUME TunnelInv, ws' = ws, far' = far, unsent \subseteq unsent',
           ws # Tunnels!None /\ link'[ws] = "open" => link[ws] = "open",
           hubWs' = hubWs \/ hubWs' = Tunnels!None \/ \A i \in Tunnels!Id : on[i] # hubWs',
           \A i \in Tunnels!Id : hub'[i] = "open" => hub[i] = "open" /\ on'[i] = on[i],
           \A i \in Tunnels!Id : hub'[i] = "open" => \A type \in {"END", "ERROR"} :
               ws # Tunnels!None /\ Tunnels!Underway(toHost[ws], type, i) =>
                   Tunnels!Underway(toHost'[ws], type, i)
    PROVE  EndsTold'
<1> SUFFICES ASSUME NEW i \in Tunnels!Id, Shared(i)', hubWs' = ws, hub'[i] = "open",
        far[i] = "gone"
             PROVE  Tunnels!Underway(toHost'[ws], "END", i)
                        \/ Tunnels!Underway(toHost'[ws], "ERROR", i)
    BY DEF EndsTold, Tunnels!Underway, Tunnels!F
<1>1. Shared(i) /\ hubWs = ws /\ hub[i] = "open" /\ ws # Tunnels!None
    BY DEF Shared
<1>2. Tunnels!Underway(toHost[ws], "END", i) \/ Tunnels!Underway(toHost[ws], "ERROR", i)
    BY <1>1 DEF TunnelInv, EndsTold
<1> QED
    BY <1>1, <1>2

LEMMA HostLosesKeeps == TunnelBounded /\ TunnelInv
          /\ (\E c \in Tunnels!Connection : Tunnels!HostLoses(c)) => TunnelInv'
<1> SUFFICES ASSUME TunnelBounded, TunnelInv, NEW c \in Tunnels!Connection,
        Tunnels!HostLoses(c) PROVE TunnelInv'
    OBVIOUS
<1>1. /\ Typed /\ AttachedOnce /\ OneAtATime /\ c # Tunnels!None /\ link[c] \in {"open", "lost"}
      /\ link' = [link EXCEPT ![c] = IF @ = "open" THEN "unseen" ELSE "closed"]
      /\ toHost' = [toHost EXCEPT ![c] = <<>>] /\ UNCHANGED <<ws, on, far>>
    BY FrameFacts DEF TunnelInv, Tunnels!HostLoses
<1>2. /\ link'[c] \in {"unseen", "closed"} /\ (link'[c] = "unseen" <=> link[c] = "open")
      /\ \A d \in Tunnels!Connection : d # c => link'[d] = link[d] /\ toHost'[d] = toHost[d]
      /\ toHost'[c] = <<>>
    BY <1>1 DEF Typed, Tunnels!TypeOK
<1>3. PICK ids \in SUBSET Tunnels!Id :
         /\ More("END", ids) /\ \A i \in ids : Tunnels!Live(i)
         /\ \/ UNCHANGED <<hub, hubWs>>
            \/ /\ hubWs' \in {hubWs, Tunnels!None}
               /\ hub' = [i \in Tunnels!Id |-> IF i \in Tunnels!InHub THEN "gone" ELSE hub[i]]
               /\ hubWs' = Tunnels!None \/ ids = Tunnels!InHub
    <2>1. Tunnels!InHub \in SUBSET Tunnels!Id /\ \A i \in Tunnels!InHub : Tunnels!Live(i)
        BY DEF Tunnels!InHub, Tunnels!Live
    <2>2. CASE UNCHANGED <<hubWs, hub, toRunner, unsent>>
        BY <1>1, <2>2, NothingMore
    <2>3. CASE Tunnels!Detach(c) /\ hubWs = c /\ UNCHANGED <<toRunner, unsent>>
      BY <1>1, <2>3, NothingMore DEF Tunnels!Detach
    <2>4. CASE Tunnels!Detach(c) /\ hubWs # c /\ Tunnels!HubSend("END", Tunnels!InHub)
      BY <1>1, <2>1, <2>4, SendFacts DEF Tunnels!Detach
    <2> QED
        BY <2>2, <2>3, <2>4 DEF Tunnels!HostLoses
<1>4. /\ hubWs' \in {hubWs, Tunnels!None}
      /\ \A i \in Tunnels!Id : hub'[i] = hub[i]
             \/ (Tunnels!Live(i) /\ hub[i] = "open" /\ hub'[i] = "gone"
                 /\ (hubWs' = Tunnels!None \/ i \in ids))
    BY <1>3 DEF Tunnels!InHub, Tunnels!Live
<1>5. ws # Tunnels!None /\ link'[ws] = "open" => link[ws] = "open" /\ ws # c
          /\ ws \in Tunnels!Connection
    BY <1>1, <1>2, TypedFacts
<1>6. unsent \subseteq unsent' /\ unsent' \subseteq unsent \cup ids
          /\ toRunner' \in [Tunnels!Connection -> Seq(Ask)]
    BY <1>3 DEF More
<1>7. Typed'
    <2>1. hub' \in [Tunnels!Id -> {"none", "open", "ended", "gone"}]
        BY <1>1, <1>3 DEF Typed, Tunnels!TypeOK
    <2>2. link' \in [Tunnels!Connection -> {"new", "open", "lost", "unseen", "closed"}]
          /\ toHost' \in [Tunnels!Connection -> Seq(Tunnels!Frame)]
        BY <1>1 DEF Typed, Tunnels!TypeOK
    <2>3. toRunner' \in [Tunnels!Connection -> Seq(Tunnels!Frame)]
        BY <1>6, FrameFacts, SeqMonotonic
    <2> QED
        BY <1>1, <1>4, <1>6, <2>1, <2>2, <2>3 DEF Typed, Tunnels!TypeOK
<1>8. AttachedOnce'
  BY <1>2, <1>1, <1>4, HelloKeeps DEF Fewer
<1>9. OneAtATime'
    BY <1>1, <1>2 DEF OneAtATime
<1>10. Unopened' /\ OpenFirst' /\ EndsSent'
  BY <1>4, <1>1, <1>3, <1>5, AskKeeps
<1>11. EndsTold'
    <2>1. \A i \in Tunnels!Id : hub'[i] = "open" => hub[i] = "open" /\ on'[i] = on[i]
        BY <1>1, <1>4
    <2>2. ws # Tunnels!None => ws # c \/ link'[ws] # "open"
        BY <1>2
    <2>3. CASE ws # Tunnels!None /\ link'[ws] = "open"
      BY <1>2, <1>5, <2>3, <1>1, <1>4, <1>6, <2>1, ToldKeeps
    <2>4. CASE ~(ws # Tunnels!None /\ link'[ws] = "open")
        BY <1>1, <2>4 DEF EndsTold, Shared
    <2> QED
        BY <2>3, <2>4
<1> QED
    BY <1>7, <1>8, <1>9, <1>10, <1>11 DEF TunnelInv

LEMMA AttachKeeps == TunnelBounded /\ TunnelInv
          /\ (\E c \in Tunnels!Connection : Tunnels!Attach(c)) => TunnelInv'
<1> SUFFICES ASSUME TunnelBounded, TunnelInv, NEW c \in Tunnels!Connection,
        Tunnels!Attach(c) PROVE TunnelInv'
    OBVIOUS
<1>1. /\ Typed /\ AttachedOnce /\ OneAtATime /\ c # Tunnels!None
      /\ toHost[c] # <<>> /\ Head(toHost[c]).type = "hello"
      /\ toHost' = [toHost EXCEPT ![c] = Tail(@)] /\ hubWs' = c
      /\ hub' = IF hubWs = Tunnels!None THEN hub
          ELSE [i \in Tunnels!Id |-> IF i \in Tunnels!InHub THEN "gone" ELSE hub[i]]
      /\ UNCHANGED <<link, ws, toRunner, on, far, unsent>>
    BY FrameFacts DEF TunnelInv, Tunnels!Attach
<1>2. /\ toHost'[c] = Tail(toHost[c]) /\ Tail(toHost[c]) \in Seq(Tunnels!Frame)
      /\ \A d \in Tunnels!Connection : d # c => toHost'[d] = toHost[d]
      /\ 1 \in 1..Len(toHost[c]) /\ toHost[c][1].type = "hello"
      /\ link[c] # "new"
  BY <1>1, TypedFacts, ReadFacts DEF AttachedOnce, Typed, Tunnels!TypeOK
<1>3. \A i \in Tunnels!Id : on[i] # c
    BY <1>1, <1>2 DEF AttachedOnce, Greeted
<1>4. \A i \in Tunnels!Id : hub'[i] = hub[i]
          \/ (Tunnels!Live(i) /\ hub[i] = "open" /\ hub'[i] = "gone")
    BY <1>1 DEF Tunnels!InHub, Tunnels!Live, Typed, Tunnels!TypeOK
<1>5. Typed'
  BY <1>1, <1>2 DEF Typed, Tunnels!TypeOK
<1>6. AttachedOnce'
  BY <1>1, <1>2, HelloKeeps DEF Fewer
<1>7. OneAtATime'
    BY <1>1 DEF OneAtATime
<1>8. Unopened' /\ OpenFirst' /\ EndsSent'
  BY <1>1, NothingMore, <1>4, <1>2, <1>3, AskKeeps DEF AttachedOnce, Greeted
<1>9. EndsTold'
    BY <1>1, <1>3 DEF EndsTold, Shared
<1> QED
    BY <1>5, <1>6, <1>7, <1>8, <1>9 DEF TunnelInv

LEMMA OpenStreamKeeps == TunnelBounded /\ TunnelInv
          /\ (\E i \in Tunnels!Id : Tunnels!OpenStream(i)) => TunnelInv'
<1> SUFFICES ASSUME TunnelBounded, TunnelInv, NEW i \in Tunnels!Id,
        Tunnels!OpenStream(i) PROVE TunnelInv'
    OBVIOUS
<1>1. /\ Typed /\ AttachedOnce /\ OneAtATime /\ Unopened /\ OpenFirst /\ EndsTold /\ EndsSent
      /\ hub[i] = "none" /\ hubWs # Tunnels!None /\ hubWs \in Tunnels!Connection
             /\ Tunnels!HubSend("OPEN", {i})
      /\ hub' = [hub EXCEPT ![i] = "open"] /\ on' = [on EXCEPT ![i] = hubWs]
      /\ UNCHANGED <<link, ws, hubWs, toHost, far>>
    BY TypedFacts DEF TunnelInv, Tunnels!OpenStream, Tunnels!Requested, Tunnels!HostOpen
<1>2. More("OPEN", {i})
    BY <1>1, SendFacts
<1>3. /\ hub'[i] = "open" /\ on'[i] = hubWs
      /\ \A j \in Tunnels!Id : j # i => hub'[j] = hub[j] /\ on'[j] = on[j]
      /\ on[i] = Tunnels!None /\ far[i] = "none"
      /\ \A c \in Tunnels!Connection : \A k \in 1..Len(toRunner[c]) : toRunner[c][k].id # i
    BY <1>1 DEF Typed, Tunnels!TypeOK, Unopened
<1>4. /\ unsent \subseteq unsent' /\ unsent' \subseteq unsent \cup {i}
      /\ toRunner' \in [Tunnels!Connection -> Seq(Ask)]
    BY <1>2 DEF More
<1>5. \A c \in Tunnels!Connection :
         /\ Len(toRunner'[c]) \in Nat /\ Len(toRunner[c]) \in Nat
         /\ Len(toRunner'[c]) >= Len(toRunner[c])
         /\ \A k \in 1..Len(toRunner[c]) : toRunner'[c][k] = toRunner[c][k]
                /\ k \in 1..Len(toRunner'[c])
         /\ \A k \in 1..Len(toRunner'[c]) :
               \/ k \in 1..Len(toRunner[c])
               \/ /\ k \in (Len(toRunner[c]) + 1)..Len(toRunner'[c])
                  /\ c = hubWs /\ toRunner'[c][k] = Tunnels!F("OPEN", i)
         /\ \A k, m \in (Len(toRunner[c]) + 1)..Len(toRunner'[c]) : k = m
    <2> SUFFICES ASSUME NEW c \in Tunnels!Connection
                 PROVE  /\ Len(toRunner'[c]) \in Nat /\ Len(toRunner[c]) \in Nat
                        /\ Len(toRunner'[c]) >= Len(toRunner[c])
                        /\ \A k \in 1..Len(toRunner[c]) : toRunner'[c][k] = toRunner[c][k]
                               /\ k \in 1..Len(toRunner'[c])
                        /\ \A k \in 1..Len(toRunner'[c]) :
                              \/ k \in 1..Len(toRunner[c])
                              \/ /\ k \in (Len(toRunner[c]) + 1)..Len(toRunner'[c])
                                 /\ c = hubWs /\ toRunner'[c][k] = Tunnels!F("OPEN", i)
                        /\ \A k, m \in (Len(toRunner[c]) + 1)..Len(toRunner'[c]) : k = m
        OBVIOUS
    <2>1. Len(toRunner'[c]) \in Nat /\ Len(toRunner[c]) \in Nat
        BY <1>1, <1>4, TypedFacts, LenProperties
    <2>2. /\ Len(toRunner'[c]) >= Len(toRunner[c])
          /\ \A k \in 1..Len(toRunner[c]) : toRunner'[c][k] = toRunner[c][k]
          /\ \A k \in (Len(toRunner[c]) + 1)..Len(toRunner'[c]) :
                c = hubWs /\ toRunner'[c][k] = Tunnels!F("OPEN", i)
          /\ \A k, m \in (Len(toRunner[c]) + 1)..Len(toRunner'[c]) :
                toRunner'[c][k] = toRunner'[c][m] => k = m
        BY <1>2 DEF More
    <2>3. \A k, m \in (Len(toRunner[c]) + 1)..Len(toRunner'[c]) : k = m
        BY <2>2
    <2> QED
        BY <2>1, <2>2, <2>3
<1>6. Typed'
  BY <1>1, <1>4, FrameFacts, SeqMonotonic DEF Typed, Tunnels!TypeOK
<1>7. AttachedOnce'
  BY <1>1, <1>3, HelloKeeps DEF Fewer
<1>8. OneAtATime'
    BY <1>1 DEF OneAtATime
<1>9. Unopened'
    <2> SUFFICES ASSUME NEW j \in Tunnels!Id
                 PROVE  /\ hub'[j] = "none" => on'[j] = Tunnels!None
                        /\ on'[j] = Tunnels!None =>
                             /\ hub'[j] = "none" /\ far[j] = "none"
                             /\ \A c \in Tunnels!Connection : \A k \in 1..Len(toRunner'[c]) :
                                    toRunner'[c][k].id # j
        BY <1>1 DEF Unopened
    <2>1. CASE j = i
        BY <1>1, <1>3, <2>1
    <2>2. CASE j # i
        <3>1. \A c \in Tunnels!Connection : \A k \in 1..Len(toRunner'[c]) :
                 toRunner'[c][k] = Tunnels!F("OPEN", i)
                     \/ (k \in 1..Len(toRunner[c]) /\ toRunner'[c][k] = toRunner[c][k])
          BY <1>5
        <3> QED
            BY <1>1, <1>3, <2>2, <3>1, FrameFacts DEF Unopened
    <2> QED
        BY <2>1, <2>2
<1>10. OpenFirst'
    <2> SUFFICES ASSUME NEW j \in Tunnels!Id,
            Shared(j)' PROVE Introduced(toRunner'[ws], far[j], j)
        BY <1>1 DEF OpenFirst
    <2>1. ws \in Tunnels!Connection /\ ws # Tunnels!None /\ link[ws] = "open"
        BY <1>1, TypedFacts DEF Shared
    <2>2. CASE j = i
        <3>1. hubWs = ws /\ i \notin unsent'
            BY <1>1, <1>3, <2>2 DEF Shared
        <3>2. Tunnels!Underway(toRunner'[ws], "OPEN", i)
            BY <1>1, <1>2, <2>1, <3>1 DEF More
        <3>3. PICK k \in 1..Len(toRunner'[ws]) : toRunner'[ws][k] = Tunnels!F("OPEN", i)
            BY <3>2 DEF Tunnels!Underway
        <3>4. \A m \in 1..Len(toRunner'[ws]) :
                 toRunner'[ws][m].id = i => m \in (Len(toRunner[ws]) + 1)..Len(toRunner'[ws])
            BY <1>3, <1>5, <2>1
        <3>5. toRunner'[ws][k].id = i
            BY <3>3, FrameFacts
        <3>6. \A m \in 1..Len(toRunner'[ws]) : toRunner'[ws][m].id = i => m = k
            BY <1>5, <2>1, <3>4, <3>5
        <3> QED
            BY <1>3, <2>2, <3>3, <3>6 DEF Introduced
    <2>3. CASE j # i
        <3>1. Shared(j) /\ Introduced(toRunner[ws], far[j], j)
            BY <1>1, <1>3, <1>4, <2>3 DEF Shared, OpenFirst
        <3>2. \A m \in 1..Len(toRunner'[ws]) :
                 \/ m \in 1..Len(toRunner[ws]) /\ toRunner'[ws][m] = toRunner[ws][m]
                 \/ toRunner'[ws][m].id # j /\ toRunner'[ws][m] # Tunnels!F("OPEN", j)
            BY <1>5, <2>1, <2>3, FrameFacts
        <3>3. \A m \in 1..Len(toRunner[ws]) :
                 m \in 1..Len(toRunner'[ws]) /\ toRunner'[ws][m] = toRunner[ws][m]
            BY <1>5, <2>1
        <3>4. CASE far[j] = "none"
          BY <3>1, <3>4, <3>3, <3>2 DEF Introduced
        <3>5. CASE far[j] # "none"
            BY <3>1, <3>2, <3>5 DEF Introduced
        <3> QED
            BY <3>4, <3>5
    <2> QED
        BY <2>2, <2>3
<1>11. EndsTold'
  BY <1>1, <1>3, <1>4 DEF EndsTold, Tunnels!Underway, Tunnels!F, Shared
<1>12. EndsSent'
    <2> SUFFICES ASSUME NEW j \in Tunnels!Id, Shared(j)', hubWs = ws, hub'[j] = "gone",
            far[j] \in {"none", "open"}
                 PROVE  Tunnels!Underway(toRunner'[ws], "END", j)
        BY <1>1 DEF EndsSent, Tunnels!Underway, Tunnels!F
    <2>1. j # i
        BY <1>3
    <2>2. Shared(j) /\ hub[j] = "gone" /\ ws \in Tunnels!Connection
        BY <1>1, <1>3, <1>4, <2>1, TypedFacts DEF Shared
    <2>3. Tunnels!Underway(toRunner[ws], "END", j)
        BY <1>1, <2>2 DEF EndsSent
    <2> QED
        BY <1>5, <2>2, <2>3 DEF Tunnels!Underway
<1> QED
    BY <1>6, <1>7, <1>8, <1>9, <1>10, <1>11, <1>12 DEF TunnelInv


\* Frames for streams that are open, END or none, and the state of these streams.
LEMMA HostKeeps ==
    ASSUME TunnelBounded, TunnelInv, NEW ids \in SUBSET Tunnels!Id, More("END", ids),
               \A i \in ids : Tunnels!Live(i),
           hub' \in [Tunnels!Id -> {"none", "open", "ended", "gone"}],
           \A i \in Tunnels!Id : hub'[i] # hub[i] => Tunnels!Live(i)
               /\ hub'[i] \notin {"none", "open"},
           \A i \in Tunnels!Id : hub'[i] = "gone" /\ hub[i] # "gone" => i \in ids,
           \/ toHost' = toHost
           \/ \E c \in Tunnels!Connection :
                 /\ toHost[c] # <<>> /\ toHost' = [toHost EXCEPT ![c] = Tail(@)]
                 /\ \A i \in Tunnels!Id : hub'[i] = "open" => Head(toHost[c]).id # i,
           UNCHANGED <<link, ws, hubWs, on, far>>
    PROVE  TunnelInv'
<1>1. /\ Typed /\ AttachedOnce /\ OneAtATime /\ ws \in Tunnels!Connection \cup {Tunnels!None}
      /\ unsent \subseteq unsent' /\ unsent' \subseteq unsent \cup ids
      /\ toRunner' \in [Tunnels!Connection -> Seq(Ask)] /\ \A c \in Tunnels!Connection :
             toHost[c] \in Seq(Tunnels!Frame)
    BY TypedFacts DEF TunnelInv, More
<1>2. /\ \A c \in Tunnels!Connection : Fewer(c)
      /\ toHost' \in [Tunnels!Connection -> Seq(Tunnels!Frame)]
    <2>1. CASE toHost' = toHost
        BY <1>1, <2>1 DEF Fewer, Typed, Tunnels!TypeOK
    <2>2. ASSUME NEW c \in Tunnels!Connection, toHost[c] # <<>>,
              toHost' = [toHost EXCEPT ![c] = Tail(@)]
          PROVE  /\ \A d \in Tunnels!Connection : Fewer(d)
                 /\ toHost' \in [Tunnels!Connection -> Seq(Tunnels!Frame)]
      BY <1>1, <2>2, ReadFacts DEF Typed, Tunnels!TypeOK, Fewer
    <2> QED
        BY <2>1, <2>2
<1>3. Typed'
  BY <1>1, FrameFacts, SeqMonotonic, <1>2 DEF Typed, Tunnels!TypeOK
<1>4. AttachedOnce'
    BY <1>1, <1>2, HelloKeeps
<1>5. OneAtATime'
    BY <1>1 DEF OneAtATime
<1>6. Unopened' /\ OpenFirst' /\ EndsSent'
    BY AskKeeps
<1>7. EndsTold'
    <2>1. \A i \in Tunnels!Id : hub'[i] = "open" => hub[i] = "open" /\ on'[i] = on[i]
        OBVIOUS
    <2>2. ASSUME NEW i \in Tunnels!Id, hub'[i] = "open", NEW type \in {"END", "ERROR"},
              ws # Tunnels!None,
                 Tunnels!Underway(toHost[ws], type, i)
          PROVE  Tunnels!Underway(toHost'[ws], type, i)
        <3>1. ws \in Tunnels!Connection
            BY <1>1, <2>2
        <3>2. CASE toHost'[ws] = toHost[ws]
            BY <2>2, <3>2
        <3>3. CASE /\ toHost[ws] # <<>> /\ toHost'[ws] = Tail(toHost[ws])
                   /\ Head(toHost[ws]).id # i
            <4>1. PICK k \in 1..Len(toHost[ws]) : toHost[ws][k] = Tunnels!F(type, i)
                BY <2>2 DEF Tunnels!Underway
            <4>2. k # 1
                BY <1>1, <3>1, <3>3, <4>1, ReadFacts, FrameFacts
            <4>3. k \in 2..Len(toHost[ws])
                BY <1>1, <3>1, <4>1, <4>2, LenProperties
            <4>4. k - 1 \in 1..Len(toHost'[ws]) /\ toHost'[ws][k - 1] = toHost[ws][k]
                BY <1>1, <3>1, <3>3, <4>3, ReadFacts
            <4> QED
                BY <4>1, <4>4 DEF Tunnels!Underway
        <3>4. toHost \in [Tunnels!Connection -> Seq(Tunnels!Frame)]
            BY <1>1 DEF Typed, Tunnels!TypeOK
        <3> QED
            BY <2>2, <3>1, <3>2, <3>3, <3>4
    <2> QED
        BY <1>1, <2>1, <2>2, ToldKeeps
<1> QED
    BY <1>3, <1>4, <1>5, <1>6, <1>7 DEF TunnelInv

LEMMA FinishKeeps == TunnelBounded /\ TunnelInv /\ (\E i \in Tunnels!Id : Tunnels!Finish(i)) =>
          TunnelInv'
<1> SUFFICES ASSUME TunnelBounded, TunnelInv, NEW i \in Tunnels!Id,
        Tunnels!Finish(i) PROVE TunnelInv'
    OBVIOUS
<1>1. /\ Typed /\ Tunnels!Live(i) /\ Tunnels!HubSend("END", {i})
      /\ UNCHANGED <<link, ws, hubWs, toHost, hub, on, far>>
    BY DEF TunnelInv, Tunnels!Finish, Tunnels!Live
<1>2. More("END", {i}) /\ hub' \in [Tunnels!Id -> {"none", "open", "ended", "gone"}]
    BY <1>1, SendFacts DEF Typed, Tunnels!TypeOK
<1> QED
    BY <1>1, <1>2, HostKeeps

LEMMA DestroyKeeps == TunnelBounded /\ TunnelInv /\ (\E i \in Tunnels!Id : Tunnels!Destroy(i)) =>
          TunnelInv'
<1> SUFFICES ASSUME TunnelBounded, TunnelInv, NEW i \in Tunnels!Id,
        Tunnels!Destroy(i) PROVE TunnelInv'
    OBVIOUS
<1>1. /\ Typed /\ Tunnels!Live(i) /\ Tunnels!HubSend("END", {i})
          /\ hub' = [hub EXCEPT ![i] = "gone"]
      /\ UNCHANGED <<link, ws, hubWs, toHost, on, far>>
    BY DEF TunnelInv, Tunnels!Destroy, Tunnels!Destroyed
<1>2. More("END", {i})
    BY <1>1, SendFacts
<1>3. /\ hub' \in [Tunnels!Id -> {"none", "open", "ended", "gone"}] /\ hub'[i] = "gone"
      /\ \A j \in Tunnels!Id : j # i => hub'[j] = hub[j]
    BY <1>1 DEF Typed, Tunnels!TypeOK
<1>4. /\ \A j \in Tunnels!Id : hub'[j] # hub[j] => Tunnels!Live(j)
          /\ hub'[j] \notin {"none", "open"}
      /\ \A j \in Tunnels!Id : hub'[j] = "gone" /\ hub[j] # "gone" => j \in {i}
    BY <1>1, <1>3
<1> QED
    BY <1>1, <1>2, <1>3, <1>4, HostKeeps

LEMMA HostReadsKeeps == TunnelBounded /\ TunnelInv
          /\ (\E c \in Tunnels!Connection : Tunnels!HostReads(c)) => TunnelInv'
<1> SUFFICES ASSUME TunnelBounded, TunnelInv, NEW c \in Tunnels!Connection,
        Tunnels!HostReads(c) PROVE TunnelInv'
    OBVIOUS
<1>1. /\ Typed /\ toHost[c] # <<>> /\ Head(toHost[c]).type # "hello"
      /\ toHost' = [toHost EXCEPT ![c] = Tail(@)]
      /\ UNCHANGED <<link, ws, hubWs, on, far>>
    BY DEF TunnelInv, Tunnels!HostReads
<1>2. PICK f : f = Head(toHost[c])
    OBVIOUS
<1>3. f.id \in Tunnels!Id
    BY <1>1, <1>2, TypedFacts, ReadFacts, FrameFacts
<1>4. hub \in [Tunnels!Id -> {"none", "open", "ended", "gone"}]
    BY <1>1 DEF Typed, Tunnels!TypeOK
<1>5. CASE hub[f.id] # "open"
    <2>1. UNCHANGED <<hub, toRunner, unsent>>
        BY <1>2, <1>5 DEF Tunnels!HostReads
    <2>2. More("END", {})
        BY <1>1, <2>1, NothingMore
    <2>3. \A i \in Tunnels!Id : hub'[i] = "open" => Head(toHost[c]).id # i
        BY <1>2, <1>5, <2>1
    <2>4. /\ hub' \in [Tunnels!Id -> {"none", "open", "ended", "gone"}]
          /\ \A i \in Tunnels!Id : hub'[i] # hub[i] => Tunnels!Live(i)
                 /\ hub'[i] \notin {"none", "open"}
          /\ \A i \in Tunnels!Id : hub'[i] = "gone" /\ hub[i] # "gone" => i \in {}
        BY <1>4, <2>1
    <2>5. {} \in SUBSET Tunnels!Id /\ \A i \in {} : Tunnels!Live(i)
        OBVIOUS
    <2> QED
        BY <1>1, <2>2, <2>3, <2>4, <2>5, HostKeeps
<1>6. CASE hub[f.id] = "open" /\ f.type = "END"
    <2>1. hub' = [hub EXCEPT ![f.id] = "ended"] /\ UNCHANGED <<toRunner, unsent>>
        BY <1>2, <1>6 DEF Tunnels!HostReads
    <2>2. More("END", {})
        BY <1>1, <2>1, NothingMore
    <2>3. /\ hub' \in [Tunnels!Id -> {"none", "open", "ended", "gone"}] /\ hub'[f.id] = "ended"
          /\ \A j \in Tunnels!Id : j # f.id => hub'[j] = hub[j]
        BY <1>3, <1>4, <2>1
    <2>4. /\ \A j \in Tunnels!Id : hub'[j] # hub[j] => Tunnels!Live(j)
              /\ hub'[j] \notin {"none", "open"}
          /\ \A j \in Tunnels!Id : hub'[j] = "gone" /\ hub[j] # "gone" => j \in {}
          /\ \A j \in Tunnels!Id : hub'[j] = "open" => Head(toHost[c]).id # j
        BY <1>2, <1>6, <2>3 DEF Tunnels!Live
    <2>5. {} \in SUBSET Tunnels!Id /\ \A i \in {} : Tunnels!Live(i)
        OBVIOUS
    <2> QED
        BY <1>1, <2>2, <2>3, <2>4, <2>5, HostKeeps
<1>7. CASE hub[f.id] = "open" /\ f.type # "END"
    <2>1. hub' = [hub EXCEPT ![f.id] = "gone"] /\ Tunnels!HubSend("END", {f.id})
        BY <1>2, <1>7 DEF Tunnels!HostReads, Tunnels!Destroyed
    <2>2. More("END", {f.id})
        BY <1>1, <1>3, <2>1, SendFacts
    <2>3. /\ hub' \in [Tunnels!Id -> {"none", "open", "ended", "gone"}] /\ hub'[f.id] = "gone"
          /\ \A j \in Tunnels!Id : j # f.id => hub'[j] = hub[j]
        BY <1>3, <1>4, <2>1
    <2>4. /\ \A j \in Tunnels!Id : hub'[j] # hub[j] => Tunnels!Live(j)
              /\ hub'[j] \notin {"none", "open"}
          /\ \A j \in Tunnels!Id : hub'[j] = "gone" /\ hub[j] # "gone" => j \in {f.id}
          /\ \A j \in Tunnels!Id : hub'[j] = "open" => Head(toHost[c]).id # j
          /\ Tunnels!Live(f.id)
        BY <1>2, <1>7, <2>3 DEF Tunnels!Live
    <2> QED
        BY <1>1, <1>3, <2>2, <2>3, <2>4, HostKeeps
<1> QED
    BY <1>5, <1>6, <1>7

\* sendFrame.
LEMMA RunnerSendFacts ==
    ASSUME TunnelBounded, Typed, NEW i \in Tunnels!Id, NEW type \in {"END", "ERROR"},
               Tunnels!RunnerSend(type, i)
    PROVE  /\ toHost' \in [Tunnels!Connection -> Seq(Tunnels!Frame)]
               /\ \A c \in Tunnels!Connection : Fewer(c)
           /\ ws # Tunnels!None => \A j \in Tunnels!Id, other \in {"END", "ERROR"} :
                 Tunnels!Underway(toHost[ws], other, j) => Tunnels!Underway(toHost'[ws], other, j)
           /\ ws # Tunnels!None /\ link[ws] = "open" => Tunnels!Underway(toHost'[ws], type, i)
<1>1. /\ Tunnels!F(type, i) \in Tunnels!Frame
          /\ toHost \in [Tunnels!Connection -> Seq(Tunnels!Frame)]
      /\ ws \in Tunnels!Connection \cup {Tunnels!None} /\ Tunnels!None \notin Tunnels!Connection
    BY FrameFacts, TypedFacts DEF Typed, Tunnels!TypeOK
<1>2. CASE ~(ws # Tunnels!None /\ link[ws] = "open")
  BY <1>2, <1>1 DEF Tunnels!RunnerSend, Fewer
<1>3. CASE ws # Tunnels!None /\ link[ws] = "open"
    <2>1. /\ ws \in Tunnels!Connection
          /\ toHost' = [toHost EXCEPT ![ws] = Append(@, Tunnels!F(type, i))]
        BY <1>1, <1>3 DEF Tunnels!RunnerSend
    <2>2. /\ Append(toHost[ws], Tunnels!F(type, i)) \in Seq(Tunnels!Frame)
          /\ Len(Append(toHost[ws], Tunnels!F(type, i))) = Len(toHost[ws]) + 1
          /\ Append(toHost[ws], Tunnels!F(type, i))[Len(toHost[ws]) + 1] = Tunnels!F(type, i)
          /\ \A k \in 1..Len(toHost[ws]) :
                 Append(toHost[ws], Tunnels!F(type, i))[k] = toHost[ws][k]
          /\ Len(toHost[ws]) \in Nat
        BY <1>1, <2>1, AppendProperties, LenProperties
    <2>3. /\ toHost'[ws] = Append(toHost[ws], Tunnels!F(type, i))
          /\ \A c \in Tunnels!Connection : c # ws => toHost'[c] = toHost[c]
          /\ toHost' \in [Tunnels!Connection -> Seq(Tunnels!Frame)]
        BY <1>1, <2>1, <2>2
    <2>4. \A c \in Tunnels!Connection : Fewer(c)
        BY <1>3, <2>3 DEF Fewer
    <2>5. Tunnels!Underway(toHost'[ws], type, i)
      BY <2>2, <2>3 DEF Tunnels!Underway
    <2>6. \A k \in 1..Len(toHost[ws]) : k \in 1..Len(toHost'[ws])
              /\ toHost'[ws][k] = toHost[ws][k]
        BY <2>2, <2>3
    <2>7. \A j \in Tunnels!Id, other \in {"END", "ERROR"} :
              Tunnels!Underway(toHost[ws], other, j) => Tunnels!Underway(toHost'[ws], other, j)
        BY <2>6 DEF Tunnels!Underway
    <2> QED
        BY <1>1, <2>3, <2>4, <2>5, <2>7
<1> QED
    BY <1>2, <1>3

LEMMA TargetEndsKeeps == TunnelBounded /\ TunnelInv
          /\ (\E i \in Tunnels!Id : Tunnels!TargetEnds(i)) => TunnelInv'
<1> SUFFICES ASSUME TunnelBounded, TunnelInv, NEW i \in Tunnels!Id,
        Tunnels!TargetEnds(i) PROVE TunnelInv'
    OBVIOUS
<1>1. /\ Typed /\ AttachedOnce /\ OneAtATime /\ Unopened /\ OpenFirst /\ EndsTold /\ EndsSent
      /\ far[i] \in {"open", "finished"} /\ far' = [far EXCEPT ![i] = "gone"]
      /\ UNCHANGED <<link, ws, hubWs, toRunner, hub, on, unsent>>
    BY DEF TunnelInv, Tunnels!TargetEnds, Tunnels!FarOpen
<1>2. PICK type \in {"END", "ERROR"} : Tunnels!RunnerSend(type, i)
    BY DEF Tunnels!TargetEnds
<1>3. /\ far' \in [Tunnels!Id -> {"none", "open", "finished", "gone"}] /\ far'[i] = "gone"
      /\ \A j \in Tunnels!Id : j # i => far'[j] = far[j]
    BY <1>1 DEF Typed, Tunnels!TypeOK
<1>4. Typed'
    BY <1>1, <1>2, <1>3, RunnerSendFacts DEF Typed, Tunnels!TypeOK
<1>5. AttachedOnce'
    BY <1>1, <1>2, RunnerSendFacts, HelloKeeps
<1>6. OneAtATime'
    BY <1>1 DEF OneAtATime
<1>7. Unopened'
    BY <1>1, <1>3 DEF Unopened
<1>8. OpenFirst'
  BY <1>1, <1>3 DEF OpenFirst, Shared, Introduced
<1>9. EndsTold'
    <2> SUFFICES ASSUME NEW j \in Tunnels!Id, Shared(j)', hubWs = ws, hub[j] = "open",
            far'[j] = "gone"
                 PROVE  Tunnels!Underway(toHost'[ws], "END", j)
                            \/ Tunnels!Underway(toHost'[ws], "ERROR", j)
        BY <1>1 DEF EndsTold, Tunnels!Underway, Tunnels!F
    <2>1. Shared(j) /\ ws # Tunnels!None /\ link[ws] = "open"
        BY <1>1 DEF Shared
    <2>2. CASE j = i
        BY <1>1, <1>2, <2>1, <2>2, RunnerSendFacts
    <2>3. CASE j # i
      BY <1>1, <1>3, <2>1, <2>3, <1>2, RunnerSendFacts DEF EndsTold
    <2> QED
        BY <2>2, <2>3
<1>10. EndsSent'
  BY <1>1, <1>3 DEF EndsSent, Tunnels!Underway, Tunnels!F, Shared
<1> QED
    BY <1>4, <1>5, <1>6, <1>7, <1>8, <1>9, <1>10 DEF TunnelInv


\* The runner reads one frame: what is left is about the streams as they are then.
LEMMA ReadingKeeps ==
    ASSUME NEW s \in Seq(Ask), s # <<>>, TunnelBounded, NEW i \in Tunnels!Id, NEW state,
               NEW after,
           Introduced(s, state, i),
           Head(s).id # i => after = state,
           Head(s) = Tunnels!F("OPEN", i) => after # "none",
           Head(s) = Tunnels!F("END", i) /\ state # "none" => after # "none"
    PROVE  /\ Introduced(Tail(s), after, i)
           /\ Head(s) = Tunnels!F("OPEN", i) => state = "none"
           /\ Head(s) = Tunnels!F("END", i) => state # "none"
           /\ Tunnels!Underway(s, "END", i) /\ Head(s) # Tunnels!F("END", i) =>
                  Tunnels!Underway(Tail(s), "END", i)
<1>1. /\ Len(s) \in Nat /\ Len(s) >= 1 /\ Head(s) = s[1] /\ Head(s) \in Ask
      /\ \A k \in 1..Len(Tail(s)) : k + 1 \in 2..Len(s) /\ k + 1 \in 1..Len(s)
             /\ Tail(s)[k] = s[k + 1]
      /\ \A k \in 2..Len(s) : k - 1 \in 1..Len(Tail(s)) /\ Tail(s)[k - 1] = s[k]
      /\ 1 \in 1..Len(s)
    BY ReadFacts
<1>2. \/ Head(s).id # i
      \/ Head(s).id = i /\ Head(s) = Tunnels!F("OPEN", i)
      \/ Head(s).id = i /\ Head(s) = Tunnels!F("END", i)
    BY <1>1, FrameFacts
<1>3. Tunnels!F("OPEN", i) # Tunnels!F("END", i) /\ Tunnels!F("OPEN", i).id = i
          /\ Tunnels!F("END", i).id = i
    BY DEF Tunnels!F
<1>4. Tunnels!Underway(s, "END", i) /\ Head(s) # Tunnels!F("END", i) =>
          Tunnels!Underway(Tail(s), "END", i)
  BY <1>1 DEF Tunnels!Underway
<1>5. CASE state # "none"
  BY <1>5, <1>1, <1>2, <1>4 DEF Introduced
<1>6. CASE state = "none"
    <2>1. PICK k \in 1..Len(s) :
             /\ s[k] = Tunnels!F("OPEN", i)
             /\ \A m \in 1..Len(s) : s[m].id = i /\ m # k => m > k /\ s[m] = Tunnels!F("END", i)
        BY <1>6 DEF Introduced
    <2>2. Head(s) # Tunnels!F("END", i)
        BY <1>1, <1>3, <2>1
    <2>3. CASE Head(s) = Tunnels!F("OPEN", i)
        <3>1. k = 1
            BY <1>1, <1>3, <2>1, <2>3
        <3>2. \A m \in 1..Len(Tail(s)) : Tail(s)[m] # Tunnels!F("OPEN", i)
          BY <1>1, <3>1, <1>3, <2>1
        <3> QED
            BY <1>4, <1>6, <2>2, <2>3, <3>2 DEF Introduced
    <2>4. CASE Head(s).id # i
        <3>1. k # 1
            BY <1>1, <1>3, <2>1, <2>4
        <3>2. k \in 2..Len(s) /\ after = "none" /\ k \in Nat
            BY <1>1, <1>6, <2>4, <3>1
        <3>3. k - 1 \in 1..Len(Tail(s)) /\ Tail(s)[k - 1] = Tunnels!F("OPEN", i)
            BY <1>1, <2>1, <3>2
        <3>4. \A m \in 1..Len(Tail(s)) :
                 Tail(s)[m].id = i /\ m # k - 1 => m > k - 1 /\ Tail(s)[m] = Tunnels!F("END", i)
          BY <1>1, <3>2, <2>1
        <3> QED
            BY <1>3, <1>4, <1>6, <2>2, <2>4, <3>2, <3>3, <3>4 DEF Introduced
    <2> QED
        BY <1>2, <2>2, <2>3, <2>4
<1> QED
    BY <1>5, <1>6

LEMMA RunnerReadsKeeps == TunnelBounded /\ TunnelInv /\ Tunnels!RunnerReads => TunnelInv'
<1> SUFFICES ASSUME TunnelBounded, TunnelInv, Tunnels!RunnerReads PROVE TunnelInv'
    OBVIOUS
<1>1. /\ Typed /\ AttachedOnce /\ OneAtATime /\ Unopened /\ OpenFirst /\ EndsTold /\ EndsSent
      /\ ws # Tunnels!None /\ ws \in Tunnels!Connection /\ toRunner[ws] # <<>>
      /\ toRunner' = [toRunner EXCEPT ![ws] = Tail(@)]
      /\ UNCHANGED <<link, ws, hubWs, hub, on, unsent>>
    BY TypedFacts DEF TunnelInv, Tunnels!RunnerReads
<1>2. PICK f : f = Head(toRunner[ws])
    OBVIOUS
<1>3. PICK s : s = toRunner[ws]
    OBVIOUS
<1>4. /\ s \in Seq(Ask) /\ s # <<>> /\ f = Head(s) /\ f \in Ask /\ f.id \in Tunnels!Id
      /\ f.type \in {"OPEN", "END"} /\ f = Tunnels!F(f.type, f.id) /\ f = s[1] /\ 1 \in 1..Len(s)
      /\ Tail(s) \in Seq(Ask)
      /\ \A k \in 1..Len(Tail(s)) : k + 1 \in 1..Len(s) /\ Tail(s)[k] = s[k + 1]
  BY <1>1, <1>2, <1>3, TypedFacts, ReadFacts, FrameFacts
<1>5. toRunner'[ws] = Tail(s) /\ \A c \in Tunnels!Connection : c # ws =>
          toRunner'[c] = toRunner[c]
    BY <1>1, <1>3 DEF Typed, Tunnels!TypeOK
<1>6. far \in [Tunnels!Id -> {"none", "open", "finished", "gone"}]
    BY <1>1 DEF Typed, Tunnels!TypeOK
<1>7. /\ far' \in [Tunnels!Id -> {"none", "open", "finished", "gone"}]
      /\ \A j \in Tunnels!Id : j # f.id => far'[j] = far[j]
      /\ f.type = "END" => /\ toHost' = toHost
                           /\ far'[f.id] = IF far[f.id] = "open" THEN "finished" ELSE far[f.id]
      /\ f.type = "OPEN" => \/ far'[f.id] = "gone" /\ Tunnels!RunnerSend("ERROR", f.id)
                            \/ far'[f.id] = "open" /\ toHost' = toHost
    <2>1. CASE f.type = "END"
      BY <1>2, <2>1, <1>4, <1>6 DEF Tunnels!RunnerReads
    <2>2. CASE f.type # "END"
      BY <1>2, <2>2, <1>4, <1>6 DEF Tunnels!RunnerReads
    <2> QED
        BY <2>1, <2>2
<1>8. toHost' = toHost
        \/ (f.type = "OPEN" /\ far'[f.id] = "gone" /\ Tunnels!RunnerSend("ERROR", f.id))
    BY <1>4, <1>7
<1>9. /\ toHost' \in [Tunnels!Connection -> Seq(Tunnels!Frame)] /\ \A c \in Tunnels!Connection :
          Fewer(c)
      /\ \A j \in Tunnels!Id, type \in {"END", "ERROR"} :
            Tunnels!Underway(toHost[ws], type, j) => Tunnels!Underway(toHost'[ws], type, j)
  BY <1>1, <1>4, RunnerSendFacts, <1>8 DEF Fewer, Typed, Tunnels!TypeOK
<1>10. Typed'
  BY <1>4, FrameFacts, SeqMonotonic, <1>1, <1>3, <1>7, <1>9 DEF Typed, Tunnels!TypeOK
<1>11. AttachedOnce'
    BY <1>1, <1>9, HelloKeeps
<1>12. OneAtATime'
    BY <1>1 DEF OneAtATime
<1>13. Unopened'
    <2> SUFFICES ASSUME NEW j \in Tunnels!Id
                 PROVE  /\ hub[j] = "none" => on[j] = Tunnels!None
                        /\ on[j] = Tunnels!None =>
                             /\ hub[j] = "none" /\ far'[j] = "none"
                             /\ \A c \in Tunnels!Connection : \A k \in 1..Len(toRunner'[c]) :
                                    toRunner'[c][k].id # j
        BY <1>1 DEF Unopened
    <2>1. /\ hub[j] = "none" => on[j] = Tunnels!None
          /\ on[j] = Tunnels!None => /\ hub[j] = "none" /\ far[j] = "none"
                             /\ \A c \in Tunnels!Connection : \A k \in 1..Len(toRunner[c]) :
                                    toRunner[c][k].id # j
        BY <1>1 DEF Unopened
    <2>2. on[j] = Tunnels!None => j # f.id
        BY <1>1, <1>3, <1>4, <2>1
    <2>3. ASSUME on[j] = Tunnels!None, NEW c \in Tunnels!Connection,
              NEW k \in 1..Len(toRunner'[c])
          PROVE  toRunner'[c][k].id # j
      BY <1>1, <1>3, <1>4, <1>5, <2>1, <2>3
    <2> QED
        BY <1>7, <2>1, <2>2, <2>3
<1>14. ASSUME NEW j \in Tunnels!Id, Shared(j)
       PROVE  /\ Introduced(Tail(s), far'[j], j)
              /\ f = Tunnels!F("OPEN", j) => far[j] = "none"
              /\ f = Tunnels!F("END", j) => far[j] # "none"
              /\ Tunnels!Underway(s, "END", j) /\ f # Tunnels!F("END", j) =>
                     Tunnels!Underway(Tail(s), "END", j)
    <2>1. Introduced(s, far[j], j)
        BY <1>1, <1>3, <1>14 DEF OpenFirst
    <2>2. f = Tunnels!F("OPEN", j) => f.id = j /\ f.type = "OPEN"
        BY FrameFacts
    <2>3. f = Tunnels!F("END", j) => f.id = j /\ f.type = "END"
        BY FrameFacts
    <2>4. /\ f.id # j => far'[j] = far[j]
          /\ f = Tunnels!F("OPEN", j) => far'[j] # "none"
          /\ f = Tunnels!F("END", j) /\ far[j] # "none" => far'[j] # "none"
        BY <1>7, <2>2, <2>3
    <2> QED
        BY <1>4, <2>1, <2>4, ReadingKeeps
<1>15. OpenFirst'
  BY <1>1, <1>5, <1>14 DEF OpenFirst, Shared
<1>16. EndsTold'
    <2> SUFFICES ASSUME NEW j \in Tunnels!Id, Shared(j)', hubWs = ws, hub[j] = "open",
            far'[j] = "gone"
                 PROVE  Tunnels!Underway(toHost'[ws], "END", j)
                            \/ Tunnels!Underway(toHost'[ws], "ERROR", j)
        BY <1>1 DEF EndsTold, Tunnels!Underway, Tunnels!F
    <2>1. Shared(j) /\ link[ws] = "open"
        BY <1>1 DEF Shared
    <2>2. CASE far[j] = "gone"
      BY <1>1, <2>1, <2>2, <1>9 DEF EndsTold
    <2>3. CASE far[j] # "gone"
      BY <1>4, <1>7, <2>3, <1>1, <2>1, RunnerSendFacts
    <2> QED
        BY <2>2, <2>3
<1>17. EndsSent'
    <2> SUFFICES ASSUME NEW j \in Tunnels!Id, Shared(j)', hubWs = ws, hub[j] = "gone",
            far'[j] \in {"none", "open"}
                 PROVE  Tunnels!Underway(toRunner'[ws], "END", j)
        BY <1>1 DEF EndsSent, Tunnels!Underway, Tunnels!F
    <2>1. Shared(j)
        BY <1>1 DEF Shared
    <2>2. f # Tunnels!F("END", j)
      BY FrameFacts, <1>14, <2>1, <1>7
    <2>3. far[j] \in {"none", "open"}
        <3>1. CASE f.id # j
            BY <1>7, <3>1
        <3>2. CASE f.id = j
          BY <1>4, <2>2, <3>2, <1>14, <2>1
        <3> QED
            BY <3>1, <3>2
    <2>4. Tunnels!Underway(s, "END", j)
        BY <1>1, <1>3, <2>1, <2>3 DEF EndsSent
    <2> QED
        BY <1>5, <1>14, <2>1, <2>2, <2>4
<1> QED
    BY <1>10, <1>11, <1>12, <1>13, <1>15, <1>16, <1>17 DEF TunnelInv

LEMMA TunnelInit == TunnelBounded /\ Tunnels!Init => TunnelInv
<1> SUFFICES ASSUME TunnelBounded, Tunnels!Init PROVE TunnelInv
    OBVIOUS
<1>1. <<>> \in Seq(Ask) /\ <<>> \in Seq(Tunnels!Frame)
    OBVIOUS
<1>2. Typed
    BY <1>1 DEF Tunnels!Init, Typed, Tunnels!TypeOK
<1>3. AttachedOnce /\ OneAtATime /\ Unopened
    BY FrameFacts DEF Tunnels!Init, AttachedOnce, OneAtATime, Unopened
<1>4. OpenFirst /\ EndsTold /\ EndsSent
    BY DEF Tunnels!Init, OpenFirst, EndsTold, EndsSent, Shared
<1> QED
    BY <1>2, <1>3, <1>4 DEF TunnelInv

LEMMA TunnelStep == TunnelBounded /\ TunnelInv /\ [Tunnels!Next]_Tunnels!vars => TunnelInv'
<1> SUFFICES ASSUME TunnelBounded, TunnelInv, [Tunnels!Next]_Tunnels!vars PROVE TunnelInv'
    OBVIOUS
<1>1. CASE UNCHANGED Tunnels!vars
    <2>1. UNCHANGED <<link, ws, hubWs, toHost, toRunner, hub, on, far, unsent>>
        BY <1>1 DEF Tunnels!vars
    <2>2. Typed' /\ AttachedOnce' /\ OneAtATime' /\ Unopened'
        <3>1. Typed'
            BY <2>1 DEF TunnelInv, Typed, Tunnels!TypeOK
        <3>2. AttachedOnce' /\ OneAtATime'
            BY <2>1 DEF TunnelInv, AttachedOnce, Greeted, OneAtATime
        <3> QED
            BY <2>1, <3>1, <3>2 DEF TunnelInv, Unopened
    <2>3. OpenFirst' /\ EndsTold' /\ EndsSent'
        BY <2>1 DEF TunnelInv, OpenFirst, EndsTold, EndsSent, Shared
    <2> QED
        BY <2>2, <2>3 DEF TunnelInv
<1>2. CASE \E c \in Tunnels!Connection : Tunnels!Connect(c) \/ Tunnels!HostLoses(c)
          \/ Tunnels!Attach(c) \/ Tunnels!HostReads(c)
    BY <1>2, ConnectKeeps, HostLosesKeeps, AttachKeeps, HostReadsKeeps
<1>3. CASE \E i \in Tunnels!Id : Tunnels!OpenStream(i) \/ Tunnels!Finish(i)
          \/ Tunnels!Destroy(i) \/ Tunnels!TargetEnds(i)
    BY <1>3, OpenStreamKeeps, FinishKeeps, DestroyKeeps, TargetEndsKeeps
<1>4. CASE Tunnels!RunnerLoses \/ Tunnels!RunnerReads
    BY <1>4, RunnerLosesKeeps, RunnerReadsKeeps
<1> QED
    BY <1>1, <1>2, <1>3, <1>4 DEF Tunnels!Next

LEMMA TunnelKept == TunnelInv => Tunnels!EndsAgree
BY DEF TunnelInv, EndsTold, EndsSent, Tunnels!EndsAgree, Shared

-----------------------------------------------------------------------------
(* The types of the commands that install and control the service.         *)

Step == {"none", "fetch", "check", "ask", "download", "tools", "config", "written", "load",
         "release", "unit", "enable", "bootstrap", "restart", "remove", "save", "saved", "done",
         "failed"}
Record == [kind : Service!Kind \cup {"none"}, config : Service!Config, at : Step]

\* The types of what a command may have changed.
Changed ==
    /\ serviceCommands' \in [Service!Command -> Record]
    /\ config' \in Service!Config /\ current' \in 0..MaxSetups
    /\ unit' \in BOOLEAN /\ enabled' \in BOOLEAN
    /\ service' \in [at : {"down", "starting", "up"}, release : 0..MaxSetups]

LEMMA GoesTyped ==
    ASSUME Service!TypeOK, NEW c, NEW at \in Step, c \in Service!Command, Service!Goes(c, at)
    PROVE  serviceCommands' \in [Service!Command -> Record]
BY DEF Service!TypeOK, Service!Goes, Record, Step

LEMMA ServiceInit == Service!Init => Service!TypeOK
<1> SUFFICES ASSUME Service!Init PROVE Service!TypeOK
    OBVIOUS
<1>1. Service!NoConfig \in Service!Config
          /\ Service!Down \in [at : {"down", "starting", "up"}, release : 0..MaxSetups]
    BY MCRunnerAssumption DEF Service!NoConfig, Service!Config, Service!Down
<1>2. Service!NoCommand \in Record
    BY <1>1 DEF Service!NoCommand, Record, Step
<1>3. serviceCommands \in [Service!Command -> Record]
    BY <1>2 DEF Service!Init
<1>4. token \in {"none", "valid", "lost", "expired"} /\ manager \in {"systemd", "launchd"}
    BY DEF Service!Init
<1>5. current \in 0..MaxSetups /\ troubles \in 0..MaxTroubles /\ overlapped \in BOOLEAN
    <2>1. 0 \in 0..MaxSetups /\ 0 \in 0..MaxTroubles
        BY MCRunnerAssumption
    <2>2. current = 0 /\ troubles = 0 /\ overlapped = FALSE
        BY DEF Service!Init
    <2> QED
        BY <2>1, <2>2
<1>6. config \in Service!Config /\ unit \in BOOLEAN /\ enabled \in BOOLEAN
      /\ service \in [at : {"down", "starting", "up"}, release : 0..MaxSetups]
    BY <1>1 DEF Service!Init
<1> QED
    BY <1>3, <1>4, <1>5, <1>6 DEF Service!TypeOK, Record, Step

LEMMA WorksTyped ==
    ASSUME Service!TypeOK, NEW c \in Service!Command, Service!Works(c)
    PROVE  Service!TypeOK'
<1>1. /\ serviceCommands \in [Service!Command -> Record] /\ config \in Service!Config
      /\ serviceCommands[c] \in Record /\ serviceCommands[c].config \in Service!Config
      /\ current \in 0..MaxSetups /\ c \in 0..MaxSetups /\ 0 \in 0..MaxSetups
      /\ unit \in BOOLEAN /\ enabled \in BOOLEAN
      /\ service \in [at : {"down", "starting", "up"}, release : 0..MaxSetups]
    BY MCRunnerAssumption DEF Service!TypeOK, Record, Step, Service!Command
<1>2. SUFFICES Changed /\ UNCHANGED <<token, manager, overlapped, troubles>>
    BY <1>2 DEF Changed, Service!TypeOK, Record, Step
<1>3. UNCHANGED <<token, manager, overlapped, troubles>>
    BY DEF Service!Works, Service!Fetch, Service!CheckScript, Service!CheckSetup,
           Service!Download,
        Service!Tools, Service!Ask, Service!WriteConfig, Service!ScriptWrote, Service!SetupWrote,
        Service!Load, Service!Release, Service!WriteUnit, Service!Enable, Service!Bootout,
        Service!BootstrapService, Service!Restart, Service!Remove, Service!Save, Service!Saved,
        Service!Kept
<1>4. CASE Service!Fetch(c) \/ Service!CheckScript(c) \/ Service!CheckSetup(c)
           \/ Service!Download(c) \/ Service!Tools(c)
    BY <1>1, <1>4, GoesTyped DEF Changed, Service!Fetch, Service!CheckScript, Service!CheckSetup,
        Service!Download, Service!Tools, Service!Kept, Step
<1>5. CASE Service!Ask(c)
    <2>1. PICK autostart \in BOOLEAN :
            serviceCommands' = [serviceCommands EXCEPT ![c].at = "config",
                ![c].config = [at |-> "whole", machine |-> c, autostart |-> autostart]]
        BY <1>5 DEF Service!Ask
    <2>2. [at |-> "whole", machine |-> c, autostart |-> autostart] \in Service!Config
        BY <1>1 DEF Service!Config
    <2>3. serviceCommands' \in [Service!Command -> Record]
        BY <1>1, <2>1, <2>2 DEF Record, Step
    <2> QED
        BY <1>1, <1>5, <2>3 DEF Changed, Service!Ask, Service!Kept
<1>6. CASE Service!WriteConfig(c) \/ Service!ScriptWrote(c) \/ Service!SetupWrote(c)
           \/ Service!Saved(c)
    <2>1. config' \in Service!Config
        <3>1. CASE Service!WriteConfig(c)
            BY <1>1, <3>1 DEF Service!WriteConfig, Service!Config
        <3>2. CASE Service!ScriptWrote(c) \/ Service!SetupWrote(c)
            <4>1. [at |-> "whole", machine |-> c, autostart |-> FALSE] \in Service!Config
                BY <1>1 DEF Service!Config
            <4> QED
                BY <1>1, <3>2, <4>1 DEF Service!ScriptWrote, Service!SetupWrote
        <3>3. CASE Service!Saved(c)
          BY <3>3, <1>1 DEF Service!Saved, Service!Config
        <3> QED
            BY <1>6, <3>1, <3>2, <3>3
    <2> QED
        BY <1>1, <1>6, <2>1, GoesTyped DEF Changed, Service!WriteConfig, Service!ScriptWrote,
            Service!SetupWrote, Service!Saved, Step
<1>7. CASE Service!Load(c)
    <2>1. serviceCommands' \in [Service!Command -> Record]
      BY GoesTyped, <1>1, <1>7 DEF Step, Service!Load, Record
    <2> QED
        BY <1>1, <1>7, <2>1 DEF Changed, Service!Load, Service!Kept
<1>8. CASE Service!Release(c) \/ Service!WriteUnit(c)
    BY <1>1, <1>8, GoesTyped DEF Changed, Service!Release, Service!WriteUnit, Step
<1>9. CASE Service!Enable(c) \/ Service!Bootout(c) \/ Service!BootstrapService(c)
           \/ Service!Restart(c) \/ Service!Remove(c)
    <2>1. service' \in [at : {"down", "starting", "up"}, release : 0..MaxSetups]
        BY <1>1, <1>9 DEF Service!Enable, Service!Bootout, Service!BootstrapService,
            Service!Restart, Service!Remove, Service!Down
    <2>2. serviceCommands' \in [Service!Command -> Record]
        BY <1>9, GoesTyped DEF Service!Enable, Service!Bootout, Service!BootstrapService,
            Service!Restart, Service!Remove, Step
    <2> QED
        BY <1>1, <1>9, <2>1, <2>2 DEF Changed, Service!Enable, Service!Bootout,
            Service!BootstrapService, Service!Restart, Service!Remove
<1>10. CASE Service!Save(c)
    BY <1>1, <1>10, GoesTyped DEF Changed, Service!Save, Service!Config, Step
<1> QED
    BY <1>3, <1>4, <1>5, <1>6, <1>7, <1>8, <1>9, <1>10 DEF Service!Works

LEMMA ServiceStep == Service!TypeOK /\ [Service!Next]_Service!vars => Service!TypeOK'
<1> SUFFICES ASSUME Service!TypeOK, [Service!Next]_Service!vars PROVE Service!TypeOK'
    OBVIOUS
<1>1. CASE UNCHANGED Service!vars
    BY <1>1 DEF Service!TypeOK, Service!vars
<1>2. CASE Service!Bootstrap \/ Service!Expire \/ Service!RestartHost
    BY <1>2 DEF Service!Bootstrap, Service!Expire, Service!RestartHost, Service!TypeOK
<1>3. CASE Service!Start
  BY <1>3 DEF Service!Start, Service!TypeOK
<1>4. CASE \E c \in Service!Command : \E kind \in Service!Kind : Service!Give(c, kind)
  BY <1>4, MCRunnerAssumption DEF Service!NoConfig, Service!Config, Service!Give, Step,
     Service!TypeOK, Record
<1>5. CASE \E c \in Service!Command : Service!Trouble(c)
  BY <1>5, GoesTyped, MCRunnerAssumption DEF Service!Trouble, Step, Service!TypeOK, Record
<1>6. CASE \E c \in Service!Command : Service!Works(c)
    BY <1>6, WorksTyped
<1> QED
    BY <1>1, <1>2, <1>3, <1>4, <1>5, <1>6 DEF Service!Next

-----------------------------------------------------------------------------
(* What the runs check, for every value of the bounds.                     *)

\* The active turn of the session is one that Codex works on or whose end is
\* underway, a turn ends for a cause, and its boundaries are reported once
\* (CodexAppServerSession, #onNotification, cancel).
THEOREM RunnerTurnIsWhole == Spec => []TurnIsWhole
<1>1. TurnProofs!TurnAgrees => Turns!TurnAgrees
  BY Zenon DEF
    Turns!TurnAgrees, TurnProofs!TurnAgrees, Turns!Shows, TurnProofs!Shows, Turns!Is,
    TurnProofs!Is, Turns!Turn, TurnProofs!Turn, Turns!Exited, TurnProofs!Exited
<1>2. TurnProofs!EndsForCause => Turns!EndsForCause
  BY Zenon DEF
    Turns!EndsForCause, TurnProofs!EndsForCause, Turns!Ends, TurnProofs!Ends, Turns!Is,
    TurnProofs!Is, Turns!Turn, TurnProofs!Turn
<1>3. TurnProofs!BoundaryOnce => Turns!BoundaryOnce
  BY Zenon DEF
    Turns!BoundaryOnce, TurnProofs!BoundaryOnce, Turns!Is, TurnProofs!Is, Turns!Turn,
    TurnProofs!Turn
<1> QED
  BY Bounds, TurnsRun, TurnProofs!TurnsAgree, TurnProofs!TurnsEndForCause,
         TurnProofs!BoundariesOnce,
    <1>1, <1>2, <1>3, PTL DEF TurnIsWhole

\* Output is reported once, in order, within its turn, and all of it
\* (CodexAppServerSession, #flushOutputBuffer, #onNotification).
THEOREM RunnerOutputKept == Spec => []OutputKept
<1>1. TurnProofs!OutputInTurn => Turns!OutputInTurn
  BY Zenon DEF
    Turns!OutputInTurn, TurnProofs!OutputInTurn, Turns!Event, TurnProofs!Event,
    Turns!Is, TurnProofs!Is
<1>2. TurnProofs!OutputComplete => Turns!OutputComplete
  BY Zenon DEF
    Turns!OutputComplete, TurnProofs!OutputComplete, Turns!Event, TurnProofs!Event,
    Turns!Turn, TurnProofs!Turn
<1> QED
  BY Bounds, TurnsRun, TurnProofs!OutputIsInTurn, TurnProofs!OutputIsComplete,
    <1>1, <1>2, PTL DEF OutputKept

\* What the session manager keeps whatever the host sends, Codex answers and ends: a
\* command that goes on finds in the map what it has put there or is to take out, where
\* none met another (RunnerSessionManager).
THEOREM RunnerSessionsInductive == Spec => []SessionsInv
<1>1. ManagerBounded
  BY MCRunnerAssumption DEF ManagerBounded
<1>2. Manager!Init => SessionsInv
  BY <1>1, SessionsInit
<1>3. SessionsInv /\ [Manager!Next]_Manager!vars => SessionsInv'
  BY <1>1, SessionsStep
<1> QED
  BY <1>2, <1>3, ManagerRuns, PTL

\* The Codex processes that run are those of the sessions in the map, and a
\* session that is shown running has one: stop and cancel find it (RunnerSessionManager).
THEOREM RunnerSessionsAgree == Spec => []SessionsAgree
<1>1. SessionsInv => SessionsAgree
  BY Halves DEF SessionsInv, SessionsAgree
<1> QED
  BY <1>1, RunnerSessionsInductive, PTL

\* hello comes first and attaches its connection once, OPEN is the first frame
\* about a stream, and the end of a stream is told (tunnelHub, wsTunnel,
\* startTunnelClient).
THEOREM RunnerTunnelInductive == Spec => []TunnelInv
<1>1. TunnelBounded
  BY MCRunnerAssumption DEF TunnelBounded
<1>2. Tunnels!Init => TunnelInv
  BY <1>1, TunnelInit
<1>3. TunnelInv /\ [Tunnels!Next]_Tunnels!vars => TunnelInv'
  BY <1>1, TunnelStep
<1> QED
  BY <1>2, <1>3, TunnelsRun, PTL

\* No stream is open at one end of a tunnel only, once its frames are read
\* (tunnelHub, startTunnelClient).
THEOREM RunnerEndsAgree == Spec => []EndsAgree
<1>1. TunnelInv => EndsAgree
  BY TunnelKept DEF EndsAgree
<1> QED
  BY <1>1, RunnerTunnelInductive, PTL

\* The variables of every part keep their types.
THEOREM RunnerTypeCorrect == Spec => []TypeOK
<1>1. TurnProofs!TypeOK => Turns!TypeOK
  BY Zenon DEF
    Turns!TypeOK, TurnProofs!TypeOK, Turns!Turn, TurnProofs!Turn, Turns!Request,
    TurnProofs!Request, Turns!None, TurnProofs!None, Turns!Entry, TurnProofs!Entry,
    Turns!Line, TurnProofs!Line
<1>2. SessionsInv => Manager!TypeOK
  BY DEF SessionsInv
<1>3. TunnelInv => Tunnels!TypeOK
  BY DEF TunnelInv, Typed
<1>4. Spec => []Service!TypeOK
  BY ServiceInit, ServiceStep, ServiceRuns, PTL
<1> QED
  BY Bounds, TurnsRun, TurnProofs!TurnsTyped, RunnerSessionsInductive, RunnerTunnelInductive,
    <1>1, <1>2, <1>3, <1>4, PTL DEF TypeOK

=============================================================================
