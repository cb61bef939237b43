---------------------------- MODULE EngineParts ----------------------------
(***************************************************************************)
(* Six parts of the engine that share no state: the resource manager, the  *)
(* frame timeline, the audio mixer, the file I/O thread, the game's        *)
(* resources and the render window.  What one of them does leaves the      *)
(* others as they are, so each is explored alone.                          *)
(***************************************************************************)
EXTENDS ResourceManager, FrameTimeline, AudioMixer, AsyncFileIO, GameResources, RenderWindow

CONSTANTS t1, b1

MCParts ==
  LET square(a) == [cols |-> a, rows |-> a]
  IN  (t1 :> <<square(3), square(2)>>) @@ (b1 :> <<square(2)>>)

VARIABLE part  \* the part that is explored

engineVars == <<part, rmVars, tlVars, mixVars, ioVars, grVars, windowVars>>

EngineInit ==
  /\ part \in {"resource manager", "timeline", "mixer", "file I/O", "resources", "window"}
  /\ Init /\ TimelineInit /\ MixerInit /\ AsyncIOInit /\ GameResourcesInit /\ RenderWindowInit

EngineNext ==
  /\ UNCHANGED part
  /\ \/ /\ part = "resource manager" /\ Next
        /\ UNCHANGED <<tlVars, mixVars, ioVars, grVars, windowVars>>
     \/ /\ part = "timeline" /\ TimelineNext
        /\ UNCHANGED <<rmVars, mixVars, ioVars, grVars, windowVars>>
     \/ /\ part = "mixer" /\ MixerNext
        /\ UNCHANGED <<rmVars, tlVars, ioVars, grVars, windowVars>>
     \/ /\ part = "file I/O" /\ AsyncIONext
        /\ UNCHANGED <<rmVars, tlVars, mixVars, grVars, windowVars>>
     \/ /\ part = "resources" /\ GameResourcesNext
        /\ UNCHANGED <<rmVars, tlVars, mixVars, ioVars, windowVars>>
     \/ /\ part = "window" /\ RenderWindowNext
        /\ UNCHANGED <<rmVars, tlVars, mixVars, ioVars, grVars>>

(* Threads are scheduled, and the GPU and the system's I/O make progress.  *)
(* The game's thread goes on when it is between two steps of a call, and   *)
(* the others may stop asking.  Of the resource manager: its Fairness.     *)
EngineFairness ==
  /\ \A x \in Threads : WF_rmVars(part = "resource manager" /\ Proceeds(x))
  /\ \A q \in Requests : WF_rmVars(part = "resource manager" /\ DropJob(q))
  /\ \A t \in Trackers : WF_rmVars(part = "resource manager" /\ Loads(t))
  /\ WF_tlVars(part = "timeline" /\ MainThread)
  /\ WF_tlVars(part = "timeline" /\ AsyncDispose)
  /\ \A i \in SyncPoints : /\ WF_tlVars(part = "timeline" /\ Worker(i))
                           /\ WF_tlVars(part = "timeline" /\ Gpu(i))
  /\ WF_mixVars(part = "mixer" /\ AudioThread)
  /\ WF_mixVars(part = "mixer" /\ \E e \in Emitters : e = adding /\ PostCommand(e))
  /\ WF_ioVars(part = "file I/O" /\ IOThread)
  /\ \A l \in FileLoads : WF_ioVars(part = "file I/O" /\ Transfer(l))
  /\ WF_ioVars(part = "file I/O" /\ Close)
  /\ WF_windowVars(part = "window" /\ WindowThread)
  /\ WF_windowVars(part = "window" /\ Owner)
  /\ \A c \in Clients : WF_windowVars(part = "window" /\ TaskIsDone(c))

EngineSpec == EngineInit /\ [][EngineNext]_engineVars /\ EngineFairness

(* The types of all variables.                                             *)
EngineTypeOK ==
  /\ RMTypeOK /\ TimelineTypeOK /\ MixerTypeOK /\ AsyncIOTypeOK /\ GameResourcesTypeOK
  /\ RenderWindowTypeOK
=============================================================================
