------------------------------- MODULE LidarSetup ------------------------------
(***************************************************************************)
(* The life of the lidar's objects.  Every attempt of INIT makes a new     *)
(* EventListener on the main thread and deletes the one before; a thread   *)
(* (setReadyCubeEye) makes a new CubeEyeContext with its camera, assigns it*)
(* over the one before, registers the listener and sets the camera's       *)
(* properties.  Nothing unregisters a listener.  SIGINT runs exitProcess   *)
(* on the main thread while that thread, or those of a measurement, go on; *)
(* exit then destroys the listener before the context.                     *)
(*                                                                         *)
(* A listener, a context and its camera are the number of the attempt that *)
(* made them, 0 if there is none.  What the SDK finds, accepts or refuses  *)
(* is any choice; a camera that is released tells its sink so.             *)
(*                                                                         *)
(* MaxAttempts bounds the run; the program has no such bound.              *)
(* A definition marked "a slip" is a plausible wrong version of the next.  *)
(***************************************************************************)
EXTENDS Integers

CONSTANTS
  Props,          \* the properties that makeDefaultPropList lists
  MisreadProps,   \* those of them whose value is read with another type
  MaxAttempts     \* attempts of INIT in one run

ASSUME PropsAssumption == MisreadProps \subseteq Props
ASSUME AttemptAssumption == MaxAttempts \in Nat

VARIABLES
  setup,         \* where INIT and its thread, or the machine after it, are
  attempt,       \* history: attempts of INIT so far
  evtListener,   \* gCubeEyeEvtListener
  context,       \* gCubeEyeContext
  camera,        \* the state of its camera
  sink,          \* the sink of its camera
  registered,    \* external: the prepared-listeners that the SDK keeps
  todo,          \* the properties that setDefaultProperties has not come to
  props,         \* external: the camera's properties
  refused,       \* history: the properties that the camera did not take
  exit,          \* how far the program has ended
  cancelled,     \* history: SIGINT came while another thread used the lidar
  dangling,      \* history: a deleted listener has been called
  crashed        \* a deleted or missing object has been used

objects  == <<evtListener, context, camera, sink, registered>>
settings == <<todo, props, refused>>
outcome  == <<cancelled, dangling, crashed>>
setupVars == <<setup, attempt, objects, settings, exit, outcome>>

Attempts == 0..MaxAttempts

SetupTypeOK ==
  /\ setup \in {"idle", "search", "test", "prepare", "preparing", "props", "failed", "ready",
                "measure"}
  /\ attempt \in Attempts
  /\ evtListener \in Attempts /\ context \in Attempts /\ sink \in Attempts
  /\ camera \in {"none", "created", "prepared", "running"}
  /\ registered \subseteq Attempts
  /\ todo \subseteq Props /\ refused \subseteq Props
  /\ props \in [Props -> {"missing", "other", "typed", "misread", "default"}]
  /\ exit \in {"none", "handling", "reset", "listenerGone", "gone"}
  /\ cancelled \in BOOLEAN /\ dangling \in BOOLEAN /\ crashed \in BOOLEAN

SetupInit ==
  /\ setup = "idle" /\ attempt = 0
  /\ evtListener = 0 /\ context = 0 /\ camera = "none" /\ sink = 0 /\ registered = {}
  /\ todo = {} /\ refused = {}
  /\ props = [p \in Props |-> "other"]
  /\ exit = "none" /\ cancelled = FALSE /\ dangling = FALSE /\ crashed = FALSE

\* A call of listener l comes too late.
Deleted(l) == l # 0 /\ l # evtListener

-------------------------------------------------------------------------------
(* INIT's onEvent and its thread. *)

NewAttempt ==
  /\ setup = "idle" /\ exit = "none" /\ attempt < MaxAttempts
  /\ attempt' = attempt + 1
  /\ evtListener' = attempt + 1
  /\ setup' = "search"
  /\ UNCHANGED <<context, camera, sink, registered, settings, exit, outcome>>

\* ~CubeEyeContext of the context that is replaced, reset or destroyed.
Released == dangling' = (dangling \/ (context # 0 /\ Deleted(sink)))

\* processMakeContext: no source, no camera and no field of view all give nullptr;
\* the camera that is found may be another one than before.
MakeContext ==
  /\ setup = "search"
  /\ \/ /\ context' = attempt /\ camera' = "created"
        /\ props' \in [Props -> {"missing", "other", "typed", "default"}]
        /\ refused' = {}
     \/ context' = 0 /\ camera' = "none" /\ UNCHANGED <<props, refused>>
  /\ sink' = 0
  /\ Released
  /\ setup' = "test"
  /\ UNCHANGED <<attempt, evtListener, registered, todo, exit, cancelled, crashed>>

Untested == FALSE   \* a slip: the context is used as it came
NoContext == context = 0

TestContext ==
  /\ setup = "test"
  /\ setup' = IF NoContext THEN "failed" ELSE "prepare"
  /\ UNCHANGED <<attempt, objects, settings, exit, outcome>>

\* The handler may have reset the context that a thread is about to use.
ContextGone ==
  /\ setup \in {"prepare", "preparing", "props", "measure"}
  /\ context = 0
  /\ crashed' = TRUE
  /\ UNCHANGED <<setup, attempt, objects, settings, exit, cancelled, dangling>>

FirstSink == IF registered = {} THEN attempt ELSE CHOOSE l \in registered : TRUE   \* a slip
NewSink == attempt

AddSink ==
  /\ setup = "prepare" /\ context # 0
  /\ sink' = NewSink
  /\ registered' = registered \cup {NewSink}
  /\ setup' = "preparing"
  /\ UNCHANGED <<attempt, evtListener, context, camera, settings, exit, outcome>>

\* prepare() tells every prepared-listener there ever was.
Prepared ==
  /\ setup = "preparing" /\ context # 0
  /\ camera' = "prepared"
  /\ dangling' = (dangling \/ \E l \in registered : Deleted(l))
  /\ todo' = Props
  /\ setup' = "props"
  /\ UNCHANGED <<attempt, evtListener, context, sink, registered, props, refused, exit,
                 cancelled, crashed>>

PrepareFailed ==
  /\ setup = "preparing" /\ context # 0
  /\ setup' = "failed"
  /\ UNCHANGED <<attempt, objects, settings, exit, outcome>>

-------------------------------------------------------------------------------
(* setDefaultProperties, one property at a time. *)

OtherValue(current, value) == current = "other"   \* a slip: compareProperty(...) > 0
Differs(current, value) == current # value

\* What makeProperty can make of the default value of p.
Made(p) == IF p \in MisreadProps THEN {"default", "misread"} ELSE {"default"}

\* getProperty returns no property where the camera has none.
PropertyMissing(p) ==
  /\ setup = "props" /\ context # 0 /\ p \in todo
  /\ props[p] = "missing"
  /\ crashed' = TRUE
  /\ UNCHANGED <<setup, attempt, objects, settings, exit, cancelled, dangling>>

PropertySet(p) ==
  /\ setup = "props" /\ context # 0 /\ p \in todo
  /\ props[p] # "missing"
  /\ todo' = todo \ {p}
  /\ \E value \in Made(p) :
       \/ ~Differs(props[p], value) /\ UNCHANGED <<props, refused>>
       \/ /\ Differs(props[p], value)
          /\ props' = [props EXCEPT ![p] = value] /\ refused' = refused \ {p}
       \/ Differs(props[p], value) /\ refused' = refused \cup {p} /\ UNCHANGED props
  /\ UNCHANGED <<setup, attempt, objects, exit, outcome>>

-------------------------------------------------------------------------------
(* The end of INIT, and the machine after it. *)

\* CameraRun's result is not looked at.
InitSucceeds ==
  /\ setup = "props" /\ todo = {} /\ exit = "none"
  /\ camera' \in {"prepared", "running"}
  /\ setup' = "ready"
  /\ UNCHANGED <<attempt, evtListener, context, sink, registered, settings, exit, outcome>>

\* The lidar, the balance or the cameras: INIT starts again.
InitFails ==
  /\ setup = "failed" \/ (setup = "props" /\ todo = {})
  /\ exit = "none"
  /\ setup' = "idle"
  /\ UNCHANGED <<attempt, objects, settings, exit, outcome>>

\* DETECT's calcObjectDistance, in threads that use gCubeEyeContext.
Measure ==
  /\ setup = "ready" /\ exit = "none"
  /\ setup' = "measure"
  /\ UNCHANGED <<attempt, objects, settings, exit, outcome>>

Measured ==
  /\ setup = "measure" /\ context # 0
  /\ setup' = "ready"
  /\ UNCHANGED <<attempt, objects, settings, exit, outcome>>

-------------------------------------------------------------------------------
(* The end of the program. *)

\* The machine gives up, or SIGINT at any time.
Exit ==
  /\ exit = "none"
  /\ exit' = "handling"
  /\ cancelled' = (setup \notin {"idle", "ready"})
  /\ UNCHANGED <<setup, attempt, objects, settings, dangling, crashed>>

ContextKept == context   \* a slip: exitProcess leaves the lidar out
ContextReset == 0

ExitReset ==
  /\ exit = "handling"
  /\ Released
  /\ context' = ContextReset
  /\ camera' = IF ContextReset = 0 THEN "none" ELSE camera
  /\ exit' = "reset"
  /\ UNCHANGED <<setup, attempt, evtListener, sink, registered, settings, cancelled, crashed>>

ListenerDestroyed ==
  /\ exit = "reset"
  /\ evtListener' = 0
  /\ exit' = "listenerGone"
  /\ UNCHANGED <<setup, attempt, context, camera, sink, registered, settings, outcome>>

ContextDestroyed ==
  /\ exit = "listenerGone"
  /\ Released
  /\ context' = 0 /\ camera' = "none"
  /\ exit' = "gone"
  /\ UNCHANGED <<setup, attempt, evtListener, sink, registered, settings, cancelled, crashed>>

-------------------------------------------------------------------------------
(* Properties. *)

\* InitEvent.cpp replaces the listener before it has a new camera, and a camera
\* keeps its sink for life: however many attempts it took and whichever of them
\* got how far, the camera that runs calls the listener that DETECT reads.
FramesHeard == camera = "running" /\ exit \in {"none", "handling"} => sink = evtListener

\* A run whose first INIT succeeds, or is not interrupted, calls no deleted listener.
DanglingOnlyAfterRetry == dangling => attempt > 1 \/ cancelled

\* A null context is used only after SIGINT, a null property only if the camera has none.
CrashOnlyOnCancel == crashed => cancelled \/ \E p \in todo : props[p] = "missing"

\* exitProcess releases the camera before exit destroys the listener: a deleted
\* listener is called only after a retry, since the SDK still has the old one, or
\* after SIGINT.  Failed attempts leave null contexts and half-prepared cameras
\* behind: none of them is used, unless SIGINT takes the context away from a
\* thread, or a camera does not know a property.
DeletedObjectsUnused == DanglingOnlyAfterRetry /\ CrashOnlyOnCancel

\* setDefaultProperties runs again with every camera: objects are measured with
\* the default properties, but for those that the camera refused, or whose value
\* makeProperty reads with another type than it was written with.
DefaultsHold ==
  setup \in {"ready", "measure"} =>
    \A p \in Props \ refused : props[p] = "default" \/ (p \in MisreadProps /\ props[p] = "misread")
===============================================================================
