------------------------------ MODULE MCBrowser ------------------------------
(***************************************************************************)
(* TLC instance of what runs in the browser: the tabs of one browser       *)
(* (Tabs), and the packs of two devices (DevicePacks).  The two share no   *)
(* state: a behaviour is one of the first or one of the second, and the    *)
(* variables of the other keep their initial values.                       *)
(***************************************************************************)
EXTENDS Tabs, DevicePacks

VARIABLE part      \* the module whose behaviour this is

browserVars == <<part, tabVars, packVars>>

BrowserInit == part \in {"tabs", "packs"} /\ TabsInit /\ PacksInit

OfTabs(A) == part = "tabs" /\ A /\ UNCHANGED <<part, packVars>>
OfPacks(A) == part = "packs" /\ A /\ UNCHANGED <<part, tabVars>>

BrowserNext == OfTabs(TabsNext) \/ OfPacks(PacksNext)

\* TabsFairness in the behaviours of Tabs, PacksFairness in those of DevicePacks.
BrowserFairness ==
  /\ \A t \in Tab : /\ WF_browserVars(OfTabs(BootStep(t)))
                    /\ WF_browserVars(OfTabs(WorkerStep(t)))
  /\ WF_browserVars(OfTabs(HandlesFreed))
  /\ WF_browserVars(OfTabs(Answered))
  /\ WF_browserVars(OfTabs(TimeOut))
  /\ \A d \in Device : /\ WF_browserVars(OfPacks(EngineStep(d)))
                       /\ \A c \in Disc : WF_browserVars(OfPacks(LoadDone(d, c)))

BrowserSpec == BrowserInit /\ [][BrowserNext]_browserVars /\ BrowserFairness

\* What each module declares of its variables: the module variables of a worker, the calls on
\* the channel, the rows, staged parts and entries of a device.
BrowserTypeOK == TabsTypeOK /\ DevicePacksTypeOK
=============================================================================
