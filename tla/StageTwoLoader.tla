--------------------------- MODULE StageTwoLoader ---------------------------
(***************************************************************************)
(* The constructor of the stage-2 loader and the slot table it fills       *)
(* (stage2_loader.c), with the config shims that sit in three of the       *)
(* slots. pgphoto reaches every gp_* function by an indirect jump through  *)
(* its slot; its threads may call while the constructor still runs.        *)
(***************************************************************************)
EXTENDS Integers, FiniteSets

Shimmed == {"init", "set_config", "set_single_config", "get_single_config"}
Symbols == Shimmed \cup {"capture", "exit"}   \* capture_preview is as "init", every plain one as "exit"

VARIABLES site,     \* what this boot finds: see Sites
          at,       \* how far the constructor is
          page,     \* the slot page is mapped
          slot,     \* per symbol: what its slot holds
          core,     \* g_stage2_core is set
          capture,  \* g_real_gp_camera_capture is set
          owner,    \* whose handler takes SIGSEGV, SIGBUS and SIGILL
          asserted, \* g_crash_reasserted
          ended,    \* how the process ended, or "no"
          reply     \* the answer of a config shim, or NoReply

vars == <<site, at, page, slot, core, capture, owner, asserted, ended, reply>>

Steps == <<"map", "stub", "core", "port", "resolve", "done">>
After(a, b) == \E i, j \in 1..6 : Steps[i] = a /\ Steps[j] = b /\ i > j

NoReply == [kind |-> "none"]

\* free: nothing is mapped at the slot base, and the maps could be read;
\* found: the boundary symbols core or port define; modes: one of the
\* capture modes is on; reassert, tether, fallback: those variables.
Sites == [free : BOOLEAN, mmap : BOOLEAN, core : BOOLEAN, port : BOOLEAN,
          found : {Symbols, Symbols \ {"init"}, Symbols \ {"capture"}},
          modes : BOOLEAN, reassert : BOOLEAN, tether : BOOLEAN, fallback : BOOLEAN]

Init ==
    /\ site \in Sites
    /\ at = "map" /\ page = FALSE /\ core = FALSE /\ capture = FALSE
    /\ slot = [s \in Symbols |-> "zero"]
    /\ owner = "loader"     \* install_crash_handler comes first of all
    /\ asserted = FALSE /\ ended = "no" /\ reply = NoReply

----------------------------------------------------------------------------
(* The constructor.                                                        *)

\* The page is mapped only where nothing is; else the process refuses.
MapSlotPage ==
    /\ at = "map"
    /\ IF site.free /\ site.mmap
       THEN page' = TRUE /\ at' = "stub" /\ UNCHANGED ended
       ELSE /\ ended' = IF site.free THEN "exit_97" ELSE "exit_96"
            /\ UNCHANGED <<page, at>>
    /\ UNCHANGED <<site, slot, core, capture, owner, asserted, reply>>

StubSlot(s) ==
    /\ at = "stub" /\ slot[s] = "zero"
    /\ slot' = [slot EXCEPT ![s] = "stub"]
    /\ at' = IF \E o \in Symbols \ {s} : slot[o] = "zero" THEN "stub" ELSE "core"
    /\ UNCHANGED <<site, page, core, capture, owner, asserted, ended, reply>>

\* (defect) the constructor goes on without its core
OpenCoreRegardless ==
    /\ at = "core"
    /\ core' = site.core
    /\ at' = "port"
    /\ UNCHANGED <<site, page, slot, capture, owner, asserted, ended, reply>>

\* The environment's path, the absolute path, the soname: any will do.
\* Without the library the constructor returns and every slot stays a stub.
OpenCore ==
    /\ at = "core"
    /\ core' = site.core
    /\ at' = IF site.core THEN "port" ELSE "done"
    /\ UNCHANGED <<site, page, slot, capture, owner, asserted, ended, reply>>

OpenPort ==
    /\ at = "port"
    /\ at' = IF site.port THEN "resolve" ELSE "done"
    /\ UNCHANGED <<site, page, slot, core, capture, owner, asserted, ended, reply>>

CaptureTarget == IF site.modes THEN "shim" ELSE "target"
Target(s) ==
    IF s \in Shimmed THEN "shim" ELSE IF s = "capture" THEN CaptureTarget ELSE "target"

ToResolve == {s \in site.found : slot[s] = "stub"}
Resolve(s) ==
    /\ at = "resolve" /\ s \in ToResolve
    /\ capture' = (capture \/ (s = "capture" /\ site.modes))
    /\ slot' = [slot EXCEPT ![s] = Target(s)]
    /\ UNCHANGED <<site, at, page, core, owner, asserted, ended, reply>>

Filled ==
    /\ at = "resolve" /\ ToResolve = {}
    /\ at' = "done"
    /\ UNCHANGED <<site, page, slot, core, capture, owner, asserted, ended, reply>>

----------------------------------------------------------------------------
(* The threads of pgphoto.                                                 *)

\* A call through the slot of s: of a zero slot it is a jump to null, of a
\* stub the named exit. A shim answers with an error of its own when the
\* function behind it cannot be found.
Behind(s) == IF s = "capture" THEN capture ELSE core /\ s \in site.found
Fatal(s) ==
    /\ ~page \/ slot[s] \in {"zero", "stub"}
    /\ ended' = IF page /\ slot[s] = "stub" THEN "exit_97" ELSE "null_jump"
    /\ UNCHANGED <<site, at, page, slot, core, capture, owner, asserted, reply>>

\* The init shim puts the loader's handler in front once, if asked to.
CallInit ==
    /\ page /\ slot["init"] = "shim"
    /\ IF site.reassert /\ ~asserted
       THEN asserted' = TRUE /\ owner' = "loader"
       ELSE UNCHANGED <<asserted, owner>>
    /\ UNCHANGED <<site, at, page, slot, core, capture, ended, reply>>

\* The application installs its own handlers once main runs.
AppHandlers ==
    /\ at = "done" /\ owner # "app"
    /\ owner' = "app"
    /\ UNCHANGED <<site, at, page, slot, core, capture, asserted, ended, reply>>

\* A fault in code that has nothing to do with the slots: the loader's
\* handler records it and raises it again.
Fault ==
    /\ at = "done"
    /\ ended' = IF owner = "loader" THEN "recorded_fault" ELSE "silent_fault"
    /\ UNCHANGED <<site, at, page, slot, core, capture, owner, asserted, reply>>

----------------------------------------------------------------------------
(* The config shims, called once the application runs. Calls keep nothing, *)
(* so a behaviour has one. A widget is [type, choices]; "ram" stands for   *)
(* Internal RAM.                                                           *)

ChoiceTypes == {"radio", "menu"}

\* (defect) the number of choices is not looked at
RefusedUnreadable(w) == w.type = "unreadable"
\* stage2_reject_empty_choice_widget, when it can look at the widget at all.
Refused(w) == w.type = "unreadable" \/ (w.type \in ChoiceTypes /\ w.choices = 0)

\* reads and frees say which helpers of the library are resolved: the two that
\* look at a widget, and gp_widget_free. A widget that cannot be looked at is
\* refused; it is freed if gp_widget_free is there. makes says whether the calls
\* that make the synthetic widget all succeed; it is freed when they do not.
GetSingleConfig ==
    /\ at = "done" /\ slot["get_single_config"] = "shim" /\ reply = NoReply
    /\ \E name \in {"shutterspeed", "iso"}, reads, frees, makes \in BOOLEAN,
          type \in {"none", "text", "unreadable"} \cup ChoiceTypes, choices \in 0..1,
          ret \in {"ok", "error"} :
         LET w == [type |-> type, choices |-> choices]
             usable == type # "none" /\ reads /\ frees /\ ~Refused(w)
             leaked == type # "none" /\ ~frees
             tried == site.fallback /\ name = "shutterspeed" /\ frees
             made == tried /\ makes
         IN  reply' =
               IF ret = "ok"
               THEN [kind |-> "get", core |-> ret, ret |-> IF usable THEN "ok" ELSE "busy",
                     name |-> name, given |-> usable, choices |-> choices, type |-> type,
                     frees |-> frees, live |-> IF usable \/ leaked THEN 1 ELSE 0]
               ELSE [kind |-> "get", core |-> ret, ret |-> IF made THEN "ok" ELSE "error",
                     name |-> name, given |-> made, choices |-> 0, type |-> "text",
                     frees |-> frees,
                     live |-> (IF tried THEN 1 ELSE 0) - (IF tried /\ ~makes THEN 1 ELSE 0)]
    /\ UNCHANGED <<site, at, page, slot, core, capture, owner, asserted, ended>>

\* Where the capture target is in what the app sets: the widget itself, a
\* child of it, or nowhere. The single-config entry goes by the name alone.
Force(r5, found, value, sets) ==
    IF site.tether /\ r5 /\ found /\ value = "card" /\ sets THEN "ram" ELSE value

SetConfig ==
    \E s \in {"set_config", "set_single_config"} :
        /\ at = "done" /\ slot[s] = "shim" /\ reply = NoReply
        /\ \E r5, sets \in BOOLEAN, value \in {"ram", "card", "unreadable"},
              place \in {"self", "child", "absent"} :
             LET found == place = "self" \/ (place = "child" /\ s = "set_config") IN
             reply' = [kind |-> "set", r5 |-> r5, sets |-> sets, asked |-> value,
                       target |-> found, sent |-> Force(r5, found, value, sets)]
        /\ UNCHANGED <<site, at, page, slot, core, capture, owner, asserted, ended>>

Next ==
    /\ ended = "no"
    /\ \/ MapSlotPage \/ OpenCore \/ OpenPort \/ Filled
       \/ \E s \in Symbols : StubSlot(s) \/ Resolve(s) \/ Fatal(s)
       \/ CallInit \/ AppHandlers \/ Fault \/ GetSingleConfig \/ SetConfig

Spec == Init /\ [][Next]_vars

----------------------------------------------------------------------------
(* The types of the variables.                                             *)
TypeOK ==
    /\ site \in Sites
    /\ at \in {Steps[i] : i \in 1..6}
    /\ {page, core, capture, asserted} \subseteq BOOLEAN
    /\ slot \in [Symbols -> {"zero", "stub", "shim", "target"}]
    /\ owner \in {"loader", "app"}
    /\ ended \in {"no", "exit_96", "exit_97", "null_jump", "recorded_fault", "silent_fault"}

(* The table fails closed at every moment a thread may call: no slot is    *)
(* null once the stubs are in, whatever part of the constructor gives up;  *)
(* a shim is in a slot only when the function it stands for can be found,  *)
(* so no call is answered by a shim that has lost its core; and a symbol   *)
(* that neither library defines is a stub for good.                        *)
FailsClosed ==
    /\ After(at, "stub") => ended # "null_jump" /\ \A s \in Symbols : slot[s] # "zero"
    /\ \A s \in Symbols : slot[s] = "shim" => Behind(s)
    /\ \A s \in Symbols \ site.found : slot[s] \notin {"shim", "target"}
    /\ ended = "exit_96" => ~page

(* A config the app is given is one its parser can read: a choice list is  *)
(* never empty, and an error is never hidden behind a widget but for the   *)
(* shutter speed with the fallback on. No widget is left to nobody while   *)
(* gp_widget_free is resolved; while it is not, the app is given none, and *)
(* the one the library made is lost (stage2_loader.c:1245-1252).           *)
(* And with tethering on, no write that the helpers can rewrite sends the  *)
(* camera back to its card.                                                *)
ConfigSafe ==
    /\ reply.kind = "get" =>
         /\ reply.ret = "ok" <=> reply.given
         /\ reply.given /\ reply.type \in ChoiceTypes => reply.choices > 0
         /\ reply.given /\ reply.core = "error" => site.fallback /\ reply.name = "shutterspeed"
         /\ reply.given => reply.frees
         /\ reply.frees => reply.live = IF reply.given THEN 1 ELSE 0
    /\ reply.kind = "set" =>
         /\ site.tether /\ reply.r5 /\ reply.target /\ reply.sets => reply.sent # "card"
         /\ reply.sent # reply.asked => site.tether /\ reply.r5 /\ reply.target
============================================================================
