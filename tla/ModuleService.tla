--------------------------- MODULE ModuleService ---------------------------
(***************************************************************************)
(* The life of a module process (tinymemory-module/src/lib.rs, host.rs and *)
(* service/mod.rs): setup, which may run once and may fail half way; the   *)
(* root object, which opens further stores on request; Shutdown, which     *)
(* runs the banked hooks before it releases the driver.  The claims, the   *)
(* hosts, the worker pool and the hooks are process-wide.                  *)
(***************************************************************************)
EXTENDS Integers, FiniteSets, Sequences

CONSTANTS
    Setups,      \* attempts to set the module up, each for a workspace of its own
    Subdirs,     \* names of stores a caller asks for: sequences of characters
    MaxName,     \* the longest name of a store (128 bytes)
    MaxStores,   \* stores the root opens at most (MAX_OPEN_STORES)
    Askers,      \* concurrent calls to the root object
    MaxAsks,     \* bound: calls made
    MaxHooks     \* bound: hooks registered

ASSUME ModuleAssumption == MaxStores \in Nat \ {0} /\ {MaxAsks, MaxHooks, MaxName} \subseteq Nat

VARIABLES
    claimed,   \* CLAIMED
    hosts,     \* the setup whose hosts and seams are installed, "" before any
    boot,      \* [Setups -> stage]
    pool,      \* the workspace the queue worker pool drains (QUEUE_POOL_WORKSPACE)
    loops,     \* the workspace the sync loops run for (SYNC_LOOPS_WORKSPACE)
    root,      \* the setup whose root object is on the bus
    opened,    \* served: the subdirectories with a store, the map of StoreOpener
    objects,   \* [path -> subdirectory] of the leaf objects on the bus
    engines,   \* engines alive, by the directory of their database and who built them
    lock,      \* the asker that holds served, or "free"
    asked,     \* [Askers -> call]
    asks,      \* calls made
    banked,    \* BANKED_HOOKS
    fate,      \* [hook -> times started], for hooks that were registered
    running,   \* hooks whose task is under way
    released,  \* the objects whose driver was told to shut down
    late,      \* hooks registered after a Shutdown had taken the bank
    overlap    \* two Shutdowns of the root were under way at once

msVars == <<claimed, hosts, boot, pool, loops, root, opened, objects, engines, lock, asked, asks,
            banked, fate, running, released, late, overlap>>

bootVars == <<claimed, hosts, boot, pool, loops, root>>
storeVars == <<opened, objects, engines, lock>>
hookVars == <<banked, fate, running, released, late, overlap>>

----------------------------------------------------------------------------
(* Letters and digits stand for themselves; '-' and '_' become '_' and two   *)
(* hexadecimal digits; anything else, nothing and too much are refused.      *)
Kept == {"m", "2", "d", "5", "f"}
Accepted == Kept \cup {"-", "_"}
Path == UNION {[1..n -> Accepted \cup {"/"}] : n \in 0..MaxName + 1}

(* Faulty variant: the dash becomes a plain underscore. *)
DashIsUnderscore(c) == IF c = "-" THEN <<"_">> ELSE <<c>>

Encoded(c) ==
    CASE c = "-" -> <<"_", "2", "d">>
      [] c = "_" -> <<"_", "5", "f">>
      [] OTHER -> <<c>>

object_path_for_subdir(name) ==
    LET component[n \in 0..Len(name)] ==
          IF n = 0 THEN <<>> ELSE component[n - 1] \o Encoded(name[n])
    IN component[Len(name)]
Valid(name) == Len(name) \in 1..MaxName /\ \A i \in DOMAIN name : name[i] \in Accepted

(* The subdirectory of the root's own store, "memory" (a name like any other). *)
Shared == <<"m">>
Engine(workspace, name, by) == [dir |-> <<workspace, name>>, by |-> by]

----------------------------------------------------------------------------
(* Setup. *)

BootStep(s, from, to) == boot[s] = from /\ boot' = [boot EXCEPT ![s] = to]

Validate(s) ==
    /\ \/ BootStep(s, "new", "valid") \/ BootStep(s, "new", "failed")
    /\ UNCHANGED <<claimed, hosts, pool, loops, root, storeVars, asked, asks, hookVars>>

(* Faulty variant: the claim is checked and never made. *)
ChecksClaim == UNCHANGED claimed

TakeClaim == claimed' = TRUE

(* The claim stays when a later step fails. *)
claim_process_setup(s) ==
    /\ IF claimed THEN BootStep(s, "valid", "failed") ELSE BootStep(s, "valid", "claimed")
    /\ TakeClaim
    /\ UNCHANGED <<hosts, pool, loops, root, storeVars, asked, asks, hookVars>>

Install(s) ==
    /\ BootStep(s, "claimed", "installed")
    /\ hosts' = s
    /\ UNCHANGED <<claimed, pool, loops, root, storeVars, asked, asks, hookVars>>

(* The root's engine, which lives as long as the process: nothing enters it   *)
(* in the map of the stores that were opened.                                *)
CreateClient(s) ==
    /\ \/ BootStep(s, "installed", "created") /\ engines' = engines \cup {Engine(s, Shared, s)}
       \/ BootStep(s, "installed", "failed") /\ UNCHANGED engines
    /\ UNCHANGED <<claimed, hosts, pool, loops, root, opened, objects, lock, asked, asks, hookVars>>

(* The first workspace keeps a process-wide loop; a later one goes without. *)
claim_workspace(cell, s) == IF cell = "" THEN s ELSE cell

(* queue::start banks its hook through the shutdown host. *)
start_queue_pool(s) ==
    /\ BootStep(s, "created", "pooled")
    /\ pool' = claim_workspace(pool, s)
    /\ IF pool = "" THEN /\ banked' = banked \cup {1} /\ fate' = [fate EXCEPT ![1] = 0]
       ELSE UNCHANGED <<banked, fate>>
    /\ UNCHANGED <<claimed, hosts, loops, root, storeVars, asked, asks, running, released, late, overlap>>

(* Without a published client the sync loops are not started. *)
bind_memory_client(s) ==
    /\ BootStep(s, "pooled", "published") \/ BootStep(s, "pooled", "bound")
    /\ UNCHANGED <<claimed, hosts, pool, loops, root, storeVars, asked, asks, hookVars>>

start_sync_loops(s) ==
    /\ BootStep(s, "published", "bound")
    /\ loops' = claim_workspace(loops, s)
    /\ UNCHANGED <<claimed, hosts, pool, root, storeVars, asked, asks, hookVars>>

(* The object is put on the bus, then the name is asked for: refused, the    *)
(* object stays but nobody can address it.                                   *)
serve(s) ==
    /\ \/ /\ BootStep(s, "bound", "served") /\ root' = s
       \/ /\ BootStep(s, "bound", "failed") /\ UNCHANGED root
    /\ UNCHANGED <<claimed, hosts, pool, loops, storeVars, asked, asks, hookVars>>

Setup(s) ==
    \/ Validate(s) \/ claim_process_setup(s) \/ Install(s) \/ CreateClient(s)
    \/ start_queue_pool(s) \/ bind_memory_client(s) \/ start_sync_loops(s) \/ serve(s)

----------------------------------------------------------------------------
(* Calls to the root object and to the leaf objects it has put on the bus. *)

Root == <<"root">>
Callable == (IF root = "" THEN {} ELSE {Root}) \cup DOMAIN objects

NoAsk == [op |-> "idle", name |-> <<>>, answer |-> <<>>]
AskFor(c, op, name) == asked' = [asked EXCEPT ![c] = [op |-> op, name |-> name, answer |-> <<>>]]
At(c, op) == asked[c].op = op
Reply(c, answer) == asked' = [asked EXCEPT ![c] = [NoAsk EXCEPT !.name = asked[c].name, !.answer = answer]]

Refused == <<"refused">>

(* Only the root object opens stores. *)
AskOpen(c) ==
    /\ At(c, "idle") /\ asks < MaxAsks
    /\ \E at \in Callable, name \in Subdirs :
         IF at = Root /\ Valid(name) THEN AskFor(c, "open", name)
         ELSE asked' = [asked EXCEPT ![c] = [NoAsk EXCEPT !.name = name, !.answer = Refused]]
    /\ asks' = asks + 1
    /\ UNCHANGED <<bootVars, storeVars, hookVars>>

(* Faulty variant: the map is consulted under the lock and the lock let go. *)
LockNotHeld(c) == lock = "free" /\ lock' = "free"

TakeLock(c) == lock = "free" /\ lock' = c

(* A store already served is answered with its path; past the ceiling, or    *)
(* when the store cannot be created, the map is left as it was.              *)
LookUp(c) ==
    /\ At(c, "open") /\ TakeLock(c)
    /\ asked' = [asked EXCEPT ![c].op = "look"]
    /\ UNCHANGED <<bootVars, opened, objects, engines, asks, hookVars>>

Reuse(c) ==
    /\ At(c, "look") /\ asked[c].name \in opened
    /\ Reply(c, object_path_for_subdir(asked[c].name)) /\ lock' = "free"
    /\ UNCHANGED <<bootVars, opened, objects, engines, asks, hookVars>>

Full(c) ==
    /\ At(c, "look") /\ asked[c].name \notin opened /\ Cardinality(opened) >= MaxStores
    /\ Reply(c, Refused) /\ lock' = "free"
    /\ UNCHANGED <<bootVars, opened, objects, engines, asks, hookVars>>

Build(c) ==
    /\ At(c, "look") /\ asked[c].name \notin opened /\ Cardinality(opened) < MaxStores
    /\ \/ /\ engines' = engines \cup {Engine(root, asked[c].name, c)}
          /\ asked' = [asked EXCEPT ![c].op = "built"] /\ UNCHANGED lock
       \/ Reply(c, Refused) /\ lock' = "free" /\ UNCHANGED engines
    /\ UNCHANGED <<bootVars, opened, objects, asks, hookVars>>

(* The object goes on the bus and only then into the map; refused by the     *)
(* bus, the engine is dropped with the service that held it.                 *)
Register(c) ==
    /\ At(c, "built")
    /\ LET name == asked[c].name
           path == object_path_for_subdir(name)
       IN \/ /\ path \notin DOMAIN objects
             /\ objects' = [p \in DOMAIN objects \cup {path} |-> IF p = path THEN name ELSE objects[p]]
             /\ opened' = opened \cup {name} /\ UNCHANGED engines
             /\ Reply(c, path)
          \/ /\ engines' = engines \ {Engine(root, name, c)}
             /\ Reply(c, Refused) /\ UNCHANGED <<opened, objects>>
    /\ lock' = "free"
    /\ UNCHANGED <<bootVars, asks, hookVars>>

open_store(c) == AskOpen(c) \/ LookUp(c) \/ Reuse(c) \/ Full(c) \/ Build(c) \/ Register(c)

----------------------------------------------------------------------------
(* Shutdown.  The hooks are taken in one step, so a second call finds none;  *)
(* each runs in a task of its own until it ends or its deadline passes.  A    *)
(* leaf object takes none: the bank is for the whole process.                *)

InShutdown(c) == asked[c].op = "hooks" /\ asked[c].name = Root

register ==
    /\ root # ""
    /\ \E h \in DOMAIN fate :
         /\ fate[h] = -1
         /\ banked' = banked \cup {h} /\ fate' = [fate EXCEPT ![h] = 0]
         /\ late' = IF Root \in released \/ \E c \in Askers : InShutdown(c) THEN late \cup {h} ELSE late
    /\ UNCHANGED <<bootVars, storeVars, asked, asks, running, released, overlap>>

(* Faulty variant: the bank is read and left as it is. *)
ReadsBank(at) == UNCHANGED banked

(* Faulty variant: a leaf empties the bank as well. *)
LeafDrains(at) == banked' = {}

Drain(at) == banked' = IF at = Root THEN {} ELSE banked

AskShutdown(c) ==
    /\ At(c, "idle") /\ asks < MaxAsks
    /\ \E at \in Callable :
         /\ asked' = [asked EXCEPT ![c] = [op |-> "hooks", name |-> at,
                                           answer |-> IF at = Root THEN banked ELSE {}]]
         /\ Drain(at)
         /\ overlap' = (overlap \/ (at = Root /\ \E d \in Askers : InShutdown(d)))
    /\ asks' = asks + 1
    /\ UNCHANGED <<bootVars, storeVars, fate, running, released, late>>

(* The hooks of a call run one after the other. *)
HookStarts(c) ==
    /\ At(c, "hooks") /\ asked[c].answer # {} /\ asked[c].answer \cap running = {}
    /\ \E h \in asked[c].answer :
         /\ running' = running \cup {h}
         /\ fate' = [fate EXCEPT ![h] = @ + 1]
    /\ UNCHANGED <<bootVars, storeVars, asked, asks, banked, released, late, overlap>>

(* It finishes, panics, or is cut off at its deadline and awaited. *)
HookEnds(c) ==
    /\ At(c, "hooks")
    /\ \E h \in asked[c].answer \cap running :
         /\ running' = running \ {h}
         /\ asked' = [asked EXCEPT ![c].answer = @ \ {h}]
    /\ UNCHANGED <<bootVars, storeVars, asks, banked, fate, released, late, overlap>>

(* Faulty variant: the driver is released first. *)
ReleaseAtOnce(c) == At(c, "hooks")

MayRelease(c) == At(c, "hooks") /\ asked[c].answer = {}

Release(c) ==
    /\ MayRelease(c)
    /\ released' = released \cup {asked[c].name}
    /\ Reply(c, <<"down">>)
    /\ UNCHANGED <<bootVars, storeVars, asks, banked, fate, running, late, overlap>>

shutdown(c) == AskShutdown(c) \/ HookStarts(c) \/ HookEnds(c) \/ Release(c)

----------------------------------------------------------------------------
MsInit ==
    /\ claimed = FALSE /\ hosts = "" /\ boot = [s \in Setups |-> "new"]
    /\ pool = "" /\ loops = "" /\ root = ""
    /\ opened = {} /\ objects = <<>> /\ engines = {} /\ lock = "free"
    /\ asked = [c \in Askers |-> NoAsk] /\ asks = 0
    /\ banked = {} /\ fate = [h \in 1..MaxHooks |-> -1] /\ running = {}
    /\ released = {} /\ late = {} /\ overlap = FALSE

MsNext ==
    \/ \E s \in Setups : Setup(s)
    \/ \E c \in Askers : open_store(c) \/ shutdown(c)
    \/ register

----------------------------------------------------------------------------
MsTypeOK ==
    /\ {pool, loops, hosts, root} \subseteq Setups \cup {""}
    /\ lock \in Askers \cup {"free"} /\ running \cap banked = {}

(* The module that answers on the bus has the hosts of its own setup behind   *)
(* its store, and the worker pool drains its own workspace: no setup that     *)
(* failed half way, and no second setup, has taken them (lib.rs:458 says what *)
(* a store without a pool would mean).                                        *)
RootIsWhole == root # "" => hosts = root /\ pool = root /\ loops \in {"", root}

(* "both opened the database, and both ran migrations against one file — the  *)
(* corruption this map exists to prevent" (service/mod.rs:431): open_store     *)
(* brings up at most one engine per directory and at most MaxStores of them,  *)
(* and a path that was handed out serves the store that was asked for.  The   *)
(* root's own engine is not in the map, so a caller that asks for the root's  *)
(* subdirectory by name gets a second engine over the root's database.        *)
OneEnginePerStore ==
    /\ \A x, y \in engines : x.dir = y.dir => x = y \/ (x.dir = <<root, Shared>> /\ root \in {x.by, y.by})
    /\ Cardinality(opened) <= MaxStores
    /\ \A c \in Askers :
         At(c, "idle") /\ asked[c].answer \in DOMAIN objects => objects[asked[c].answer] = asked[c].name

(* Two names never share a path. *)
PathsDistinct ==
    \A a, b \in {p \in Path : Valid(p)} : object_path_for_subdir(a) = object_path_for_subdir(b) => a = b

(* "a second call finds nothing banked and releases nothing twice"            *)
(* (host.rs:519), and "Hooks before provider.shutdown()" (service/mod.rs:378): *)
(* a hook starts at most once, and before the root's driver is released       *)
(* unless a second Shutdown overtook the first or it was registered           *)
(* afterwards; and one that has not started is still banked or in the hands   *)
(* of a Shutdown of the root, whatever the leaf objects were told             *)
(* (service/mod.rs:373).                                                      *)
HooksOnceAndFirst ==
    /\ \A h \in DOMAIN fate : fate[h] <= 1
    /\ Root \in released => overlap \/ running \subseteq late
    /\ \A h \in DOMAIN fate :
         fate[h] = 0 => h \in banked \/ \E c \in Askers : InShutdown(c) /\ h \in asked[c].answer

ServiceSound ==
    /\ MsTypeOK /\ RootIsWhole /\ OneEnginePerStore /\ HooksOnceAndFirst
    /\ asks = 0 /\ hosts = "" => PathsDistinct
=============================================================================
