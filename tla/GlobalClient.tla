----------------------------- MODULE GlobalClient -----------------------------
(***************************************************************************)
(* Resolution of the process-wide MemoryClient (tinymemory-core/src/        *)
(* global.rs): a slot holding the client of the active workspace, a cache   *)
(* of one client per workspace, and the entry points init,                  *)
(* client_for_workspace, client / client_if_ready and bind.                 *)
(*                                                                          *)
(* The lock of the slot is taken before the lock of the cache and no other  *)
(* lock under either, so everything done under one guard is one action.     *)
(* Building a client opens the store and spawns an ingestion worker; it     *)
(* happens outside both locks and is a step of its own.                     *)
(***************************************************************************)
EXTENDS Integers, FiniteSets

CONSTANTS
    Callers,    \* threads that resolve a client
    Workspaces,
    Clients,    \* identities of the clients that can be built
    Entries,    \* entry points the host uses: "init", "resolve", "bind"
    None

ASSUME ClientAssumption == None \notin Callers \cup Workspaces \cup Clients

VARIABLES
    slot,    \* GLOBAL_CLIENT: [ws, client], client = None when it is empty
    cache,   \* WORKSPACE_CLIENTS: [Workspaces -> Clients or None]
    home,    \* [Clients -> the workspace it was built over, or None]
    live,    \* clients that still have a handle, and so a running worker
    call,    \* [Callers -> the call in progress]
    handed   \* <<workspace, client>> that some call returned Ok

vars == <<slot, cache, home, live, call, handed>>

Empty == [ws |-> None, client |-> None]
Idle == [fn |-> "none", step |-> "idle", ws |-> None, client |-> None]
Call(fn, step, w, c) == [fn |-> fn, step |-> step, ws |-> w, client |-> c]

TypeOK ==
    /\ slot \in [ws : Workspaces \cup {None}, client : Clients \cup {None}]
    /\ cache \in [Workspaces -> Clients \cup {None}]
    /\ home \in [Clients -> Workspaces \cup {None}]
    /\ live \in SUBSET Clients
    /\ call \in [Callers -> [fn : {"none", "init", "resolve", "bind"},
                             step : {"idle", "cached", "rebind", "build", "publish"},
                             ws : Workspaces \cup {None}, client : Clients \cup {None}]]
    /\ handed \in SUBSET (Workspaces \X Clients)

Init ==
    /\ slot = Empty
    /\ cache = [w \in Workspaces |-> None]
    /\ home = [c \in Clients |-> None]
    /\ live = {}
    /\ call = [p \in Callers |-> Idle]
    /\ handed = {}

-----------------------------------------------------------------------------

\* Faulty variant: the client just built replaces the cached one.
LastOneWins(w, c) == c

\* cache_client: the client that is in the cache after c was offered for w
Winner(w, c) == IF cache[w] = None THEN c ELSE cache[w]

Goto(p, fn, step, w, c) ==
    call' = [call EXCEPT ![p] = Call(fn, step, w, c)]

Return(p, w, c) ==
    /\ call' = [call EXCEPT ![p] = Idle]
    /\ handed' = handed \cup {<<w, c>>}

\* Faulty variant: the slot's client is returned for any workspace.
InitReturnsAnySlot(p, w) ==
    /\ "init" \in Entries /\ call[p] = Idle
    /\ IF slot # Empty
       THEN Return(p, w, slot.client)
       ELSE Goto(p, "init", "cached", w, None) /\ UNCHANGED handed
    /\ UNCHANGED <<slot, cache, home, live>>

\* init: the slot already serves this workspace, or on to the cache
InitReadSlot(p, w) ==
    /\ "init" \in Entries /\ call[p] = Idle
    /\ IF slot.ws = w
       THEN Return(p, w, slot.client)
       ELSE Goto(p, "init", "cached", w, None) /\ UNCHANGED handed
    /\ UNCHANGED <<slot, cache, home, live>>

InitReadCache(p) ==
    LET w == call[p].ws IN
    /\ call[p].fn = "init" /\ call[p].step = "cached"
    /\ IF cache[w] # None
       THEN Goto(p, "init", "rebind", w, cache[w])
       ELSE Goto(p, "init", "build", w, None)
    /\ UNCHANGED <<slot, cache, home, live, handed>>

\* The cached client goes into the slot, whatever the slot holds by now.
InitRebind(p) ==
    /\ call[p].step = "rebind"
    /\ slot' = [ws |-> call[p].ws, client |-> call[p].client]
    /\ Return(p, call[p].ws, call[p].client)
    /\ UNCHANGED <<cache, home, live>>

\* MemoryClient::from_workspace_dir: the store is opened, the worker spawned
Build(p, c) ==
    /\ call[p].step = "build"
    /\ home[c] = None
    /\ home' = [home EXCEPT ![c] = call[p].ws]
    /\ live' = live \cup {c}
    /\ Goto(p, call[p].fn, "publish", call[p].ws, c)
    /\ UNCHANGED <<slot, cache, handed>>

\* Construction fails under init: a slot bound to another workspace is cleared.
InitBuildFails(p) ==
    /\ call[p].fn = "init" /\ call[p].step = "build"
    /\ slot' = IF slot.ws # None /\ slot.ws # call[p].ws THEN Empty ELSE slot
    /\ call' = [call EXCEPT ![p] = Idle]
    /\ UNCHANGED <<cache, home, live, handed>>

ResolveBuildFails(p) ==
    /\ call[p].fn = "resolve" /\ call[p].step = "build"
    /\ call' = [call EXCEPT ![p] = Idle]
    /\ UNCHANGED <<slot, cache, home, live, handed>>

\* A client that lost the race loses its only handle, and its worker drains.
Kept(mine, winner) == IF mine = winner THEN live ELSE live \ {mine}

\* Under the slot's write guard: another init may have bound this workspace
\* meanwhile (its client is kept), otherwise the winner of the cache is bound.
InitPublish(p) ==
    LET w == call[p].ws
        mine == call[p].client
        winner == IF slot.ws = w THEN slot.client ELSE Winner(w, mine) IN
    /\ call[p].fn = "init" /\ call[p].step = "publish"
    /\ cache' = [cache EXCEPT ![w] = Winner(w, winner)]
    /\ slot' = [ws |-> w, client |-> winner]
    /\ Return(p, w, winner)
    /\ live' = Kept(mine, winner)
    /\ UNCHANGED home

\* client_for_workspace, slot part: a client the slot holds for this workspace
\* is recorded in the cache while the slot's read guard is held.
ResolveReadSlot(p, w) ==
    /\ "resolve" \in Entries /\ call[p] = Idle
    /\ IF slot.ws = w
       THEN /\ cache' = [cache EXCEPT ![w] = Winner(w, slot.client)]
            /\ Return(p, w, Winner(w, slot.client))
       ELSE /\ Goto(p, "resolve", "cached", w, None)
            /\ UNCHANGED <<cache, handed>>
    /\ UNCHANGED <<slot, home, live>>

ResolveReadCache(p) ==
    LET w == call[p].ws IN
    /\ call[p].fn = "resolve" /\ call[p].step = "cached"
    /\ IF cache[w] # None
       THEN Return(p, w, cache[w])
       ELSE Goto(p, "resolve", "build", w, None) /\ UNCHANGED handed
    /\ UNCHANGED <<slot, cache, home, live>>

ResolvePublish(p) ==
    LET w == call[p].ws
        winner == Winner(w, call[p].client) IN
    /\ call[p].fn = "resolve" /\ call[p].step = "publish"
    /\ cache' = [cache EXCEPT ![w] = winner]
    /\ Return(p, w, winner)
    /\ live' = Kept(call[p].client, winner)
    /\ UNCHANGED <<slot, home>>

\* A host builds its own client through store::factories and hands it to bind.
BindBuild(p, w, c) ==
    /\ "bind" \in Entries /\ call[p] = Idle
    /\ home[c] = None
    /\ home' = [home EXCEPT ![c] = w]
    /\ live' = live \cup {c}
    /\ Goto(p, "bind", "publish", w, c)
    /\ UNCHANGED <<slot, cache, handed>>

\* Faulty variant: bind writes the slot alone.
BindSlotOnly(p) ==
    LET w == call[p].ws
        mine == call[p].client IN
    /\ call[p].fn = "bind" /\ call[p].step = "publish"
    /\ slot' = [ws |-> w, client |-> mine]
    /\ Return(p, w, mine)
    /\ UNCHANGED <<cache, home, live>>

\* bind publishes to cache and slot, or refuses a second client for the
\* workspace; the refused caller keeps using the client it built.
BindPublish(p) ==
    LET w == call[p].ws
        mine == call[p].client
        published == Winner(w, mine)
        refused == published # mine \/ (slot.ws = w /\ slot.client # mine) IN
    /\ call[p].fn = "bind" /\ call[p].step = "publish"
    /\ cache' = [cache EXCEPT ![w] = published]
    /\ IF refused
       THEN call' = [call EXCEPT ![p] = Idle] /\ UNCHANGED <<slot, handed>>
       ELSE slot' = [ws |-> w, client |-> mine] /\ Return(p, w, mine)
    /\ UNCHANGED <<home, live>>

\* Faulty variant: an empty slot is read as a client.
ReadClientUnchecked ==
    /\ handed' = handed \cup {<<slot.ws, slot.client>>}
    /\ UNCHANGED <<slot, cache, home, live, call>>

\* client, client_if_ready, active_workspace_dir: whatever the slot holds
ReadClient ==
    /\ slot # Empty
    /\ handed' = handed \cup {<<slot.ws, slot.client>>}
    /\ UNCHANGED <<slot, cache, home, live, call>>

Next ==
    \/ \E p \in Callers :
          \/ \E w \in Workspaces : InitReadSlot(p, w) \/ ResolveReadSlot(p, w)
          \/ InitReadCache(p) \/ InitRebind(p) \/ InitPublish(p) \/ InitBuildFails(p)
          \/ ResolveReadCache(p) \/ ResolvePublish(p) \/ ResolveBuildFails(p)
          \/ \E c \in Clients : Build(p, c)
          \/ \E w \in Workspaces, c \in Clients : BindBuild(p, w, c)
          \/ BindPublish(p)
    \/ ReadClient

Spec == Init /\ [][Next]_vars

-----------------------------------------------------------------------------
(* Properties                                                               *)

\* The resolution paths converge ("so the two resolution paths converge on one
\* client per workspace", global.rs:77): all calls for a workspace that return
\* Ok, by any path and in any order, return the same client, the cached one.
OneClientPerWorkspace == \A h \in handed : cache[h[1]] = h[2]

\* No path publishes to the slot without publishing to the cache
\* (global.rs:366-369), so a switch away and back never meets a second client.
SlotIsCached == slot # Empty => slot.ws # None /\ cache[slot.ws] = slot.client

\* A client is only ever resolved for the workspace its store lives in: a
\* driver is never handed another workspace's handle.
ClientsStayHome ==
    /\ \A w \in Workspaces : cache[w] # None => home[cache[w]] = w
    /\ \A h \in handed : home[h[2]] = h[1]

\* A client in the cache stays: it is neither replaced nor dropped, so its
\* worker is never dropped under those that hold it.
CacheIsStable ==
    [][\A w \in Workspaces : cache[w] # None => cache'[w] = cache[w] /\ cache[w] \in live']_vars

\* However the entry points race, they agree on one cached client per workspace,
\* publish it to the slot only, and never hand it to another workspace.
ClientsSound == TypeOK /\ OneClientPerWorkspace /\ SlotIsCached /\ ClientsStayHome
=============================================================================
