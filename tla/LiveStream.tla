------------------------------ MODULE LiveStream ------------------------------
(***************************************************************************)
(* The live account stream of the API process: BinanceLiveBridge reads the *)
(* user stream of the exchange and REST snapshots, LiveAccountHub caches   *)
(* the latest state and fans it out to WebSocket clients.                  *)
(*                                                                         *)
(* One event loop: a task runs from one await to the next.  A send reaches *)
(* the client before it can suspend, so storing or merging and the first   *)
(* send of the broadcast are one step, every further send another.  REST   *)
(* calls run in threads: the account is read in one step and the answer is *)
(* taken up in a later one.                                                *)
(*                                                                         *)
(* The account is the version of its position: every change has the next   *)
(* number, an event carries it, and so does a snapshot.                    *)
(***************************************************************************)
EXTENDS Integers, Sequences, FiniteSets

CONSTANTS
  Clients,     \* WebSocket clients
  MaxChanges,  \* changes of the account (a bound)
  MaxRefreshes, \* refreshes clients ask for (a bound)
  MaxCuts      \* dropped connections, expired keys and failed requests (a bound)

ASSUME StreamAssumption ==
  /\ MaxChanges \in Nat /\ MaxRefreshes \in Nat /\ MaxCuts \in Nat
  /\ {"boot", "user"} \cap Clients = {}

VARIABLES
  acct,      \* the exchange: version of the account
  wire,      \* events on the open user stream that were not read yet
  key,       \* _listen_key: "none", "valid", or "expired" at the exchange
  link,      \* _user_stream_loop: "off", "keyed", "open"
  mode,      \* "live" or "paper"
  bridge,    \* run: "starting", "running", "dead" by an exception, "stopped"
  snap,      \* _latest_snapshot
  fetch,     \* REST call of a task
  out,       \* broadcast of a task: what it sends, and to whom still
  conn,      \* client: "away", "on", "gone" (closed, and not noticed yet)
  clients,   \* _clients
  view,      \* what a client shows
  \* bookkeeping of the model
  stale, crossed, refreshes, cuts

exchVars == <<acct, wire>>
linkVars == <<key, link>>
runVars == <<mode, bridge>>
clientVars == <<conn, clients, view>>
ghostVars == <<stale, crossed, refreshes, cuts>>
vars == <<exchVars, linkVars, runVars, snap, fetch, out, clientVars, ghostVars>>

None == -2     \* no snapshot
Empty == -1    \* a snapshot without positions, made from an HTTP error
Idle == -4     \* no REST call
Asked == -3    \* a REST call that has not read the account
Tasks == {"boot", "user"} \cup Clients
Done == [val |-> None, todo |-> {}]

Fail == cuts < MaxCuts /\ cuts' = cuts + 1

-----------------------------------------------------------------------------
(* The hub *)

\* Mutant of Broadcast: clients that are gone stay.
BroadcastKeeping(t, val, first) ==
  /\ out' = [out EXCEPT ![t] = [val |-> val, todo |-> clients \ first]]
  /\ view' = [c \in Clients |-> IF c \in first /\ conn[c] = "on" THEN val ELSE view[c]]
  /\ clients' = clients

\* Mutant of Broadcast: the clients that were reached are discarded.
BroadcastOnce(t, val, first) ==
  /\ out' = [out EXCEPT ![t] = [val |-> val, todo |-> clients \ first]]
  /\ view' = [c \in Clients |-> IF c \in first /\ conn[c] = "on" THEN val ELSE view[c]]
  /\ clients' = clients \ first

\* broadcast: the list of clients is taken now; a client that cannot be reached
\* is discarded (the code does so after the last send).
Broadcast(t, val, first) ==
  /\ out' = [out EXCEPT ![t] = [val |-> val, todo |-> clients \ first]]
  /\ view' = [c \in Clients |-> IF c \in first /\ conn[c] = "on" THEN val ELSE view[c]]
  /\ clients' = clients \ {c \in first : conn[c] = "gone"}

\* The client a broadcast reaches first.
Firsts == IF clients = {} THEN {{}} ELSE {{c} : c \in clients}

\* A client gets a message while an older one of another task is still to come.
Overtakes(t, cs) == {c \in cs : \E u \in Tasks \ {t} : c \in out[u].todo}

Send(t, c) ==
  /\ c \in out[t].todo
  /\ out' = [out EXCEPT ![t].todo = @ \ {c}]
  /\ view' = IF conn[c] = "on" THEN [view EXCEPT ![c] = out[t].val] ELSE view
  /\ clients' = IF conn[c] = "gone" THEN clients \ {c} ELSE clients
  /\ crossed' = crossed \cup Overtakes(t, {c})
  /\ UNCHANGED <<exchVars, linkVars, runVars, snap, fetch, conn, stale, refreshes, cuts>>

\* _merge_state_locked: nothing to merge into before the first snapshot.
Merge(s, v) == IF s = None THEN None ELSE v

\* Mutant of Greeting: nothing but the status.
GreetingStatus(c) == view' = view

\* register: the client is added and the cached snapshot is sent, then the status.
Greeting(c) == view' = IF snap = None THEN view ELSE [view EXCEPT ![c] = snap]

Register(c) ==
  /\ bridge # "stopped" /\ conn[c] = "away" /\ c \notin clients
  /\ clients' = clients \cup {c}
  /\ \/ conn' = [conn EXCEPT ![c] = "on"] /\ Greeting(c) /\ UNCHANGED cuts
     \/ conn' = [conn EXCEPT ![c] = "gone"] /\ Fail /\ UNCHANGED view   \* the send raises
  /\ UNCHANGED <<exchVars, linkVars, runVars, snap, fetch, out, stale, crossed, refreshes>>

\* What broadcasts still want to send to a socket that is closed has no effect, and
\* a client that returns has another socket.
Unlisted(c) == out' = [t \in Tasks |-> [out[t] EXCEPT !.todo = @ \ {c}]]

\* The handler of a client that closes, or whose refresh raised, unregisters it.
Unregistered(c) ==
  /\ Unlisted(c)
  /\ conn' = [conn EXCEPT ![c] = "away"]
  /\ clients' = clients \ {c}
  /\ view' = [view EXCEPT ![c] = None]
  /\ crossed' = crossed \ {c}

Leave(c) ==
  /\ conn[c] = "on" /\ fetch[c] = Idle /\ out[c].todo = {}
  /\ Unregistered(c)
  /\ UNCHANGED <<exchVars, linkVars, runVars, snap, fetch, stale, refreshes, cuts>>

-----------------------------------------------------------------------------
(* REST snapshots *)

\* {"action": "refresh"}
AskRefresh(c) ==
  /\ conn[c] = "on" /\ c \in clients /\ fetch[c] = Idle /\ out[c].todo = {}
  /\ refreshes < MaxRefreshes /\ refreshes' = refreshes + 1
  /\ fetch' = [fetch EXCEPT ![c] = Asked]
  /\ UNCHANGED <<exchVars, linkVars, runVars, snap, out, clientVars, stale, crossed, cuts>>

\* fetch_wallet_info; an HTTP error becomes an empty wallet.
ReadAccount(t) ==
  /\ fetch[t] = Asked
  /\ \/ fetch' = [fetch EXCEPT ![t] = acct] /\ UNCHANGED cuts
     \/ mode = "live" /\ fetch' = [fetch EXCEPT ![t] = Empty] /\ Fail
  /\ UNCHANGED <<exchVars, linkVars, runVars, snap, out, clientVars, stale, crossed, refreshes>>

\* Anything else is raised: run ends at its first snapshot, a client's connection
\* ends.  The paper wallet is made up on the spot and never fails.
ReadRaises(t) ==
  /\ mode = "live" /\ fetch[t] = Asked /\ Fail
  /\ fetch' = [fetch EXCEPT ![t] = Idle]
  /\ bridge' = IF t = "boot" THEN "dead" ELSE bridge
  /\ IF t \in Clients THEN Unregistered(t) ELSE UNCHANGED <<out, clientVars, crossed>>
  /\ UNCHANGED <<exchVars, linkVars, mode, snap, stale, refreshes>>

\* Mutant of StoreSnapshot: the snapshot is sent and not kept.
StoreNothing(val) == snap' = snap

\* set_snapshot
StoreSnapshot(val) == snap' = val

\* _refresh_snapshot goes on: an answer read before an event is stored over it.
TakeSnapshot(t) ==
  /\ fetch[t] \notin {Idle, Asked}
  /\ fetch' = [fetch EXCEPT ![t] = Idle]
  /\ StoreSnapshot(fetch[t])
  /\ \E first \in Firsts :
       /\ Broadcast(t, fetch[t], first)
       /\ crossed' = crossed \cup Overtakes(t, first)
  /\ stale' = (IF fetch[t] = acct /\ wire = <<>> THEN FALSE ELSE stale \/ fetch[t] < snap)
  /\ bridge' = IF t = "boot" /\ mode = "live" /\ bridge = "starting" THEN "running" ELSE bridge
  /\ UNCHANGED <<exchVars, linkVars, mode, conn, refreshes, cuts>>

\* _run_paper_poll: again after the delay.
PaperPoll ==
  /\ mode = "paper" /\ bridge = "running"
  /\ fetch["boot"] = Idle /\ out["boot"].todo = {}
  /\ fetch' = [fetch EXCEPT !["boot"] = Asked]
  /\ UNCHANGED <<exchVars, linkVars, runVars, snap, out, clientVars, ghostVars>>

-----------------------------------------------------------------------------
(* The user stream *)

Working == link = "open" /\ key = "valid"

\* The position changes; the event is sent on a stream that works, or is lost.
Change ==
  /\ mode = "live" /\ acct < MaxChanges
  /\ acct' = acct + 1
  /\ IF Working THEN wire' = Append(wire, acct + 1) /\ stale' = FALSE
     ELSE stale' = TRUE /\ UNCHANGED wire
  /\ UNCHANGED <<linkVars, runVars, snap, fetch, out, clientVars, crossed, refreshes, cuts>>

LoopRuns == bridge = "running" /\ mode = "live" /\ out["user"].todo = {}
             /\ out["boot"].todo = {}

\* _ensure_listen_key; user_stream_connected becomes false here.
EnsureKey ==
  /\ LoopRuns /\ link = "off"
  /\ key' = (IF key = "none" THEN "valid" ELSE key) /\ link' = "keyed"
  /\ UNCHANGED <<exchVars, runVars, snap, fetch, out, clientVars, ghostVars>>

Connect ==
  /\ LoopRuns /\ link = "keyed" /\ key = "valid"
  /\ link' = "open"
  /\ UNCHANGED <<exchVars, key, runVars, snap, fetch, out, clientVars, ghostVars>>

\* Mutant of ForgetKey: the next attempt uses the same key.
KeepKey == key' = key

\* The except branch asks for a new key next time.
ForgetKey == key' = "none"

\* The exchange refuses a key that has expired; anything else fails now and then.
ConnectRaises ==
  /\ LoopRuns /\ link = "keyed"
  /\ IF key = "valid" THEN Fail ELSE UNCHANGED cuts
  /\ ForgetKey /\ link' = "off"
  /\ UNCHANGED <<exchVars, runVars, snap, fetch, out, clientVars, stale, crossed, refreshes>>

\* The connection ends with what is on it: with an exception, or by a close that
\* leaves the key and the status as they were.
Cut ==
  /\ link = "open" /\ link' = "off" /\ wire' = <<>>
  /\ IF key = "valid" THEN Fail ELSE UNCHANGED cuts
  /\ ForgetKey \/ UNCHANGED key
  /\ stale' = (stale \/ wire # <<>>)
  /\ UNCHANGED <<acct, runVars, snap, fetch, out, clientVars, crossed, refreshes>>

\* The key runs out although it is kept alive every so often.  The message that
\* says so, if it comes, only forgets the key: the loop reads on.
KeyExpires ==
  /\ key = "valid" /\ Fail
  /\ key' = "expired" \/ (link = "open" /\ key' = "none")
  /\ UNCHANGED <<exchVars, link, runVars, snap, fetch, out, clientVars, stale, crossed,
                 refreshes>>

\* _handle_user_message: merged, then broadcast; the next one is read after that.
HandleEvent ==
  /\ LoopRuns /\ link = "open" /\ wire # <<>>
  /\ wire' = Tail(wire)
  /\ snap' = Merge(snap, Head(wire))
  /\ \E first \in Firsts :
       /\ Broadcast("user", Head(wire), first)
       /\ crossed' = crossed \cup Overtakes("user", first)
  /\ UNCHANGED <<acct, linkVars, runVars, fetch, conn, stale, refreshes, cuts>>

\* A mark price does not change the position, but finds clients that are gone.
MarkPrice ==
  /\ bridge = "running" /\ mode = "live"
  /\ \E c \in clients : conn[c] = "gone"
  /\ clients' = {c \in clients : conn[c] = "on"}
  /\ UNCHANGED <<exchVars, linkVars, runVars, snap, fetch, out, conn, view, ghostVars>>

\* A client that is gone can come back once it is no longer listed.
Return(c) ==
  /\ conn[c] = "gone" /\ c \notin clients
  /\ conn' = [conn EXCEPT ![c] = "away"]
  /\ view' = [view EXCEPT ![c] = None]
  /\ Unlisted(c)
  /\ UNCHANGED <<exchVars, linkVars, runVars, snap, fetch, clients, ghostVars>>

\* lifespan ends: the connections are closed by then; the tasks are cancelled and
\* the key is given back.
Stop ==
  /\ bridge # "stopped" /\ bridge' = "stopped"
  /\ link' = "off" /\ key' = "none" /\ wire' = <<>>
  /\ conn' = [c \in Clients |-> "away"] /\ clients' = {} /\ view' = [c \in Clients |-> None]
  /\ fetch' = [t \in Tasks |-> Idle] /\ out' = [t \in Tasks |-> Done]
  /\ crossed' = {}
  /\ UNCHANGED <<acct, mode, snap, stale, refreshes, cuts>>

\* The process has ended.
Ended == bridge = "stopped" /\ UNCHANGED vars

Init ==
  /\ acct = 0 /\ wire = <<>> /\ key = "none" /\ link = "off"
  /\ mode \in {"live", "paper"} /\ bridge = (IF mode = "live" THEN "starting" ELSE "running")
  /\ snap = None
  /\ fetch = [t \in Tasks |-> IF t = "boot" THEN Asked ELSE Idle]
  /\ out = [t \in Tasks |-> Done]
  /\ conn = [c \in Clients |-> "away"] /\ clients = {} /\ view = [c \in Clients |-> None]
  /\ stale = FALSE /\ crossed = {} /\ refreshes = 0 /\ cuts = 0

Rest == \E t \in Tasks : ReadAccount(t) \/ ReadRaises(t) \/ TakeSnapshot(t)
Sends == \E t \in Tasks, c \in Clients : Send(t, c)

Next ==
  \/ Change \/ Cut \/ KeyExpires
  \/ Rest \/ Sends \/ PaperPoll
  \/ EnsureKey \/ Connect \/ ConnectRaises \/ HandleEvent \/ MarkPrice
  \/ \E c \in Clients : Register(c) \/ Leave(c) \/ AskRefresh(c) \/ Return(c)
  \/ Stop \/ Ended

Spec == Init /\ [][Next]_vars

\* The event loop runs its tasks, requests end, mark prices keep coming, and the
\* exchange ends a connection after a day at the latest.
Fairness ==
  /\ WF_vars(Rest) /\ WF_vars(Sends) /\ WF_vars(PaperPoll)
  /\ WF_vars(EnsureKey) /\ WF_vars(Connect) /\ WF_vars(ConnectRaises)
  /\ WF_vars(HandleEvent) /\ WF_vars(MarkPrice) /\ WF_vars(Cut)

FairSpec == Spec /\ Fairness

-----------------------------------------------------------------------------
(* Properties *)

Versions == 0 .. MaxChanges

TypeOK ==
  /\ acct \in Versions /\ wire \in Seq(Versions) /\ Len(wire) <= MaxChanges
  /\ key \in {"none", "valid", "expired"} /\ link \in {"off", "keyed", "open"}
  /\ mode \in {"live", "paper"} /\ bridge \in {"starting", "running", "dead", "stopped"}
  /\ snap \in Versions \cup {None, Empty}
  /\ fetch \in [Tasks -> Versions \cup {Idle, Asked, Empty}]
  /\ out \in [Tasks -> [val : Versions \cup {None, Empty}, todo : SUBSET Clients]]
  /\ conn \in [Clients -> {"away", "on", "gone"}]
  /\ clients \subseteq Clients /\ {c \in Clients : conn[c] = "on"} \subseteq clients
  /\ view \in [Clients -> Versions \cup {None, Empty}]
  /\ stale \in BOOLEAN /\ crossed \subseteq Clients

\* Nothing is under way.
Quiet ==
  /\ wire = <<>>
  /\ \A t \in Tasks : fetch[t] = Idle /\ out[t].todo = {}

\* No event meets a hub without a snapshot, and at rest the cached state is the
\* account, unless the last change was lost with the connection, or a REST
\* snapshot was stored that had failed or was older than what it replaced.  A
\* snapshot repairs both when no event older than it is still to come.
HubCurrent ==
  /\ link = "open" => snap # None
  /\ Quiet /\ bridge = "running" /\ ~stale /\ snap >= 0 => snap = acct

\* At rest every client shows what the hub has, unless a broadcast overtook
\* another one of a different task on the way to it.
ClientsAgree ==
  Quiet /\ snap # None => \A c \in clients \ crossed : conn[c] = "on" => view[c] = snap

\* Once the bridge runs, the user stream works again and again, whatever is cut,
\* refused or expires.
StreamComesBack == (bridge = "running" /\ mode = "live") ~> (Working \/ bridge # "running")

\* A client that is gone leaves the list although nobody unregisters it, once the
\* bridge runs.
GoneClientsDropped ==
  \A c \in Clients : c \in clients /\ conn[c] = "gone" /\ bridge = "running"
                       ~> (c \notin clients \/ bridge # "running")
===============================================================================
