--------------------------- MODULE LiveStream_proofs ---------------------------
(***************************************************************************)
(* Theorems about LiveStream for every number of clients, changes and      *)
(* failures: types, what the hub caches, what clients show at rest.        *)
(***************************************************************************)
EXTENDS LiveStream, SequenceTheorems, TLAPS

\* Which parts of the bridge can be at work together.
Linked ==
  /\ link # "off" => mode = "live" /\ bridge = "running"
  /\ mode = "live" /\ bridge = "running" => snap # None
  /\ mode = "live" /\ bridge # "starting" => fetch["boot"] = Idle
  /\ wire # <<>> => link = "open"
  /\ Len(wire) <= acct

Base == TypeOK /\ Linked

Answers == Versions \cup {Idle, Asked, Empty}
Broadcasts == [val : Versions \cup {None, Empty}, todo : SUBSET Clients]

-----------------------------------------------------------------------------
(* Lemmas about the operators *)

\* What a broadcast does when it starts: it is due to all clients but the first, which shows it
\* if it is connected.
LEMMA BroadcastStarts ==
  ASSUME TypeOK, NEW t \in Tasks, NEW val \in Versions \cup {Empty}, NEW first \in Firsts,
         Broadcast(t, val, first)
  PROVE  /\ first \subseteq clients
         /\ out' \in [Tasks -> Broadcasts]
         /\ \A u \in Tasks : out'[u] = (IF u = t THEN [val |-> val, todo |-> clients \ first] ELSE out[u])
         /\ view' \in [Clients -> Versions \cup {None, Empty}]
         /\ \A c \in Clients : view'[c] = (IF c \in first /\ conn[c] = "on" THEN val ELSE view[c])
         /\ clients' \subseteq clients
         /\ {c \in clients : conn[c] = "on"} \subseteq clients'
<1>1. first \subseteq clients
  BY DEF Firsts
<1>2. clients \subseteq Clients /\ out \in [Tasks -> Broadcasts]
        /\ view \in [Clients -> Versions \cup {None, Empty}]
  BY DEF TypeOK, Broadcasts
<1> DEFINE b == [val |-> val, todo |-> clients \ first]
<1>3. out' = [out EXCEPT ![t] = b]
        /\ view' = [c \in Clients |-> IF c \in first /\ conn[c] = "on" THEN val ELSE view[c]]
        /\ clients' = clients \ {c \in first : conn[c] = "gone"}
  BY DEF Broadcast
<1>4. b \in Broadcasts
  BY <1>2 DEF Broadcasts
<1> HIDE DEF b
<1>5. out' \in [Tasks -> Broadcasts] /\ \A u \in Tasks : out'[u] = (IF u = t THEN b ELSE out[u])
  BY <1>2, <1>3, <1>4
<1>6. view' \in [Clients -> Versions \cup {None, Empty}]
        /\ \A c \in Clients : view'[c] = (IF c \in first /\ conn[c] = "on" THEN val ELSE view[c])
  BY <1>2, <1>3
<1>7. clients' \subseteq clients /\ {c \in clients : conn[c] = "on"} \subseteq clients'
  BY <1>3
<1> QED BY <1>1, <1>5, <1>6, <1>7 DEF b

\* A broadcast that forgets a client keeps the others.
LEMMA UnlistedForgets ==
  ASSUME TypeOK, NEW c \in Clients, Unlisted(c)
  PROVE  /\ out' \in [Tasks -> Broadcasts]
         /\ \A t \in Tasks : out'[t].val = out[t].val /\ out'[t].todo = out[t].todo \ {c}
<1>1. out \in [Tasks -> Broadcasts] /\ out' = [t \in Tasks |-> [out[t] EXCEPT !.todo = @ \ {c}]]
  BY DEF TypeOK, Unlisted, Broadcasts
<1>2. ASSUME NEW t \in Tasks
      PROVE  /\ out'[t] \in Broadcasts
             /\ out'[t].val = out[t].val /\ out'[t].todo = out[t].todo \ {c}
  BY <1>1 DEF Broadcasts
<1> QED BY <1>1, <1>2

-----------------------------------------------------------------------------
(* Types, and what is at work together *)

\* A client that is unregistered leaves every list.
LEMMA UnregisteredTypes ==
  ASSUME TypeOK, NEW c \in Clients, Unregistered(c)
  PROVE  /\ out' \in [Tasks -> Broadcasts] /\ conn' \in [Clients -> {"away", "on", "gone"}]
         /\ clients' \subseteq Clients /\ {d \in Clients : conn'[d] = "on"} \subseteq clients'
         /\ view' \in [Clients -> Versions \cup {None, Empty}] /\ crossed' \subseteq Clients
<1>1. out' \in [Tasks -> Broadcasts]
  BY UnlistedForgets DEF Unregistered
<1>2. /\ conn' = [conn EXCEPT ![c] = "away"] /\ clients' = clients \ {c}
      /\ view' = [view EXCEPT ![c] = None] /\ crossed' = crossed \ {c}
  BY DEF Unregistered
<1>3. conn' \in [Clients -> {"away", "on", "gone"}]
        /\ \A d \in Clients : conn'[d] = (IF d = c THEN "away" ELSE conn[d])
  BY <1>2 DEF TypeOK
<1> QED BY <1>1, <1>2, <1>3 DEF TypeOK

\* The clients and the REST calls leave types and links what they are.
LEMMA BaseByClients ==
  ASSUME Base, NEW c \in Clients,
         Register(c) \/ Leave(c) \/ AskRefresh(c) \/ Return(c) \/ \E t \in Tasks : Send(t, c)
  PROVE  Base'
<1> USE DEF exchVars, linkVars, runVars, clientVars, ghostVars
<1>0. TypeOK /\ Linked /\ acct \in Nat /\ MaxChanges \in Nat /\ Len(wire) \in Nat
  BY StreamAssumption DEF Base, TypeOK, Versions
<1>1. CASE Register(c)
  <2>1. /\ conn' \in [Clients -> {"away", "on", "gone"}] /\ clients' = clients \cup {c}
        /\ {d \in Clients : conn'[d] = "on"} \subseteq clients'
    BY <1>0, <1>1 DEF Register, TypeOK
  <2>2. view' \in [Clients -> Versions \cup {None, Empty}]
    BY <1>0, <1>1 DEF Register, Greeting, TypeOK
  <2>3. UNCHANGED <<exchVars, linkVars, runVars, snap, fetch, out, stale, crossed>>
    BY <1>1 DEF Register
  <2> QED BY <1>0, <2>1, <2>2, <2>3 DEF Base, TypeOK, Linked, Versions
<1>2. CASE Leave(c)
  <2>1. UNCHANGED <<exchVars, linkVars, runVars, snap, fetch, stale>> /\ Unregistered(c)
    BY <1>2 DEF Leave
  <2> QED BY <1>0, <2>1, UnregisteredTypes DEF Base, TypeOK, Linked, Versions, Broadcasts
<1>3. CASE AskRefresh(c)
  <2>1. fetch' = [fetch EXCEPT ![c] = Asked] /\ c # "boot"
          /\ UNCHANGED <<exchVars, linkVars, runVars, snap, out, clientVars, stale, crossed>>
    BY <1>3, StreamAssumption DEF AskRefresh
  <2>2. fetch' \in [Tasks -> Answers] /\ fetch'["boot"] = fetch["boot"]
    BY <1>0, <2>1 DEF TypeOK, Answers, Tasks
  <2> QED BY <1>0, <2>1, <2>2 DEF Base, TypeOK, Linked, Versions, Answers
<1>4. CASE Return(c)
  <2>1. UNCHANGED <<exchVars, linkVars, runVars, snap, fetch, clients, ghostVars>> /\ Unlisted(c)
          /\ conn' = [conn EXCEPT ![c] = "away"] /\ view' = [view EXCEPT ![c] = None]
    BY <1>4 DEF Return
  <2>2. /\ conn' \in [Clients -> {"away", "on", "gone"}]
        /\ view' \in [Clients -> Versions \cup {None, Empty}]
        /\ {d \in Clients : conn'[d] = "on"} \subseteq {d \in Clients : conn[d] = "on"}
    BY <1>0, <2>1 DEF TypeOK
  <2> QED BY <1>0, <2>1, <2>2, UnlistedForgets DEF Base, TypeOK, Linked, Versions, Broadcasts
<1>5. ASSUME NEW t \in Tasks, Send(t, c)
      PROVE  Base'
  <2>1. UNCHANGED <<exchVars, linkVars, runVars, snap, fetch, conn, stale>>
          /\ clients' = (IF conn[c] = "gone" THEN clients \ {c} ELSE clients)
          /\ crossed' = crossed \cup Overtakes(t, {c})
    BY <1>5 DEF Send
  <2>2. out' \in [Tasks -> Broadcasts]
    BY <1>0, <1>5 DEF Send, TypeOK, Broadcasts
  <2>3. view' \in [Clients -> Versions \cup {None, Empty}]
    BY <1>0, <1>5 DEF Send, TypeOK
  <2>4. crossed' \subseteq Clients
    BY <1>0, <2>1 DEF Overtakes, TypeOK
  <2> QED BY <1>0, <2>1, <2>2, <2>3, <2>4 DEF Base, TypeOK, Linked, Versions, Broadcasts
<1> QED BY <1>1, <1>2, <1>3, <1>4, <1>5

\* So do the REST calls.
LEMMA BaseByRest ==
  ASSUME Base, NEW t \in Tasks, ReadAccount(t) \/ ReadRaises(t) \/ TakeSnapshot(t)
  PROVE  Base'
<1> USE DEF exchVars, linkVars, runVars, clientVars, ghostVars
<1>0. TypeOK /\ Linked /\ acct \in Versions /\ acct \in Nat /\ MaxChanges \in Nat /\ Len(wire) \in Nat
        /\ fetch \in [Tasks -> Answers] /\ "boot" \in Tasks
  BY StreamAssumption DEF Base, TypeOK, Versions, Answers, Tasks
<1>1. CASE ReadAccount(t)
  <2>1. /\ fetch[t] = Asked
        /\ fetch' = [fetch EXCEPT ![t] = acct] \/ fetch' = [fetch EXCEPT ![t] = Empty]
        /\ UNCHANGED <<exchVars, linkVars, runVars, snap, out, clientVars, stale, crossed>>
    BY <1>1 DEF ReadAccount
  <2>2. fetch' \in [Tasks -> Answers] /\ (fetch["boot"] = Idle => fetch'["boot"] = Idle)
    BY <1>0, <2>1 DEF Answers, Idle, Asked
  <2> QED BY <1>0, <2>1, <2>2 DEF Base, TypeOK, Linked, Versions, Answers
<1>2. CASE ReadRaises(t)
  <2>1. /\ mode = "live" /\ fetch[t] = Asked /\ fetch' = [fetch EXCEPT ![t] = Idle]
        /\ bridge' = (IF t = "boot" THEN "dead" ELSE bridge)
        /\ UNCHANGED <<exchVars, linkVars, mode, snap, stale>>
    BY <1>2 DEF ReadRaises
  <2>2. fetch' \in [Tasks -> Answers] /\ (t = "boot" \/ fetch["boot"] = Idle => fetch'["boot"] = Idle)
    BY <1>0, <2>1 DEF Answers
  <2>3. t = "boot" => bridge = "starting"
    BY <1>0, <2>1 DEF Linked, Idle, Asked
  <2>4. /\ out' \in [Tasks -> Broadcasts] /\ conn' \in [Clients -> {"away", "on", "gone"}]
        /\ clients' \subseteq Clients /\ {d \in Clients : conn'[d] = "on"} \subseteq clients'
        /\ view' \in [Clients -> Versions \cup {None, Empty}] /\ crossed' \subseteq Clients
    <3>1. CASE t \in Clients
      BY <1>0, <1>2, <3>1, UnregisteredTypes DEF ReadRaises
    <3>2. CASE t \notin Clients
      BY <1>0, <1>2, <3>2 DEF ReadRaises, TypeOK, Broadcasts
    <3> QED BY <3>1, <3>2
  <2> QED BY <1>0, <2>1, <2>2, <2>3, <2>4 DEF Base, TypeOK, Linked, Versions, Answers, Broadcasts
<1>3. CASE TakeSnapshot(t)
  <2>1. /\ fetch[t] \in Versions \cup {Empty} /\ fetch' = [fetch EXCEPT ![t] = Idle]
        /\ snap' = fetch[t]
        /\ bridge' = (IF t = "boot" /\ mode = "live" /\ bridge = "starting" THEN "running" ELSE bridge)
        /\ UNCHANGED <<exchVars, linkVars, mode, conn>>
    BY <1>0, <1>3 DEF TakeSnapshot, StoreSnapshot, Answers
  <2>2. PICK first \in Firsts : Broadcast(t, fetch[t], first) /\ crossed' = crossed \cup Overtakes(t, first)
    BY <1>3 DEF TakeSnapshot
  <2>3. /\ first \subseteq clients
        /\ out' \in [Tasks -> Broadcasts] /\ view' \in [Clients -> Versions \cup {None, Empty}]
        /\ clients' \subseteq clients /\ {d \in clients : conn[d] = "on"} \subseteq clients'
    BY <1>0, <2>1, <2>2, BroadcastStarts
  <2>4. crossed' \subseteq Clients
    BY <1>0, <2>2, <2>3 DEF Overtakes, TypeOK
  <2>5. fetch' \in [Tasks -> Answers] /\ (t = "boot" \/ fetch["boot"] = Idle => fetch'["boot"] = Idle)
    BY <1>0, <2>1 DEF Answers
  <2>6. stale' \in BOOLEAN
    BY <1>3, Zenon DEF TakeSnapshot
  <2>7. snap' # None
    BY <2>1 DEF Versions, None, Empty
  <2>8. TypeOK'
    BY <1>0, <2>1, <2>3, <2>4, <2>5, <2>6 DEF TypeOK, Versions, Answers, Broadcasts
  <2>9. Linked'
    BY <1>0, <2>1, <2>5, <2>7 DEF Linked
  <2> QED BY <2>8, <2>9 DEF Base
<1> QED BY <1>1, <1>2, <1>3

\* So does the user stream.
LEMMA BaseByStream ==
  ASSUME Base,
         \/ Change \/ Cut \/ KeyExpires \/ PaperPoll \/ EnsureKey \/ Connect \/ ConnectRaises
         \/ HandleEvent \/ MarkPrice \/ Stop \/ UNCHANGED vars
  PROVE  Base'
<1> USE DEF exchVars, linkVars, runVars, clientVars, ghostVars
<1>0. /\ TypeOK /\ Linked /\ acct \in Versions /\ acct \in Nat /\ MaxChanges \in Nat
      /\ wire \in Seq(Versions) /\ Len(wire) \in Nat /\ fetch \in [Tasks -> Answers]
      /\ "boot" \in Tasks /\ "user" \in Tasks /\ "boot" # "user"
  BY StreamAssumption DEF Base, TypeOK, Versions, Answers, Tasks
<1>1. CASE Change
  <2>1. /\ mode = "live" /\ acct < MaxChanges /\ acct' = acct + 1
        /\ UNCHANGED <<linkVars, runVars, snap, fetch, out, clientVars, crossed>>
    BY <1>1 DEF Change
  <2>2. acct' \in Versions
    BY <1>0, <2>1 DEF Versions
  <2>3. /\ wire' \in Seq(Versions) /\ Len(wire') \in Nat /\ Len(wire') <= acct'
        /\ (wire' # <<>> => link = "open")
    <3>1. CASE Working
      <4>1. wire' = Append(wire, acct + 1) /\ acct + 1 \in Versions /\ link = "open"
        BY <1>1, <2>1, <2>2, <3>1 DEF Change, Working
      <4>2. wire' \in Seq(Versions) /\ Len(wire') = Len(wire) + 1
        BY <1>0, <4>1, AppendProperties
      <4> QED BY <1>0, <2>1, <4>1, <4>2 DEF Linked
    <3>2. CASE ~Working
      BY <1>0, <1>1, <2>1, <3>2 DEF Change, Linked
    <3> QED BY <3>1, <3>2
  <2>4. stale' \in BOOLEAN
    BY <1>1 DEF Change
  <2>5. TypeOK'
    BY <1>0, <2>1, <2>2, <2>3, <2>4 DEF TypeOK, Versions
  <2>6. Linked'
    BY <1>0, <2>1, <2>3 DEF Linked
  <2> QED BY <2>5, <2>6 DEF Base
<1>2. CASE Cut
  <2>1. /\ link' = "off" /\ wire' = <<>> /\ key' \in {"none", key}
        /\ UNCHANGED <<acct, runVars, snap, fetch, out, clientVars, crossed>>
    BY <1>2 DEF Cut, ForgetKey
  <2>2. stale' \in BOOLEAN
    BY <1>2, Zenon DEF Cut
  <2> QED BY <1>0, <2>1, <2>2 DEF Base, TypeOK, Linked, Versions
<1>3. CASE KeyExpires
  BY <1>0, <1>3 DEF KeyExpires, Base, TypeOK, Linked, Versions
<1>4. CASE PaperPoll
  <2>1. /\ mode = "paper" /\ fetch' = [fetch EXCEPT !["boot"] = Asked]
        /\ UNCHANGED <<exchVars, linkVars, runVars, snap, out, clientVars, ghostVars>>
    BY <1>4 DEF PaperPoll
  <2>2. fetch' \in [Tasks -> Answers]
    BY <1>0, <2>1 DEF Answers
  <2> QED BY <1>0, <2>1, <2>2 DEF Base, TypeOK, Linked, Versions, Answers
<1>5. CASE EnsureKey \/ Connect \/ ConnectRaises
  <2>1. /\ key' \in {"none", "valid", "expired"} /\ link' \in {"off", "keyed", "open"}
        /\ mode = "live" /\ bridge = "running" /\ (link = "open" => link' = "open")
        /\ UNCHANGED <<exchVars, runVars, snap, fetch, out, clientVars, stale, crossed>>
    BY <1>0, <1>5 DEF EnsureKey, Connect, ConnectRaises, ForgetKey, LoopRuns, TypeOK
  <2> QED BY <1>0, <2>1 DEF Base, TypeOK, Linked, Versions
<1>6. CASE HandleEvent
  <2>1. /\ link = "open" /\ wire # <<>> /\ wire' = Tail(wire)
        /\ UNCHANGED <<acct, linkVars, runVars, fetch, conn, stale>>
    BY <1>6 DEF HandleEvent
  <2>2. snap # None /\ snap' = Head(wire)
    BY <1>0, <1>6, <2>1 DEF HandleEvent, Merge, Linked
  <2>3. Head(wire) \in Versions /\ wire' \in Seq(Versions) /\ Len(wire') = Len(wire) - 1
          /\ Len(wire) > 0
    BY <1>0, <2>1, HeadTailProperties
  <2>4. PICK first \in Firsts : Broadcast("user", Head(wire), first)
                                 /\ crossed' = crossed \cup Overtakes("user", first)
    BY <1>6 DEF HandleEvent
  <2>5. /\ first \subseteq clients
        /\ out' \in [Tasks -> Broadcasts] /\ view' \in [Clients -> Versions \cup {None, Empty}]
        /\ clients' \subseteq clients /\ {d \in clients : conn[d] = "on"} \subseteq clients'
    BY <1>0, <2>3, <2>4, BroadcastStarts
  <2>6. crossed' \subseteq Clients
    BY <1>0, <2>4, <2>5 DEF Overtakes, TypeOK
  <2>7. snap' # None /\ snap' \in Versions
    BY <2>2, <2>3 DEF Versions, None
  <2>8. TypeOK'
    BY <1>0, <2>1, <2>3, <2>5, <2>6, <2>7 DEF TypeOK, Versions, Answers, Broadcasts
  <2>9. Linked'
    BY <1>0, <2>1, <2>3, <2>7 DEF Linked
  <2> QED BY <2>8, <2>9 DEF Base
<1>7. CASE MarkPrice
  BY <1>0, <1>7 DEF MarkPrice, Base, TypeOK, Linked, Versions
<1>8. CASE Stop
  <2>1. /\ bridge' = "stopped" /\ link' = "off" /\ key' = "none" /\ wire' = <<>> /\ clients' = {}
        /\ crossed' = {} /\ UNCHANGED <<acct, mode, snap, stale>>
    BY <1>8 DEF Stop
  <2>2. /\ conn' \in [Clients -> {"away"}] /\ view' \in [Clients -> {None}]
        /\ fetch' \in [Tasks -> {Idle}]
    BY <1>8 DEF Stop
  <2>3. Done \in Broadcasts
    BY DEF Done, Broadcasts
  <2>4. out' \in [Tasks -> Broadcasts]
    BY <1>8, <2>3 DEF Stop
  <2>5. {d \in Clients : conn'[d] = "on"} = {} /\ fetch'["boot"] = Idle
    BY <1>0, <2>2
  <2>6. /\ conn' \in [Clients -> {"away", "on", "gone"}] /\ view' \in [Clients -> Versions \cup {None, Empty}]
        /\ fetch' \in [Tasks -> Answers]
    BY <2>2 DEF Answers
  <2>7. TypeOK'
    BY <1>0, <2>1, <2>4, <2>5, <2>6 DEF TypeOK, Versions, Answers, Broadcasts
  <2>8. Linked'
    BY <1>0, <2>1, <2>5 DEF Linked
  <2> QED BY <2>7, <2>8 DEF Base
<1>9. CASE UNCHANGED vars
  BY <1>0, <1>9 DEF vars, Base, TypeOK, Linked, Versions
<1> QED BY <1>1, <1>2, <1>3, <1>4, <1>5, <1>6, <1>7, <1>8, <1>9

\* Types and links hold from the start.
LEMMA BaseInit == Init => Base
<1> SUFFICES ASSUME Init PROVE Base
  OBVIOUS
<1>0. MaxChanges \in Nat /\ Done \in Broadcasts
  BY StreamAssumption DEF Done, Broadcasts
<1>1. fetch \in [Tasks -> Answers] /\ out \in [Tasks -> Broadcasts]
  BY <1>0 DEF Init, Answers
<1>2. /\ conn \in [Clients -> {"away", "on", "gone"}] /\ view \in [Clients -> Versions \cup {None, Empty}]
      /\ {d \in Clients : conn[d] = "on"} = {}
  BY DEF Init
<1>3. stale \in BOOLEAN /\ bridge \in {"starting", "running"} /\ mode \in {"live", "paper"}
        /\ (mode = "live" => bridge = "starting")
  BY DEF Init
<1>4. acct = 0 /\ wire = <<>> /\ key = "none" /\ link = "off" /\ snap = None /\ clients = {} /\ crossed = {}
  BY DEF Init
<1>5. wire \in Seq(Versions) /\ Len(wire) = 0
  BY <1>4
<1>6. TypeOK
  BY <1>0, <1>1, <1>2, <1>3, <1>4, <1>5 DEF TypeOK, Versions, Answers, Broadcasts
<1>7. Linked
  BY <1>3, <1>4, <1>5 DEF Linked
<1> QED BY <1>6, <1>7 DEF Base

\* And after every step.
LEMMA BaseStep == Base /\ [Next]_vars => Base'
<1> SUFFICES ASSUME Base, [Next]_vars PROVE Base'
  OBVIOUS
<1> QED BY BaseByClients, BaseByRest, BaseByStream DEF Next, Rest, Sends, Ended

\* So they hold always.
LEMMA BaseHolds == Spec => []Base
  BY BaseInit, BaseStep, PTL DEF Spec

\* Every variable keeps its type; in particular every client that is connected is listed.
THEOREM StreamTypes == Spec => []TypeOK
<1>1. Base => TypeOK
  BY DEF Base
<1> QED BY <1>1, BaseHolds, PTL

-----------------------------------------------------------------------------
(* What the hub caches *)

\* Nothing that was read is newer than the account.
Known ==
  /\ snap <= acct /\ \A t \in Tasks : fetch[t] <= acct
  /\ \A i \in 1 .. Len(wire) : wire[i] <= acct

\* Unless a change was missed or a snapshot older, the last event on the way brings the account,
\* or it is cached, or it never changed.
Current ==
  bridge # "stopped" /\ ~stale =>
    IF wire # <<>> THEN wire[Len(wire)] = acct
    ELSE IF snap < 0 THEN acct = 0 ELSE snap = acct

\* Answers and snapshots are numbers.
LEMMA NumbersOnly ==
  ASSUME Base
  PROVE  /\ acct \in Nat /\ snap \in Int /\ snap >= -2 /\ (snap # None => snap >= -1)
         /\ \A t \in Tasks : fetch[t] \in Int
         /\ \A t \in Tasks : fetch[t] \notin {Idle, Asked} => fetch[t] >= -1
<1>1. MaxChanges \in Nat
  BY StreamAssumption
<1>2. acct \in Nat
  BY <1>1 DEF Base, TypeOK, Versions
<1>3. snap \in Int /\ snap >= -2 /\ (snap # None => snap >= -1)
  BY <1>1 DEF Base, TypeOK, Versions, None, Empty
<1>4. ASSUME NEW t \in Tasks
      PROVE  fetch[t] \in Int /\ (fetch[t] \notin {Idle, Asked} => fetch[t] >= -1)
  <2>1. fetch[t] \in Versions \cup {Idle, Asked, Empty}
    BY DEF Base, TypeOK
  <2>2. Versions \subseteq Nat
    BY <1>1 DEF Versions
  <2>3. CASE fetch[t] \in Nat
    BY <2>3
  <2>4. CASE fetch[t] \in {Idle, Asked, Empty}
    BY <2>4 DEF Idle, Asked, Empty
  <2> QED BY <2>1, <2>2, <2>3, <2>4
<1> QED BY <1>2, <1>3, <1>4

\* The last event of the wire is the last of what is left of it.
LEMMA LastStays ==
  ASSUME Base, wire # <<>>
  PROVE  /\ Len(wire) \in Nat /\ Len(wire) > 0 /\ Head(wire) = wire[1]
         /\ Tail(wire) = <<>> => Len(wire) = 1
         /\ Tail(wire) # <<>> => Tail(wire)[Len(Tail(wire))] = wire[Len(wire)]
         /\ \A i \in 1 .. Len(Tail(wire)) : i + 1 \in 1 .. Len(wire) /\ Tail(wire)[i] = wire[i + 1]
<1>1. wire \in Seq(Versions) /\ Len(wire) \in Nat /\ Len(wire) > 0
  BY DEF Base, TypeOK
<1>2. /\ Head(wire) = wire[1] /\ Tail(wire) \in Seq(Versions) /\ Len(Tail(wire)) = Len(wire) - 1
      /\ \A i \in 1 .. Len(Tail(wire)) : Tail(wire)[i] = wire[i + 1]
  BY <1>1, HeadTailProperties
<1> DEFINE rest == Tail(wire)
<1> HIDE DEF rest
<1>3. /\ Head(wire) = wire[1] /\ rest \in Seq(Versions) /\ Len(rest) = Len(wire) - 1
      /\ \A i \in 1 .. Len(rest) : rest[i] = wire[i + 1]
  BY <1>2 DEF rest
<1>4. rest = <<>> <=> Len(rest) = 0
  BY <1>3, EmptySeq
<1>5. rest # <<>> => rest[Len(rest)] = wire[Len(wire)]
  <2>1. SUFFICES ASSUME rest # <<>> PROVE rest[Len(rest)] = wire[Len(wire)]
    OBVIOUS
  <2>2. Len(rest) \in 1 .. Len(rest) /\ Len(rest) + 1 = Len(wire)
    BY <1>1, <1>3, <1>4, <2>1
  <2> QED BY <1>3, <2>2
<1>6. \A i \in 1 .. Len(rest) : i + 1 \in 1 .. Len(wire) /\ rest[i] = wire[i + 1]
  BY <1>1, <1>3
<1> QED BY <1>1, <1>3, <1>4, <1>5, <1>6 DEF rest

\* Storing an answer: what is older than the account and not missed is older than the cache too.
LEMMA HubByRest ==
  ASSUME Base, Known, Current, NEW t \in Tasks, ReadAccount(t) \/ ReadRaises(t) \/ TakeSnapshot(t)
  PROVE  Known' /\ Current'
<1> USE DEF exchVars, linkVars, runVars, clientVars, ghostVars
<1>0. /\ acct \in Nat /\ snap \in Int /\ \A u \in Tasks : fetch[u] \in Int
      /\ fetch \in [Tasks -> Answers]
  BY NumbersOnly DEF Base, TypeOK, Answers
<1>1. CASE ReadAccount(t) \/ ReadRaises(t)
  <2>1. /\ \E a \in {acct, Empty, Idle} : fetch' = [fetch EXCEPT ![t] = a]
        /\ UNCHANGED <<exchVars, snap, stale>> /\ (bridge' = "stopped" <=> bridge = "stopped")
    BY <1>1 DEF ReadAccount, ReadRaises, Base, Linked, TypeOK, Idle, Asked, Tasks
  <2>2. \A u \in Tasks : fetch'[u] <= acct
    BY <1>0, <2>1 DEF Known, Empty, Idle
  <2> QED BY <2>1, <2>2 DEF Known, Current
<1>2. CASE TakeSnapshot(t)
  <2>1. /\ fetch[t] \notin {Idle, Asked} /\ fetch' = [fetch EXCEPT ![t] = Idle]
        /\ snap' = fetch[t] /\ UNCHANGED <<acct, wire>>
        /\ (bridge' = "stopped" <=> bridge = "stopped")
    BY <1>2 DEF TakeSnapshot, StoreSnapshot
  <2>2. stale' = (IF fetch[t] = acct /\ wire = <<>> THEN FALSE ELSE stale \/ fetch[t] < snap)
    BY <1>2 DEF TakeSnapshot
  <2>3. Known'
    BY <1>0, <2>1 DEF Known, Idle
  <2>4. fetch[t] >= -1 /\ fetch[t] <= acct
    BY <2>1, NumbersOnly DEF Known
  <2>5. CASE fetch[t] = acct /\ wire = <<>>
    <3>1. snap' = acct /\ acct >= 0 /\ wire' = <<>>
      BY <1>0, <2>1, <2>5
    <3>2. Current'
      BY <1>0, <2>1, <3>1 DEF Current
    <3> QED BY <2>3, <3>2
  <2>6. CASE ~(fetch[t] = acct /\ wire = <<>>)
    <3>1. ~stale' => ~stale /\ ~(fetch[t] < snap)
      BY <2>2, <2>6, Zenon
    <3>2. wire = <<>> => fetch[t] # acct
      BY <2>6
    <3>3. ASSUME bridge # "stopped", ~stale', wire = <<>>
          PROVE  IF snap' < 0 THEN acct = 0 ELSE snap' = acct
      <4>1. IF snap < 0 THEN acct = 0 ELSE snap = acct
        BY <3>1, <3>3 DEF Current
      <4>2. ~(fetch[t] < snap) /\ fetch[t] # acct
        BY <3>1, <3>2, <3>3
      <4> QED BY <1>0, <2>1, <2>4, <4>1, <4>2
    <3> QED BY <2>1, <2>3, <3>1, <3>3 DEF Current
  <2> QED BY <2>3, <2>5, <2>6
<1> QED BY <1>1, <1>2

\* An event brings the account that it was sent for; one that is lost is missed.
LEMMA HubByStream ==
  ASSUME Base, Known, Current,
         \/ Change \/ Cut \/ KeyExpires \/ PaperPoll \/ EnsureKey \/ Connect \/ ConnectRaises
         \/ HandleEvent \/ MarkPrice \/ Stop \/ UNCHANGED vars
  PROVE  Known' /\ Current'
<1> USE DEF exchVars, linkVars, runVars, clientVars, ghostVars
<1>0. /\ acct \in Nat /\ snap \in Int /\ \A u \in Tasks : fetch[u] \in Int
      /\ fetch \in [Tasks -> Answers] /\ wire \in Seq(Versions)
  BY NumbersOnly DEF Base, TypeOK, Answers
<1>1. CASE Change
  <2>1. acct' = acct + 1 /\ UNCHANGED <<snap, fetch>>
    BY <1>1 DEF Change
  <2>2. snap <= acct' /\ \A u \in Tasks : fetch[u] <= acct'
    BY <1>0, <2>1 DEF Known
  <2>3. CASE Working
    <3>1. wire' = Append(wire, acct + 1)
      BY <1>1, <2>3 DEF Change
    <3>2. /\ Len(wire) \in Nat /\ Len(wire') = Len(wire) + 1 /\ wire'[Len(wire) + 1] = acct + 1
          /\ \A i \in 1 .. Len(wire) : wire'[i] = wire[i] /\ wire[i] \in Nat
      <4>1. acct + 1 \in Versions /\ Versions \subseteq Nat
        BY <1>0, <1>1, StreamAssumption DEF Change, Versions
      <4>2. /\ Len(Append(wire, acct + 1)) = Len(wire) + 1
            /\ Append(wire, acct + 1)[Len(wire) + 1] = acct + 1
            /\ \A i \in 1 .. Len(wire) : Append(wire, acct + 1)[i] = wire[i]
        BY <1>0, <4>1, AppendProperties
      <4>3. Len(wire) \in Nat /\ \A i \in 1 .. Len(wire) : wire[i] \in Nat
        <5>1. Len(wire) \in Nat /\ \A i \in 1 .. Len(wire) : wire[i] \in Versions
          BY <1>0
        <5> QED BY <4>1, <5>1
      <4> QED BY <3>1, <4>2, <4>3
    <3>3. wire' # <<>> /\ wire'[Len(wire')] = acct'
      BY <2>1, <3>2
    <3>4. ASSUME NEW i \in 1 .. Len(wire')
          PROVE  wire'[i] <= acct'
      <4>1. CASE i = Len(wire) + 1
        BY <1>0, <2>1, <3>2, <4>1
      <4>2. CASE i \in 1 .. Len(wire)
        BY <1>0, <2>1, <3>2, <4>2 DEF Known
      <4> QED BY <3>2, <4>1, <4>2
    <3>5. Known'
      BY <2>1, <2>2, <3>4 DEF Known
    <3> QED BY <2>1, <3>3, <3>5 DEF Current
  <2>4. CASE ~Working
    <3>1. stale' = TRUE /\ wire' = wire
      BY <1>1, <2>4 DEF Change
    <3>2. \A i \in 1 .. Len(wire) : wire[i] \in Nat
      BY <1>0, StreamAssumption DEF Versions
    <3>3. Known'
      BY <1>0, <2>1, <2>2, <3>1, <3>2 DEF Known
    <3> QED BY <3>1, <3>3 DEF Current
  <2> QED BY <2>3, <2>4
<1>2. CASE Cut
  <2>1. wire' = <<>> /\ UNCHANGED <<acct, bridge, snap, fetch>>
    BY <1>2 DEF Cut
  <2>2. ~stale' => ~stale /\ wire = <<>>
    BY <1>2, Zenon DEF Cut
  <2> QED BY <2>1, <2>2 DEF Known, Current
<1>3. CASE PaperPoll
  <2>1. /\ fetch' = [fetch EXCEPT !["boot"] = Asked]
        /\ UNCHANGED <<exchVars, bridge, snap, stale>>
    BY <1>3 DEF PaperPoll
  <2>2. \A u \in Tasks : fetch'[u] <= acct
    BY <1>0, <2>1 DEF Known, Asked
  <2> QED BY <2>1, <2>2 DEF Known, Current
<1>4. CASE KeyExpires \/ EnsureKey \/ Connect \/ ConnectRaises \/ MarkPrice \/ UNCHANGED vars
  <2>1. UNCHANGED <<exchVars, bridge, snap, fetch, stale>>
    BY <1>4 DEF KeyExpires, EnsureKey, Connect, ConnectRaises, MarkPrice, vars
  <2> QED BY <2>1 DEF Known, Current
<1>5. CASE HandleEvent
  <2>1. /\ wire # <<>> /\ wire' = Tail(wire) /\ UNCHANGED <<acct, bridge, fetch, stale>>
        /\ link = "open"
    BY <1>5 DEF HandleEvent
  <2>2. snap' = Head(wire)
    BY <1>5, <2>1 DEF HandleEvent, Merge, Base, Linked
  <2>3. Head(wire) \in Nat /\ Head(wire) <= acct
    <3>1. Len(wire) \in Nat /\ Len(wire) > 0 /\ Head(wire) = wire[1]
      BY <2>1, LastStays
    <3>2. wire[1] \in Versions /\ wire[1] <= acct
      BY <1>0, <3>1 DEF Known
    <3> QED BY <3>1, <3>2, StreamAssumption DEF Versions
  <2>4. \A i \in 1 .. Len(wire') : wire'[i] <= acct
    BY <2>1, LastStays DEF Known
  <2>6. Known'
    BY <2>1, <2>2, <2>3, <2>4 DEF Known
  <2>5. ASSUME bridge # "stopped", ~stale
        PROVE  IF wire' # <<>> THEN wire'[Len(wire')] = acct ELSE snap' = acct
    <3>1. wire[Len(wire)] = acct
      BY <2>1, <2>5 DEF Current
    <3> QED BY <2>1, <2>2, <3>1, LastStays
  <2>7. snap' >= 0
    BY <2>2, <2>3
  <2> QED BY <1>0, <2>1, <2>6, <2>7, <2>5 DEF Current
<1>6. CASE Stop
  <2>1. /\ bridge' = "stopped" /\ fetch' = [t \in Tasks |-> Idle] /\ wire' = <<>>
        /\ UNCHANGED <<acct, snap>>
    BY <1>6 DEF Stop
  <2> QED BY <1>0, <2>1 DEF Known, Current, Idle
<1> QED BY <1>1, <1>2, <1>3, <1>4, <1>5, <1>6

\* The clients leave the cache alone.
LEMMA HubByClients ==
  ASSUME Base, Known, Current, NEW c \in Clients,
         Register(c) \/ Leave(c) \/ AskRefresh(c) \/ Return(c) \/ \E t \in Tasks : Send(t, c)
  PROVE  Known' /\ Current'
<1> USE DEF exchVars, linkVars, runVars, clientVars, ghostVars
<1>0. acct \in Nat /\ fetch \in [Tasks -> Answers]
  BY NumbersOnly DEF Base, TypeOK, Answers
<1>1. UNCHANGED <<exchVars, bridge, snap, stale>>
  BY DEF Register, Leave, AskRefresh, Return, Send
<1>2. fetch' = fetch \/ fetch' = [fetch EXCEPT ![c] = Asked]
  BY DEF Register, Leave, AskRefresh, Return, Send
<1>3. \A u \in Tasks : fetch'[u] <= acct
  BY <1>0, <1>2 DEF Known, Asked
<1> QED BY <1>1, <1>3 DEF Known, Current

\* The cache holds, from the start, what Known and Current say.
LEMMA HubInit == Init => Known /\ Current
<1> SUFFICES ASSUME Init PROVE Known /\ Current
  OBVIOUS
<1>1. acct = 0 /\ wire = <<>> /\ snap = -2
  BY DEF Init, None
<1>2. \A t \in Tasks : fetch[t] <= 0
  BY DEF Init, Asked, Idle
<1> QED BY <1>1, <1>2 DEF Known, Current

\* And after every step.
LEMMA HubStep == Base /\ Known /\ Current /\ [Next]_vars => Known' /\ Current'
<1> SUFFICES ASSUME Base, Known, Current, [Next]_vars PROVE Known' /\ Current'
  OBVIOUS
<1> QED BY HubByClients, HubByRest, HubByStream DEF Next, Rest, Sends, Ended

\* No event meets a hub without a snapshot, and at rest the cached state is the account unless a
\* change was missed or a REST answer was older than what it replaced (set_snapshot and
\* merge_and_broadcast_state of LiveAccountHub, _user_stream_loop of BinanceLiveBridge).
THEOREM HubIsCurrent == Spec => []HubCurrent
<1>1. Base /\ Current => HubCurrent
  <2>1. SUFFICES ASSUME Base, Current PROVE HubCurrent
    OBVIOUS
  <2>2. link = "open" => snap # None
    BY <2>1 DEF Base, Linked
  <2>3. Quiet /\ bridge = "running" /\ ~stale /\ snap >= 0 => snap = acct
    BY <2>1, NumbersOnly DEF Current, Quiet
  <2> QED BY <2>2, <2>3 DEF HubCurrent
<1>2. Spec => [](Known /\ Current)
  BY HubInit, HubStep, BaseHolds, PTL DEF Spec
<1> QED BY <1>1, <1>2, BaseHolds, PTL

-----------------------------------------------------------------------------
(* What clients show *)

\* One task alone still has something for the client.
Sole(t, c) == c \in out[t].todo /\ \A u \in Tasks \ {t} : c \notin out[u].todo

NoneDue(c) == \A t \in Tasks : c \notin out[t].todo

\* Only what a client was not overtaken on counts: it shows the cache, or the one message it is
\* still due is the cache.
Due(c) ==
  /\ NoneDue(c) => view[c] = snap
  /\ \A t \in Tasks : Sole(t, c) => out[t].val = snap

Shown ==
  /\ \A c \in clients : conn[c] # "away"
  /\ \A c \in Clients : snap = None \/ conn[c] = "away" => NoneDue(c)
  /\ snap # None => \A c \in clients \ crossed : conn[c] = "on" => Due(c)

\* A broadcast of what is now cached: whoever is reached at once shows it, unless something else
\* was due; whoever is not is due it, alone or behind something else.
LEMMA ShownByBroadcast ==
  ASSUME Base, Shown, NEW t \in Tasks, NEW first \in Firsts, NEW val \in Versions \cup {Empty},
         Broadcast(t, val, first), snap' = val, conn' = conn,
         crossed' = crossed \cup Overtakes(t, first)
  PROVE  Shown'
<1>1. /\ first \subseteq clients /\ clients \subseteq Clients
      /\ \A u \in Tasks : out'[u] = (IF u = t THEN [val |-> val, todo |-> clients \ first] ELSE out[u])
      /\ \A c \in Clients : view'[c] = (IF c \in first /\ conn[c] = "on" THEN val ELSE view[c])
      /\ clients' \subseteq clients
  BY BroadcastStarts DEF Base, TypeOK
<1>2. snap' # None
  BY StreamAssumption DEF Versions, None, Empty
<1>3. ASSUME NEW c \in Clients, conn[c] = "away"
      PROVE  NoneDue(c)'
  BY <1>1, <1>3 DEF Shown, NoneDue
<1>4. ASSUME NEW c \in clients', c \notin crossed', conn[c] = "on"
      PROVE  Due(c)'
  <2>1. c \in Clients /\ c \in clients /\ c \notin crossed
    BY <1>1, <1>4
  <2>2. CASE c \in first
    <3>1. \A u \in Tasks \ {t} : c \notin out[u].todo
      BY <1>4, <2>2 DEF Overtakes
    <3>2. \A u \in Tasks : c \notin out'[u].todo
      BY <1>1, <2>2, <3>1
    <3>3. view'[c] = snap'
      BY <1>1, <1>4, <2>1, <2>2
    <3> QED BY <3>2, <3>3 DEF Due, NoneDue, Sole
  <2>3. CASE c \notin first
    <3>1. c \in out'[t].todo /\ out'[t].val = snap'
      BY <1>1, <2>1, <2>3
    <3> QED BY <3>1 DEF Due, NoneDue, Sole
  <2> QED BY <2>2, <2>3
<1>5. \A c \in clients' : conn'[c] # "away"
  BY <1>1 DEF Shown
<1> QED BY <1>2, <1>3, <1>4, <1>5 DEF Shown

\* A socket that is closed is due nothing and is no longer listed; the others are as they were.
LEMMA ShownByUnlisting ==
  ASSUME Base, Shown, NEW c \in Clients, Unlisted(c), UNCHANGED snap,
         clients' = clients \ {c}, conn' = [conn EXCEPT ![c] = "away"],
         view' = [view EXCEPT ![c] = None], crossed \ {c} \subseteq crossed'
  PROVE  Shown'
<1>1. \A t \in Tasks : out'[t].val = out[t].val /\ out'[t].todo = out[t].todo \ {c}
  BY UnlistedForgets DEF Base
<1>2. /\ \A d \in Clients : d # c => conn'[d] = conn[d] /\ view'[d] = view[d]
      /\ conn'[c] = "away" /\ clients \subseteq Clients
  BY DEF Base, TypeOK
<1>3. \A d \in clients' : conn'[d] # "away"
  BY <1>2 DEF Shown
<1>4. ASSUME NEW d \in Clients, snap' = None \/ conn'[d] = "away"
      PROVE  NoneDue(d)'
  <2>1. CASE d = c
    BY <1>1, <2>1 DEF NoneDue
  <2>2. CASE d # c
    <3>1. NoneDue(d)
      BY <1>2, <1>4, <2>2 DEF Shown
    <3> QED BY <1>1, <3>1 DEF NoneDue
  <2> QED BY <2>1, <2>2
<1>5. ASSUME snap' # None, NEW d \in clients' \ crossed', conn'[d] = "on"
      PROVE  Due(d)'
  <2>1. d # c /\ d \in clients \ crossed /\ conn[d] = "on" /\ view'[d] = view[d]
    BY <1>2, <1>5
  <2>2. Due(d)
    BY <1>5, <2>1 DEF Shown
  <2>3. \A t \in Tasks : d \in out'[t].todo <=> d \in out[t].todo
    BY <1>1, <2>1
  <2> QED BY <1>1, <2>1, <2>2, <2>3 DEF Due, NoneDue, Sole
<1> QED BY <1>3, <1>4, <1>5 DEF Shown

\* A client that registers is greeted with the cache; one of several messages that are due is
\* sent: if there was another one, the client was overtaken.
LEMMA ShownByClients ==
  ASSUME Base, Shown, NEW c \in Clients,
         Register(c) \/ Leave(c) \/ AskRefresh(c) \/ Return(c) \/ \E t \in Tasks : Send(t, c)
  PROVE  Shown'
<1> USE DEF exchVars, linkVars, runVars, clientVars, ghostVars
<1>0. TypeOK /\ clients \subseteq Clients /\ out \in [Tasks -> Broadcasts]
  BY DEF Base, TypeOK, Broadcasts
<1>1. CASE Register(c)
  <2>1. /\ conn[c] = "away" /\ clients' = clients \cup {c} /\ UNCHANGED <<snap, out, crossed>>
        /\ \A d \in Clients : d # c => conn'[d] = conn[d] /\ view'[d] = view[d]
        /\ conn'[c] \in {"on", "gone"}
        /\ (snap # None /\ conn'[c] = "on" => view'[c] = snap)
    BY <1>0, <1>1 DEF Register, Greeting, TypeOK
  <2>2. NoneDue(c)
    BY <2>1 DEF Shown
  <2>3. \A d \in clients' : conn'[d] # "away"
    BY <1>0, <2>1 DEF Shown
  <2>4. ASSUME NEW d \in Clients, snap' = None \/ conn'[d] = "away"
        PROVE  NoneDue(d)'
    <3>1. NoneDue(d)
      BY <2>1, <2>2, <2>4 DEF Shown
    <3> QED BY <2>1, <3>1 DEF NoneDue
  <2>5. ASSUME snap' # None, NEW d \in clients' \ crossed', conn'[d] = "on"
        PROVE  Due(d)'
    <3>1. CASE d = c
      BY <2>1, <2>2, <2>5, <3>1 DEF Due, NoneDue, Sole
    <3>2. CASE d # c
      <4>1. d \in Clients /\ d \in clients \ crossed /\ conn[d] = "on" /\ view'[d] = view[d]
        BY <1>0, <2>1, <2>5, <3>2
      <4>2. Due(d)
        BY <2>1, <2>5, <4>1 DEF Shown
      <4> QED BY <2>1, <4>1, <4>2 DEF Due, NoneDue, Sole
    <3> QED BY <3>1, <3>2
  <2> QED BY <2>3, <2>4, <2>5 DEF Shown
<1>2. CASE Leave(c)
  BY <1>2, ShownByUnlisting DEF Leave, Unregistered
<1>3. CASE AskRefresh(c)
  BY <1>3 DEF AskRefresh, Shown, Due, NoneDue, Sole
<1>4. CASE Return(c)
  <2>1. clients' = clients \ {c}
    BY <1>4 DEF Return
  <2> QED BY <1>4, <2>1, ShownByUnlisting DEF Return
<1>5. ASSUME NEW t \in Tasks, Send(t, c)
      PROVE  Shown'
  <2>1. /\ c \in out[t].todo /\ UNCHANGED <<snap, conn>> /\ clients' \subseteq clients
        /\ crossed' = crossed \cup Overtakes(t, {c})
    BY <1>5 DEF Send
  <2>2. /\ out'[t].val = out[t].val /\ out'[t].todo = out[t].todo \ {c}
        /\ \A u \in Tasks : u # t => out'[u] = out[u]
    BY <1>0, <1>5 DEF Send, Broadcasts
  <2>3. /\ \A d \in Clients : d # c => view'[d] = view[d]
        /\ conn[c] = "on" => view'[c] = out[t].val
    BY <1>0, <1>5 DEF Send, TypeOK
  <2>4. \A d \in clients' : conn'[d] # "away"
    BY <2>1 DEF Shown
  <2>5. ASSUME NEW d \in Clients, snap' = None \/ conn'[d] = "away"
        PROVE  NoneDue(d)'
    <3>1. NoneDue(d)
      BY <2>1, <2>5 DEF Shown
    <3> QED BY <2>2, <3>1 DEF NoneDue
  <2>6. ASSUME snap' # None, NEW d \in clients' \ crossed', conn'[d] = "on"
        PROVE  Due(d)'
    <3>1. d \in Clients /\ d \in clients \ crossed /\ conn[d] = "on"
      BY <1>0, <2>1, <2>6
    <3>2. Due(d)
      BY <2>1, <2>6, <3>1 DEF Shown
    <3>3. CASE d = c
      <4>1. \A u \in Tasks \ {t} : c \notin out[u].todo
        BY <2>1, <2>6, <3>3 DEF Overtakes
      <4>2. out[t].val = snap
        BY <2>1, <3>2, <3>3, <4>1 DEF Due, Sole
      <4>3. \A u \in Tasks : c \notin out'[u].todo
        BY <2>2, <4>1
      <4>4. view'[c] = snap'
        BY <2>1, <2>3, <3>1, <3>3, <4>2
      <4> QED BY <3>3, <4>3, <4>4 DEF Due, NoneDue, Sole
    <3>4. CASE d # c
      <4>1. \A u \in Tasks : out'[u].val = out[u].val /\ (d \in out'[u].todo <=> d \in out[u].todo)
        BY <2>2, <3>4
      <4> QED BY <2>1, <2>3, <3>1, <3>2, <3>4, <4>1 DEF Due, NoneDue, Sole
    <3> QED BY <3>3, <3>4
  <2> QED BY <2>4, <2>5, <2>6 DEF Shown
<1> QED BY <1>1, <1>2, <1>3, <1>4, <1>5

\* The bridge either broadcasts what it caches or leaves cache and clients alone.
LEMMA ShownByBridge ==
  ASSUME Base, Shown,
         \/ Change \/ Cut \/ KeyExpires \/ PaperPoll \/ EnsureKey \/ Connect \/ ConnectRaises
         \/ HandleEvent \/ MarkPrice \/ Stop \/ UNCHANGED vars
         \/ \E t \in Tasks : ReadAccount(t) \/ ReadRaises(t) \/ TakeSnapshot(t)
  PROVE  Shown'
<1> USE DEF exchVars, linkVars, runVars, clientVars, ghostVars
<1>0. TypeOK /\ clients \subseteq Clients /\ fetch \in [Tasks -> Answers] /\ "user" \in Tasks
        /\ wire \in Seq(Versions)
  BY DEF Base, TypeOK, Answers, Tasks
<1>1. CASE \/ Change \/ Cut \/ KeyExpires \/ PaperPoll \/ EnsureKey \/ Connect \/ ConnectRaises
           \/ UNCHANGED vars \/ \E t \in Tasks : ReadAccount(t)
  <2>1. UNCHANGED <<snap, out, clientVars, crossed>>
    BY <1>1 DEF Change, Cut, KeyExpires, PaperPoll, EnsureKey, Connect, ConnectRaises, vars, ReadAccount
  <2> QED BY <2>1 DEF Shown, Due, NoneDue, Sole
<1>2. CASE MarkPrice
  <2>1. UNCHANGED <<snap, out, conn, view, crossed>> /\ clients' \subseteq clients
    BY <1>2 DEF MarkPrice
  <2> QED BY <2>1 DEF Shown, Due, NoneDue, Sole
<1>3. CASE Stop
  <2>1. clients' = {} /\ \A t \in Tasks : out'[t].todo = {}
    BY <1>3 DEF Stop, Done
  <2> QED BY <2>1 DEF Shown, NoneDue
<1>4. CASE HandleEvent
  <2>1. link = "open" /\ wire # <<>> /\ snap' = Merge(snap, Head(wire)) /\ conn' = conn
    BY <1>4 DEF HandleEvent
  <2>2. snap' = Head(wire) /\ Head(wire) \in Versions
    BY <1>0, <2>1, HeadTailProperties DEF Merge, Base, Linked
  <2>3. PICK first \in Firsts : Broadcast("user", Head(wire), first)
                                 /\ crossed' = crossed \cup Overtakes("user", first)
    BY <1>4 DEF HandleEvent
  <2> QED BY <1>0, <2>1, <2>2, <2>3, ShownByBroadcast
<1>5. ASSUME NEW t \in Tasks, TakeSnapshot(t)
      PROVE  Shown'
  <2>1. fetch[t] \in Versions \cup {Empty} /\ snap' = fetch[t] /\ conn' = conn
    BY <1>0, <1>5 DEF TakeSnapshot, StoreSnapshot, Answers
  <2>2. PICK first \in Firsts : Broadcast(t, fetch[t], first)
                                 /\ crossed' = crossed \cup Overtakes(t, first)
    BY <1>5 DEF TakeSnapshot
  <2> QED BY <2>1, <2>2, ShownByBroadcast
<1>6. ASSUME NEW t \in Tasks, ReadRaises(t)
      PROVE  Shown'
  <2>1. CASE t \in Clients
    BY <1>6, <2>1, ShownByUnlisting DEF ReadRaises, Unregistered
  <2>2. CASE t \notin Clients
    <3>1. UNCHANGED <<snap, out, clientVars, crossed>>
      BY <1>6, <2>2 DEF ReadRaises
    <3> QED BY <3>1 DEF Shown, Due, NoneDue, Sole
  <2> QED BY <2>1, <2>2
<1> QED BY <1>1, <1>2, <1>3, <1>4, <1>5, <1>6

\* At first there is no client.
LEMMA ShownInit == Init => Shown
  BY DEF Init, Shown, NoneDue, Done

\* What is due stays right.
LEMMA ShownStep == Base /\ Shown /\ [Next]_vars => Shown'
<1> SUFFICES ASSUME Base, Shown, [Next]_vars PROVE Shown'
  OBVIOUS
<1> QED BY ShownByClients, ShownByBridge DEF Next, Rest, Sends, Ended

\* At rest every connected client shows what the hub caches, unless a broadcast of one task
\* overtook that of another on its way to the client (broadcast and register of LiveAccountHub).
THEOREM ClientsShowHub == Spec => []ClientsAgree
<1>1. Shown => ClientsAgree
  BY DEF Shown, Due, NoneDue, ClientsAgree, Quiet
<1>2. Spec => []Shown
  BY ShownInit, ShownStep, BaseHolds, PTL DEF Spec
<1> QED BY <1>1, <1>2, PTL

================================================================================
