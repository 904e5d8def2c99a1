------------------------- MODULE NotificationsGateway -------------------------
(***************************************************************************)
(* src/src/notifications/notifications.gateway.ts: clients subscribe to    *)
(* channels.  The gateway keeps a set of channels per socket, Socket.IO    *)
(* its rooms.                                                              *)
(*                                                                         *)
(* External: join and leave of Socket.IO's in-memory adapter take effect   *)
(* when called, and the handler goes on after the await, once those called *)
(* before it have; a disconnected socket is in no room and joins none.     *)
(* Ids of sockets are never used twice.                                    *)
(***************************************************************************)
EXTENDS Naturals, Sequences

CONSTANTS
    Client,         \* sockets, of all time
    Channel,
    MaxAwaiting     \* bound: handlers in the middle of their await

ASSUME MaxAwaitingNat == MaxAwaiting \in Nat

VARIABLES
    phase,          \* of each socket: "new", "connected" or "gone"
    subscriptions,  \* the gateway's map, of the sockets that have an entry
    rooms,          \* Socket.IO: the channels a socket has joined
    awaiting,       \* the handlers past their join or leave, oldest first
    told            \* what a client was last told of a channel

notificationsVars == <<phase, subscriptions, rooms, awaiting, told>>

Op == {"subscribed", "unsubscribed"}
Handler == [client : Client, channel : Channel, op : Op]
Untold == "nothing"

Pending(c, ch) == \E i \in DOMAIN awaiting : awaiting[i].client = c /\ awaiting[i].channel = ch
Entry(c) == c \in DOMAIN subscriptions

-----------------------------------------------------------------------------
handleConnection(c) ==
    /\ phase[c] = "new"
    /\ phase' = [phase EXCEPT ![c] = "connected"]
    /\ subscriptions' = [d \in DOMAIN subscriptions \cup {c} |->
                            IF d = c THEN {} ELSE subscriptions[d]]
    /\ UNCHANGED <<rooms, awaiting, told>>

(* Handlers of the socket may be in the middle of their await.             *)
handleDisconnect(c) ==
    /\ phase[c] = "connected"
    /\ phase' = [phase EXCEPT ![c] = "gone"]
    /\ rooms' = [rooms EXCEPT ![c] = {}]
    /\ subscriptions' = [d \in DOMAIN subscriptions \ {c} |-> subscriptions[d]]
    /\ UNCHANGED <<awaiting, told>>

(* assertChannel refuses a message without a channel; ping only answers;   *)
(* notifyChannel and broadcast only send.                                  *)
refuseMessage(c) == phase[c] = "connected" /\ UNCHANGED notificationsVars
send(ch) == UNCHANGED notificationsVars

(* handleSubscribe and handleUnsubscribe up to their await.                *)
begin(c, ch, op) ==
    /\ phase[c] = "connected" /\ Len(awaiting) < MaxAwaiting
    /\ rooms' = [rooms EXCEPT ![c] = IF op = "subscribed" THEN @ \cup {ch} ELSE @ \ {ch}]
    /\ awaiting' = Append(awaiting, [client |-> c, channel |-> ch, op |-> op])
    /\ UNCHANGED <<phase, subscriptions, told>>

(* Variant: set where the code has ?. - an entry is made if there is none. *)
finishAnyway ==
    /\ awaiting # <<>>
    /\ LET h == Head(awaiting)
           mine == IF Entry(h.client) THEN subscriptions[h.client] ELSE {}
           all == DOMAIN subscriptions \cup {h.client}
       IN  /\ subscriptions' = [d \in all |->
                  IF d # h.client THEN subscriptions[d]
                  ELSE IF h.op = "subscribed" THEN mine \cup {h.channel} ELSE mine \ {h.channel}]
           /\ told' = IF phase[h.client] = "connected"
                      THEN [told EXCEPT ![h.client][h.channel] = h.op] ELSE told
    /\ awaiting' = Tail(awaiting)
    /\ UNCHANGED <<phase, rooms>>

(* Variant: the latest handler goes on first.                              *)
finishLast ==
    /\ awaiting # <<>>
    /\ LET h == awaiting[Len(awaiting)] IN
         /\ subscriptions' = [d \in DOMAIN subscriptions |->
                IF d # h.client THEN subscriptions[d]
                ELSE IF h.op = "subscribed" THEN subscriptions[d] \cup {h.channel}
                ELSE subscriptions[d] \ {h.channel}]
         /\ told' = IF phase[h.client] = "connected"
                    THEN [told EXCEPT ![h.client][h.channel] = h.op] ELSE told
    /\ awaiting' = SubSeq(awaiting, 1, Len(awaiting) - 1)
    /\ UNCHANGED <<phase, rooms>>

(* The rest of them: the gateway's map, if the socket still has an entry,  *)
(* and the answer, if the socket is still there to take it.                *)
finish ==
    /\ awaiting # <<>>
    /\ LET h == Head(awaiting) IN
         /\ subscriptions' = [d \in DOMAIN subscriptions |->
                IF d # h.client THEN subscriptions[d]
                ELSE IF h.op = "subscribed" THEN subscriptions[d] \cup {h.channel}
                ELSE subscriptions[d] \ {h.channel}]
         /\ told' = IF phase[h.client] = "connected"
                    THEN [told EXCEPT ![h.client][h.channel] = h.op] ELSE told
    /\ awaiting' = Tail(awaiting)
    /\ UNCHANGED <<phase, rooms>>

NotificationsInit ==
    /\ phase = [c \in Client |-> "new"]
    /\ subscriptions = [c \in {} |-> {}]
    /\ rooms = [c \in Client |-> {}]
    /\ awaiting = <<>>
    /\ told = [c \in Client |-> [ch \in Channel |-> Untold]]

NotificationsNext ==
    \/ finish
    \/ \E ch \in Channel : send(ch)
    \/ \E c \in Client :
           \/ handleConnection(c) \/ handleDisconnect(c) \/ refuseMessage(c)
           \/ \E ch \in Channel, op \in Op : begin(c, ch, op)

NotificationsSpec == NotificationsInit /\ [][NotificationsNext]_notificationsVars
-----------------------------------------------------------------------------
(* notifyChannel reaches the sockets in the room, getSubscriptions reads   *)
(* the map.                                                                *)
notified(ch) == {c \in Client : ch \in rooms[c]}
getSubscriptions(c) == IF Entry(c) THEN subscriptions[c] ELSE {}

NotificationsTypeOK ==
    /\ phase \in [Client -> {"new", "connected", "gone"}]
    /\ subscriptions \in [DOMAIN subscriptions -> SUBSET Channel]
    /\ DOMAIN subscriptions \subseteq Client
    /\ rooms \in [Client -> SUBSET Channel]
    /\ awaiting \in Seq(Handler)
    /\ told \in [Client -> [Channel -> Op \cup {Untold}]]

(* The gateway has an entry for the sockets connected and no others: what  *)
(* a handler does after its socket is gone leaves nothing behind, and no   *)
(* entry is left over.                                                     *)
EntriesAreConnected == \A c \in Client : Entry(c) <=> phase[c] = "connected"

(* Whoever waits for nothing is told the truth: once no handler of a       *)
(* client and channel is under way, the gateway's map agrees with the      *)
(* rooms, and the last answer the client got with both, in whatever order  *)
(* its messages were handled.                                              *)
AnswersHold ==
    \A c \in Client, ch \in Channel :
        phase[c] = "connected" /\ ~Pending(c, ch) =>
            /\ ch \in getSubscriptions(c) <=> c \in notified(ch)
            /\ told[c][ch] = "subscribed" <=> c \in notified(ch)
=============================================================================
