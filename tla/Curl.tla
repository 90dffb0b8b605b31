-------------------------------- MODULE Curl --------------------------------
(* cases/curl/Curl.h and Curl.cc: libcurl's multi interface driven by the   *)
(* event loop.  libcurl tells Curl which sockets to watch (socketCallback)  *)
(* and when to be called (timerCallback); Curl calls libcurl back from the  *)
(* events of these sockets and from timers (curl_multi_socket_action) and   *)
(* reads from it which transfers are done (checkFinish).  Everything runs   *)
(* in the loop thread, so the difficulty is not interleaving but callbacks  *)
(* inside callbacks: a channel is removed, and a request destroyed, while   *)
(* the handler of that very channel is on the stack.                        *)
(*                                                                          *)
(* What libcurl itself does is external: it opens, changes and closes the   *)
(* one socket of a transfer as it likes, and ends the transfer, but only    *)
(* inside a call of curl_multi_socket_action.                               *)
EXTENDS Integers, FiniteSets

CONSTANTS Requests,  \* the Request objects, one per transfer
          Fds,       \* descriptors libcurl's sockets may get
          Channels,  \* addresses a Channel may have
          MaxTimers  \* bound: libcurl retries and idly asks for timers below it

NULL == -1

ASSUME CurlAssumption ==
    /\ Requests \subseteq Nat /\ Fds \subseteq Nat /\ Channels \subseteq Nat
    /\ IsFiniteSet(Requests) /\ MaxTimers \in Nat

VARIABLES
    pc,       \* where the loop thread is
    cur,      \* the channel whose handleEvent() is running, NULL in a timer
    todo,     \* events of cur whose callback has not been called yet
    ready,    \* events libev found in this iteration and has not delivered
    timers,   \* pending runAfter(onTimer)
    due,      \* how many of them expired in this iteration
    functors, \* channels bound by a queued dummy()
    easy,     \* libcurl: the state of the easy handle of each request
    sock,     \* libcurl: the socket of each request
    socketp,  \* libcurl: what curl_multi_assign() attached to a socket
    object,   \* the Request objects that exist
    held,     \* the requests some RequestPtr of the user owns
    channel,  \* Request::channel_
    chan,     \* the Channel objects
    running,  \* runningHandles_
    prev      \* prevRunningHandles_

loopVars == <<cur, todo, ready, due>>
multiVars == <<easy, sock, socketp>>
requestVars == <<object, held, channel, chan, functors>>
countVars == <<running, prev>>
curlVars == <<pc, loopVars, timers, multiVars, requestVars, countVars>>

(* Request() adds its transfer to the multi handle, ~Request() takes it out.*)
AddHandles(S, e) == [r \in Requests |-> IF r \in S THEN "init" ELSE e[r]]
RemoveHandles(S, e) == [r \in Requests |-> IF r \in S THEN "gone" ELSE e[r]]

NoChannel == [fd |-> NULL, req |-> NULL, events |-> {}, state |-> "free"]

(* The multi handle of Curl's constructor with the transfers of S added.    *)
CurlInit(S) ==
    /\ pc = "dispatch"
    /\ cur = NULL /\ todo = {} /\ due = 0
    /\ ready = [c \in Channels |-> {}]
    /\ timers = IF S = {} THEN 0 ELSE 1
    /\ functors = {}
    /\ easy = AddHandles(S, [r \in Requests |-> "none"])
    /\ sock = [r \in Requests |-> NULL]
    /\ socketp = [f \in Fds |-> NULL]
    /\ object = S /\ held = S
    /\ channel = [r \in Requests |-> NULL]
    /\ chan = [c \in Channels |-> NoChannel]
    /\ running = 0 /\ prev = 0

-----------------------------------------------------------------------------
(* Ownership.  A Channel lives while Request::channel_ or a queued dummy()  *)
(* points to it; handleEvent() holds its request through tie_.              *)
Exists(c) == c \in functors \/ \E r \in Requests : channel[r] = c
Guarded(r) == cur # NULL /\ chan[cur].req = r

Active(r) == easy[r] \in {"init", "live"}
FreeFds == Fds \ {sock[r] : r \in Requests}
FreeChannels == {c \in Channels : chan[c].state = "free"}

-----------------------------------------------------------------------------
(* Calls libcurl makes. *)

(* disableAll() and remove() stop the watchers of the channels of C, and    *)
(* libev forgets the events it found for them.                              *)
StopWatchers(C) ==
    /\ chan' = [c \in Channels |->
                  IF c \in C THEN [chan[c] EXCEPT !.events = {}, !.state = "stopped"]
                             ELSE chan[c]]
    /\ ready' = [c \in Channels |-> IF c \in C THEN {} ELSE ready[c]]

ChannelsOf(S) == {channel[r] : r \in S} \ {NULL}

(* Mutant: the channel is not kept for the handler that may be running.     *)
RemoveChannelsAtOnce(S) ==
    /\ StopWatchers(ChannelsOf(S))
    /\ UNCHANGED functors
    /\ channel' = [r \in Requests |-> IF r \in S THEN NULL ELSE channel[r]]
    /\ socketp' = [f \in Fds |-> IF \E r \in S : sock[r] = f THEN NULL ELSE socketp[f]]
    /\ sock' = [r \in Requests |-> IF r \in S THEN NULL ELSE sock[r]]

(* Mutant: libcurl keeps the pointer of the removed channel.                *)
RemoveChannelsStillAssigned(S) ==
    /\ StopWatchers(ChannelsOf(S))
    /\ functors' = functors \cup ChannelsOf(S)
    /\ channel' = [r \in Requests |-> IF r \in S THEN NULL ELSE channel[r]]
    /\ UNCHANGED socketp
    /\ sock' = [r \in Requests |-> IF r \in S THEN NULL ELSE sock[r]]

(* CURL_POLL_REMOVE for the sockets of S: removeChannel() stops the watcher *)
(* and parks the channel in a functor.                                      *)
RemoveChannels(S) ==
    /\ StopWatchers(ChannelsOf(S))
    /\ functors' = functors \cup ChannelsOf(S)
    /\ channel' = [r \in Requests |-> IF r \in S THEN NULL ELSE channel[r]]
    /\ socketp' = [f \in Fds |-> IF \E r \in S : sock[r] = f THEN NULL ELSE socketp[f]]
    /\ sock' = [r \in Requests |-> IF r \in S THEN NULL ELSE sock[r]]

(* Any other `what': a channel is made for a socket that has none, reading  *)
(* is enabled once, writing follows CURL_POLL_OUT.                          *)
SocketCallback(r, f, out) ==
    LET c == IF socketp[f] = NULL
             THEN CHOOSE c \in FreeChannels : \A d \in FreeChannels : c <= d
             ELSE socketp[f]
        events == {"read"} \cup (IF out THEN {"write"} ELSE {})
    IN /\ channel' = IF socketp[f] = NULL THEN [channel EXCEPT ![r] = c] ELSE channel
       /\ socketp' = [socketp EXCEPT ![f] = c]
       /\ chan' = IF socketp[f] = NULL
                  THEN [chan EXCEPT ![c] = [fd |-> f, req |-> r, events |-> events,
                                            state |-> "active"]]
                  ELSE [chan EXCEPT ![c].events = events]

(* Every call asks the loop for one more timer; none is ever canceled, and  *)
(* the -1 that withdraws a timer asks for one as well.                      *)
TimerCallback == timers' = timers + 1

-----------------------------------------------------------------------------
(* libcurl inside curl_multi_socket_action: any transfer may move. *)
Connect(r, f, out) ==
    /\ pc = "action" /\ easy[r] = "init"
    /\ f \in FreeFds /\ FreeChannels # {}
    /\ easy' = [easy EXCEPT ![r] = "live"]
    /\ sock' = [sock EXCEPT ![r] = f]
    /\ SocketCallback(r, f, out)
    /\ UNCHANGED <<pc, loopVars, timers, functors, object, held, countVars>>

ChangeInterest(r, out) ==
    /\ pc = "action" /\ easy[r] = "live"
    /\ ("write" \in chan[channel[r]].events) # out
    /\ SocketCallback(r, sock[r], out)
    /\ UNCHANGED <<pc, loopVars, timers, easy, sock, functors, object, held, countVars>>

(* The transfer gives up its socket and will try again.                     *)
Reconnect(r) ==
    /\ pc = "action" /\ easy[r] = "live" /\ timers < MaxTimers
    /\ RemoveChannels({r})
    /\ easy' = [easy EXCEPT ![r] = "init"]
    /\ TimerCallback
    /\ UNCHANGED <<pc, cur, todo, due, object, held, countVars>>

Complete(r) ==
    /\ pc = "action" /\ Active(r)
    /\ RemoveChannels({r})
    /\ easy' = [easy EXCEPT ![r] = "done"]
    /\ UNCHANGED <<pc, cur, todo, due, timers, object, held, countVars>>

SpareTimer ==
    /\ pc = "action" /\ timers < MaxTimers
    /\ TimerCallback
    /\ UNCHANGED <<pc, loopVars, multiVars, requestVars, countVars>>

(* The call returns with the number of unfinished transfers, and with a     *)
(* timer asked for if a transfer without a socket needs one.                *)
ActionReturn ==
    /\ pc = "action"
    /\ IF timers = 0 /\ \E r \in Requests : easy[r] = "init"
       THEN TimerCallback ELSE UNCHANGED timers
    /\ running' = Cardinality({r \in Requests : Active(r)})
    /\ pc' = "finish"
    /\ UNCHANGED <<loopVars, multiVars, requestVars, prev>>

-----------------------------------------------------------------------------
(* The event loop. *)

(* prepareCallBack(), when the events of an iteration are all delivered:    *)
(* the functors, which only release their channels, and quit_; then the     *)
(* poll returns with a batch of events.                                     *)
Prepare(quit) ==
    /\ pc = "dispatch" /\ due = 0 /\ \A c \in Channels : ready[c] = {}
    /\ functors' = {}
    /\ chan' = [c \in Channels |-> IF c \in functors THEN NoChannel ELSE chan[c]]
    /\ pc' = IF quit THEN "ended" ELSE "poll"
    /\ UNCHANGED <<loopVars, timers, multiVars, object, held, channel, countVars>>

Watched == UNION {{c} \X chan[c].events : c \in Channels}

Poll(batch, n) ==
    /\ pc = "poll"
    /\ batch # {} \/ n > 0
    /\ ready' = [c \in Channels |-> {b[2] : b \in {b \in batch : b[1] = c}}]
    /\ due' = n
    /\ pc' = "dispatch"
    /\ UNCHANGED <<cur, todo, timers, multiVars, requestVars, countVars>>

(* Channel::handleEvent(): nothing is called if the request is gone.        *)
HandleEvent(c) ==
    /\ pc = "dispatch" /\ ready[c] # {}
    /\ ready' = [ready EXCEPT ![c] = {}]
    /\ IF chan[c].req \in object
       THEN cur' = c /\ todo' = ready[c] /\ pc' = "handler"
       ELSE UNCHANGED <<cur, todo, pc>>
    /\ UNCHANGED <<due, timers, multiVars, requestVars, countVars>>

OnTimer ==
    /\ pc = "dispatch" /\ due > 0
    /\ due' = due - 1 /\ timers' = timers - 1
    /\ pc' = "action"
    /\ UNCHANGED <<cur, todo, ready, multiVars, requestVars, countVars>>

(* onRead() comes before onWrite(); both are called for the events found,   *)
(* whatever the first of them did to the channel.                           *)
OnReadOrWrite ==
    /\ pc = "handler" /\ todo # {}
    /\ todo' = IF "read" \in todo THEN todo \ {"read"} ELSE {}
    /\ pc' = "action"
    /\ UNCHANGED <<cur, ready, due, timers, multiVars, requestVars, countVars>>

(* handleEvent() returns and lets go of the request, which is destroyed if  *)
(* its owner dropped it meanwhile.                                          *)
HandlerEnd ==
    LET dying == {r \in object : Guarded(r) /\ r \notin held} IN
    /\ pc = "handler" /\ todo = {}
    /\ object' = object \ dying
    /\ easy' = RemoveHandles(dying, easy)
    /\ cur' = NULL /\ pc' = "dispatch"
    /\ UNCHANGED <<todo, ready, due, timers, sock, socketp, held, channel, chan, functors,
                   countVars>>

-----------------------------------------------------------------------------
(* checkFinish() *)
ReadingOnDecrease == prev > running    \* Mutant: not when the first call did it all
Reading == prev > running \/ running = 0

(* One message is read and Request::done() runs the callback, which drops   *)
(* the RequestPtrs of `dropped' and calls getUrl() for `added'.             *)
Done(r, dropped, added) ==
    LET dying == {q \in dropped : ~Guarded(q)} IN
    /\ pc = "finish" /\ Reading /\ easy[r] = "done"
    /\ held' = (held \ dropped) \cup added
    /\ object' = (object \ dying) \cup added
    /\ easy' = AddHandles(added, RemoveHandles(dying, [easy EXCEPT ![r] = "told"]))
    /\ IF added = {} THEN UNCHANGED timers ELSE TimerCallback
    /\ UNCHANGED <<pc, loopVars, sock, socketp, channel, chan, functors, countVars>>

FinishEnd ==
    /\ pc = "finish"
    /\ Reading => \A r \in Requests : easy[r] # "done"
    /\ prev' = running
    /\ pc' = IF cur = NULL THEN "dispatch" ELSE "handler"
    /\ UNCHANGED <<loopVars, timers, multiVars, requestVars, running>>

-----------------------------------------------------------------------------
(* After loop() the owner is destroyed, with every request it still holds:  *)
(* ~Request() takes its transfer out of the multi handle, which removes the *)
(* channel, and ~Curl() ends libcurl.                                       *)
Destroy ==
    /\ pc = "ended"
    /\ RemoveChannels({r \in object : sock[r] # NULL})
    /\ easy' = RemoveHandles(object, easy)
    /\ object' = {} /\ held' = {}
    /\ pc' = "destroyed"
    /\ UNCHANGED <<cur, todo, due, timers, countVars>>

(* What libcurl does inside a call, and what the loop thread does by itself *)
LibcurlStep ==
    \/ \E r \in Requests, f \in Fds, out \in BOOLEAN : Connect(r, f, out)
    \/ \E r \in Requests, out \in BOOLEAN : ChangeInterest(r, out)
    \/ \E r \in Requests : Reconnect(r)
    \/ SpareTimer

LoopStep ==
    \/ \E batch \in SUBSET Watched, n \in 0..timers : Poll(batch, n)
    \/ \E c \in Channels : HandleEvent(c)
    \/ OnTimer \/ OnReadOrWrite \/ HandlerEnd
    \/ ActionReturn \/ FinishEnd \/ Destroy

-----------------------------------------------------------------------------
(* Properties. *)

CurlTypeOK ==
    /\ pc \in {"poll", "dispatch", "handler", "action", "finish", "ended", "destroyed"}
    /\ cur \in Channels \cup {NULL} /\ todo \subseteq {"read", "write"}
    /\ ready \in [Channels -> SUBSET {"read", "write"}]
    /\ timers \in Nat /\ due \in 0..timers
    /\ functors \subseteq Channels
    /\ easy \in [Requests -> {"none", "init", "live", "done", "told", "gone"}]
    /\ sock \in [Requests -> Fds \cup {NULL}]
    /\ socketp \in [Fds -> Channels \cup {NULL}]
    /\ object \subseteq Requests /\ held \subseteq object
    /\ channel \in [Requests -> Channels \cup {NULL}]
    /\ chan \in [Channels -> [fd : Fds \cup {NULL}, req : Requests \cup {NULL},
                              events : SUBSET {"read", "write"},
                              state : {"free", "active", "stopped"}]]
    /\ running \in Nat /\ prev \in Nat

(* libcurl's pointer for a socket, the request's channel_ and the           *)
(* descriptor the channel watches agree, and a request without a socket has *)
(* no channel.                                                              *)
ChannelMatchesSocket ==
    /\ \A r \in Requests :
         IF sock[r] = NULL THEN channel[r] = NULL
         ELSE /\ channel[r] # NULL /\ socketp[sock[r]] = channel[r]
              /\ chan[channel[r]].fd = sock[r] /\ chan[channel[r]].req = r
    /\ \A f \in FreeFds : socketp[f] = NULL

(* No freed memory is used: the channel whose handler is on the stack       *)
(* exists, although it may have been removed meanwhile; so does every       *)
(* channel that has a watcher, and every request libcurl has a pointer to.  *)
ChannelOutlivesHandler ==
    /\ cur # NULL => Exists(cur)
    /\ \A c \in Channels : chan[c].state = "active" => Exists(c) /\ chan[c].req \in object
    /\ \A r \in Requests : easy[r] \in {"init", "live", "done"} => r \in object
=============================================================================
