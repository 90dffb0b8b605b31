--------------------------- MODULE DownloadProofs ---------------------------
(***************************************************************************)
(* Proofs about Curl.tla and Download.tla, for any number of pieces, any   *)
(* file lengths and any descriptors and addresses.                         *)
(***************************************************************************)
EXTENDS Download, TLAPS, FiniteSetTheorems, WellFoundedInduction

-----------------------------------------------------------------------------
(* The inductive invariant of Curl. *)

(* A transfer that is not over, or whose end has not been told, has an     *)
(* owner; one that was never asked for has no object.                      *)
Busy == {"init", "live", "done"}
OwnerInv == \A r \in Requests : /\ easy[r] \in Busy => r \in held
                                /\ easy[r] = "none" => r \notin object

(* A transfer has a channel while it has a socket, and the channel's       *)
(* watcher is started; a channel whose watcher is stopped waits in a       *)
(* functor, and libev has no event for it.                                 *)
SocketInv ==
    /\ \A r \in Requests : (sock[r] # NULL <=> easy[r] = "live")
                           /\ (channel[r] # NULL <=> sock[r] # NULL)
    /\ \A r \in Requests : sock[r] # NULL =>
          /\ socketp[sock[r]] = channel[r]
          /\ chan[channel[r]].fd = sock[r] /\ chan[channel[r]].req = r
          /\ chan[channel[r]].state = "active"
    /\ \A f \in FreeFds : socketp[f] = NULL

ChannelInv ==
    \A c \in Channels :
       /\ chan[c].state = "active" => chan[c].req \in Requests /\ channel[chan[c].req] = c
       /\ chan[c].state = "stopped" <=> c \in functors
       /\ chan[c].state # "active" => chan[c].events = {} /\ ready[c] = {}

(* Functors run, and free the channels they keep, only when no handler is  *)
(* on the stack.                                                           *)
HandlerInv ==
    /\ cur # NULL => chan[cur].state # "free"
    /\ pc \in {"poll", "dispatch", "ended", "destroyed"} => cur = NULL

CurlInv == CurlTypeOK /\ OwnerInv /\ SocketInv /\ ChannelInv /\ HandlerInv

-----------------------------------------------------------------------------
LEMMA NullFacts ==
    /\ \A r \in Requests : r # NULL
    /\ \A f \in Fds : f # NULL
    /\ \A c \in Channels : c # NULL
<1>1. NULL \notin Nat BY DEF NULL
<1> QED BY <1>1, CurlAssumption

LEMMA Least ==
    ASSUME NEW S \in SUBSET Nat, S # {}
    PROVE  \E x \in S : \A y \in S : x <= y
<1>1. PICK x \in S : \A y \in S : ~(<<y, x>> \in OpToRel(<, Nat))
  BY NatLessThanWellFounded, WFMin, Zenon
<1>2. \A y \in S : ~(y < x) BY <1>1, Zenon DEF OpToRel
<1> QED BY <1>2

(* What removeChannel() does for the sockets of S. *)
LEMMA RemoveFacts ==
    ASSUME CurlInv, NEW S \in SUBSET Requests, RemoveChannels(S)
    PROVE  /\ \A r \in S : sock'[r] = NULL /\ channel'[r] = NULL
           /\ \A r \in Requests \ S : sock'[r] = sock[r] /\ channel'[r] = channel[r]
           /\ \A c \in ChannelsOf(S) :
                 /\ chan'[c].state = "stopped" /\ chan'[c].events = {} /\ ready'[c] = {}
                 /\ chan'[c].req = chan[c].req
           /\ \A c \in Channels \ ChannelsOf(S) : chan'[c] = chan[c] /\ ready'[c] = ready[c]
           /\ functors' = functors \cup ChannelsOf(S)
           /\ \A f \in Fds : socketp'[f] = IF \E r \in S : sock[r] = f THEN NULL ELSE socketp[f]
           /\ ChannelsOf(S) \subseteq Channels
<1>1. /\ sock' = [r \in Requests |-> IF r \in S THEN NULL ELSE sock[r]]
      /\ channel' = [r \in Requests |-> IF r \in S THEN NULL ELSE channel[r]]
      /\ socketp' = [f \in Fds |-> IF \E r \in S : sock[r] = f THEN NULL ELSE socketp[f]]
      /\ functors' = functors \cup ChannelsOf(S)
      /\ StopWatchers(ChannelsOf(S))
  BY DEF RemoveChannels
<1>2. ChannelsOf(S) \subseteq Channels BY DEF ChannelsOf, CurlInv, CurlTypeOK
<1>3. /\ \A c \in Channels : chan'[c] = IF c \in ChannelsOf(S)
                                        THEN [chan[c] EXCEPT !.events = {}, !.state = "stopped"]
                                        ELSE chan[c]
      /\ \A c \in Channels : ready'[c] = IF c \in ChannelsOf(S) THEN {} ELSE ready[c]
  BY <1>1 DEF StopWatchers
<1>4. \A c \in Channels : chan[c] \in [fd : Fds \cup {NULL}, req : Requests \cup {NULL},
                                       events : SUBSET {"read", "write"},
                                       state : {"free", "active", "stopped"}]
  BY DEF CurlInv, CurlTypeOK
<1>5. \A c \in ChannelsOf(S) :
         /\ chan'[c].state = "stopped" /\ chan'[c].events = {} /\ ready'[c] = {}
         /\ chan'[c].req = chan[c].req
  <2> SUFFICES ASSUME NEW c \in ChannelsOf(S)
               PROVE  /\ chan'[c].state = "stopped" /\ chan'[c].events = {}
                      /\ ready'[c] = {} /\ chan'[c].req = chan[c].req
    OBVIOUS
  <2>1. c \in Channels BY <1>2
  <2>2. chan'[c] = [chan[c] EXCEPT !.events = {}, !.state = "stopped"] /\ ready'[c] = {}
    BY <1>3, <2>1
  <2>3. chan[c] \in [fd : Fds \cup {NULL}, req : Requests \cup {NULL},
                     events : SUBSET {"read", "write"},
                     state : {"free", "active", "stopped"}]
    BY <1>4, <2>1
  <2> QED BY <2>2, <2>3, Zenon
<1> QED BY <1>1, <1>2, <1>3, <1>5

LEMMA RemoveTyped ==
    ASSUME CurlTypeOK, NEW S \in SUBSET Requests, RemoveChannels(S)
    PROVE  /\ sock' \in [Requests -> Fds \cup {NULL}]
           /\ channel' \in [Requests -> Channels \cup {NULL}]
           /\ socketp' \in [Fds -> Channels \cup {NULL}]
           /\ functors' \subseteq Channels
           /\ ready' \in [Channels -> SUBSET {"read", "write"}]
           /\ chan' \in [Channels -> [fd : Fds \cup {NULL}, req : Requests \cup {NULL},
                                      events : SUBSET {"read", "write"},
                                      state : {"free", "active", "stopped"}]]
<1> DEFINE C == ChannelsOf(S)
<1>1. C \subseteq Channels BY DEF ChannelsOf, CurlTypeOK
<1>2. /\ sock' \in [Requests -> Fds \cup {NULL}]
      /\ channel' \in [Requests -> Channels \cup {NULL}]
      /\ socketp' \in [Fds -> Channels \cup {NULL}]
  BY DEF RemoveChannels, CurlTypeOK
<1>3. functors' \subseteq Channels BY <1>1 DEF RemoveChannels, CurlTypeOK
<1> HIDE DEF C
<1>4. StopWatchers(C) BY DEF RemoveChannels, C
<1>5. ready' \in [Channels -> SUBSET {"read", "write"}] BY <1>4 DEF StopWatchers, CurlTypeOK
<1>6. \A c \in Channels :
         [chan[c] EXCEPT !.events = {}, !.state = "stopped"] \in
            [fd : Fds \cup {NULL}, req : Requests \cup {NULL},
             events : SUBSET {"read", "write"}, state : {"free", "active", "stopped"}]
  <2> TAKE c \in Channels
  <2>1. chan[c] \in [fd : Fds \cup {NULL}, req : Requests \cup {NULL},
                     events : SUBSET {"read", "write"},
                     state : {"free", "active", "stopped"}]
    BY DEF CurlTypeOK
  <2> QED BY <2>1, Zenon
<1>7. chan' \in [Channels -> [fd : Fds \cup {NULL}, req : Requests \cup {NULL},
                              events : SUBSET {"read", "write"},
                              state : {"free", "active", "stopped"}]]
  <2> DEFINE R == [fd : Fds \cup {NULL}, req : Requests \cup {NULL},
                   events : SUBSET {"read", "write"}, state : {"free", "active", "stopped"}]
             stop(c) == [chan[c] EXCEPT !.events = {}, !.state = "stopped"]
  <2>1. \A c \in Channels : stop(c) \in R /\ chan[c] \in R BY <1>6 DEF CurlTypeOK
  <2>2. chan' = [c \in Channels |-> IF c \in C THEN stop(c) ELSE chan[c]]
    BY <1>4 DEF StopWatchers
  <2> HIDE DEF R, stop
  <2>3. chan' \in [Channels -> R] BY <2>1, <2>2
  <2> QED BY <2>3 DEF R
<1> QED BY <1>2, <1>3, <1>5, <1>7

(* Sockets are removed with their channels. *)
LEMMA RemoveStep ==
    ASSUME CurlInv, NEW S \in SUBSET Requests, RemoveChannels(S),
           \A r \in Requests : easy'[r] = "live" <=> easy[r] = "live" /\ r \notin S
    PROVE  SocketInv' /\ ChannelInv'
<1>1. /\ \A r \in S : sock'[r] = NULL /\ channel'[r] = NULL
      /\ \A r \in Requests \ S : sock'[r] = sock[r] /\ channel'[r] = channel[r]
      /\ \A c \in ChannelsOf(S) :
            /\ chan'[c].state = "stopped" /\ chan'[c].events = {} /\ ready'[c] = {}
            /\ chan'[c].req = chan[c].req
      /\ \A c \in Channels \ ChannelsOf(S) : chan'[c] = chan[c] /\ ready'[c] = ready[c]
      /\ functors' = functors \cup ChannelsOf(S)
      /\ \A f \in Fds : socketp'[f] = IF \E r \in S : sock[r] = f THEN NULL ELSE socketp[f]
      /\ ChannelsOf(S) \subseteq Channels
  BY RemoveFacts
<1>2. /\ \A r \in Requests : sock[r] \in Fds \cup {NULL} /\ channel[r] \in Channels \cup {NULL}
  BY DEF CurlInv, CurlTypeOK
<1>3. ASSUME NEW r \in Requests \ S, sock[r] # NULL
      PROVE  /\ channel[r] \in Channels \ ChannelsOf(S)
             /\ ~\E q \in S : sock[q] = sock[r]
  <2>1. channel[r] \in Channels /\ chan[channel[r]].req = r /\ socketp[sock[r]] = channel[r]
    BY <1>2, <1>3 DEF CurlInv, SocketInv
  <2>2. ASSUME NEW q \in S, channel[q] = channel[r] PROVE FALSE
    <3>1. channel[q] # NULL BY <2>1, <2>2, NullFacts
    <3>2. chan[channel[q]].req = q BY <3>1 DEF CurlInv, SocketInv
    <3> QED BY <2>1, <2>2, <3>2
  <2>3. ASSUME NEW q \in S, sock[q] = sock[r] PROVE FALSE
    <3>1. socketp[sock[q]] = channel[q] BY <1>3, <2>3 DEF CurlInv, SocketInv
    <3> QED BY <2>1, <2>2, <2>3, <3>1
  <2> QED BY <2>1, <2>2, <2>3 DEF ChannelsOf
<1>4. SocketInv'
  <2>1. \A r \in Requests : /\ sock'[r] # NULL <=> easy'[r] = "live"
                            /\ channel'[r] # NULL <=> sock'[r] # NULL
    BY <1>1 DEF CurlInv, SocketInv
  <2>2. ASSUME NEW r \in Requests, sock'[r] # NULL
        PROVE  /\ socketp'[sock'[r]] = channel'[r]
               /\ chan'[channel'[r]].fd = sock'[r] /\ chan'[channel'[r]].req = r
               /\ chan'[channel'[r]].state = "active"
    <3>1. r \in Requests \ S /\ sock'[r] = sock[r] /\ channel'[r] = channel[r] /\ sock[r] # NULL
      BY <1>1, <2>2
    <3>2. /\ channel[r] \in Channels \ ChannelsOf(S) /\ ~\E q \in S : sock[q] = sock[r]
          /\ sock[r] \in Fds
      BY <1>2, <1>3, <3>1
    <3>3. chan'[channel[r]] = chan[channel[r]] /\ socketp'[sock[r]] = socketp[sock[r]]
      BY <1>1, <3>2
    <3> QED BY <3>1, <3>3 DEF CurlInv, SocketInv
  <2>3. ASSUME NEW f \in Fds, \A r \in Requests : f # sock'[r] PROVE socketp'[f] = NULL
    <3>1. CASE \E r \in S : sock[r] = f BY <1>1, <3>1
    <3>2. CASE ~\E r \in S : sock[r] = f
      <4>1. \A r \in Requests : sock[r] # f BY <1>1, <2>3, <3>2
      <4>2. f \in FreeFds BY <4>1 DEF FreeFds
      <4> QED BY <1>1, <3>2, <4>2 DEF CurlInv, SocketInv
    <3> QED BY <3>1, <3>2
  <2>4. \A f \in FreeFds' : socketp'[f] = NULL BY <2>3 DEF FreeFds
  <2> QED BY <2>1, <2>2, <2>4 DEF SocketInv
<1>5. ChannelInv'
  <2> SUFFICES ASSUME NEW c \in Channels
               PROVE  /\ chan'[c].state = "active" =>
                            chan'[c].req \in Requests /\ channel'[chan'[c].req] = c
                      /\ chan'[c].state = "stopped" <=> c \in functors'
                      /\ chan'[c].state # "active" => chan'[c].events = {} /\ ready'[c] = {}
    BY DEF ChannelInv
  <2>1. CASE c \in ChannelsOf(S) BY <1>1, <2>1
  <2>2. CASE c \notin ChannelsOf(S)
    <3>1. chan'[c] = chan[c] /\ ready'[c] = ready[c] /\ (c \in functors' <=> c \in functors)
      BY <1>1, <2>2
    <3>2. ASSUME chan[c].state = "active" PROVE channel'[chan[c].req] = c
      <4>1. chan[c].req \in Requests /\ channel[chan[c].req] = c
        BY <3>2 DEF CurlInv, ChannelInv
      <4>2. chan[c].req \notin S BY <2>2, <4>1, NullFacts DEF ChannelsOf
      <4> QED BY <1>1, <4>1, <4>2
    <3> QED BY <3>1, <3>2 DEF CurlInv, ChannelInv
  <2> QED BY <2>1, <2>2
<1> QED BY <1>4, <1>5

ChannelRecord == [fd : Fds \cup {NULL}, req : Requests \cup {NULL},
                  events : SUBSET {"read", "write"},
                  state : {"free", "active", "stopped"}]

Interest(out) == {"read"} \cup (IF out THEN {"write"} ELSE {})

(* socketCallback() for a socket that is new to Curl makes a channel. *)
LEMMA NewChannelFacts ==
    ASSUME CurlTypeOK, NEW r \in Requests, NEW f \in Fds, NEW out \in BOOLEAN,
           FreeChannels # {}, socketp[f] = NULL, SocketCallback(r, f, out)
    PROVE  \E c \in FreeChannels :
              /\ channel' = [channel EXCEPT ![r] = c]
              /\ socketp' = [socketp EXCEPT ![f] = c]
              /\ chan' = [chan EXCEPT ![c] = [fd |-> f, req |-> r, events |-> Interest(out),
                                              state |-> "active"]]
<1> DEFINE c == CHOOSE c \in FreeChannels : \A d \in FreeChannels : c <= d
<1>1. FreeChannels \in SUBSET Nat BY CurlAssumption DEF FreeChannels
<1>2. \E x \in FreeChannels : \A d \in FreeChannels : x <= d BY <1>1, Least
<1>3. c \in FreeChannels BY <1>2
<1>4. /\ channel' = [channel EXCEPT ![r] = c]
      /\ socketp' = [socketp EXCEPT ![f] = c]
      /\ chan' = [chan EXCEPT ![c] = [fd |-> f, req |-> r, events |-> Interest(out),
                                      state |-> "active"]]
  BY DEF SocketCallback, Interest
<1> HIDE DEF c
<1> QED BY <1>3, <1>4

(* For a known socket only the channel's interest changes. *)
LEMMA OldChannelFacts ==
    ASSUME CurlTypeOK, NEW r \in Requests, NEW f \in Fds, NEW out \in BOOLEAN,
           socketp[f] # NULL, SocketCallback(r, f, out)
    PROVE  /\ socketp[f] \in Channels
           /\ channel' = channel /\ socketp' = socketp
           /\ chan' = [chan EXCEPT ![socketp[f]].events = Interest(out)]
<1>1. socketp[f] \in Channels BY DEF CurlTypeOK
<1>2. /\ channel' = channel
      /\ socketp' = [socketp EXCEPT ![f] = socketp[f]]
      /\ chan' = [chan EXCEPT ![socketp[f]].events = Interest(out)]
  BY DEF SocketCallback, Interest
<1>3. socketp' = socketp BY <1>2 DEF CurlTypeOK
<1> QED BY <1>1, <1>2, <1>3

LEMMA ConnectStep ==
    ASSUME CurlInv, NEW r \in Requests, NEW f \in Fds, NEW out \in BOOLEAN, Connect(r, f, out)
    PROVE  CurlInv'
<1>1. /\ pc = "action" /\ easy[r] = "init" /\ f \in FreeFds /\ FreeChannels # {}
      /\ easy' = [easy EXCEPT ![r] = "live"] /\ sock' = [sock EXCEPT ![r] = f]
      /\ SocketCallback(r, f, out)
      /\ UNCHANGED <<pc, cur, todo, ready, due, timers, functors, object, held, running, prev>>
  BY DEF Connect, loopVars, countVars
<1>2. CurlTypeOK /\ OwnerInv /\ SocketInv /\ ChannelInv /\ HandlerInv BY DEF CurlInv
<1>3. socketp[f] = NULL BY <1>1, <1>2 DEF SocketInv
<1>4. PICK c \in FreeChannels :
              /\ channel' = [channel EXCEPT ![r] = c]
              /\ socketp' = [socketp EXCEPT ![f] = c]
              /\ chan' = [chan EXCEPT ![c] = [fd |-> f, req |-> r, events |-> Interest(out),
                                              state |-> "active"]]
  BY <1>1, <1>2, <1>3, NewChannelFacts
<1>5. /\ c \in Channels /\ chan[c].state = "free" /\ c # NULL /\ f # NULL
  BY NullFacts DEF FreeChannels
<1>6. /\ channel \in [Requests -> Channels \cup {NULL}] /\ socketp \in [Fds -> Channels \cup {NULL}]
      /\ sock \in [Requests -> Fds \cup {NULL}] /\ chan \in [Channels -> ChannelRecord]
      /\ easy \in [Requests -> {"none", "init", "live", "done", "told", "gone"}]
  BY <1>2 DEF CurlTypeOK, ChannelRecord
<1>7. Interest(out) \subseteq {"read", "write"} BY DEF Interest
<1>8. CurlTypeOK'
  <2>1. [fd |-> f, req |-> r, events |-> Interest(out), state |-> "active"] \in ChannelRecord
    BY <1>7 DEF ChannelRecord
  <2>2. chan' \in [Channels -> ChannelRecord] BY <1>4, <1>5, <1>6, <2>1
  <2>3. /\ channel' \in [Requests -> Channels \cup {NULL}]
        /\ socketp' \in [Fds -> Channels \cup {NULL}]
        /\ sock' \in [Requests -> Fds \cup {NULL}]
        /\ easy' \in [Requests -> {"none", "init", "live", "done", "told", "gone"}]
    BY <1>1, <1>4, <1>5, <1>6
  <2> QED BY <1>1, <1>2, <2>2, <2>3 DEF CurlTypeOK, ChannelRecord
<1>9. /\ chan'[c].fd = f /\ chan'[c].req = r /\ chan'[c].state = "active"
      /\ \A d \in Channels : d # c => chan'[d] = chan[d]
      /\ channel'[r] = c /\ \A q \in Requests : q # r => channel'[q] = channel[q]
      /\ socketp'[f] = c /\ \A g \in Fds : g # f => socketp'[g] = socketp[g]
      /\ sock'[r] = f /\ \A q \in Requests : q # r => sock'[q] = sock[q]
      /\ easy'[r] = "live" /\ \A q \in Requests : q # r => easy'[q] = easy[q]
  BY <1>1, <1>4, <1>5, <1>6
<1>10. sock[r] = NULL /\ channel[r] = NULL BY <1>1, <1>2 DEF SocketInv
<1>11. OwnerInv' BY <1>1, <1>2, <1>9 DEF OwnerInv, Busy
<1>12. SocketInv'
  <2>1. \A q \in Requests : /\ sock'[q] # NULL <=> easy'[q] = "live"
                            /\ channel'[q] # NULL <=> sock'[q] # NULL
    BY <1>2, <1>5, <1>9 DEF SocketInv
  <2>2. ASSUME NEW q \in Requests, sock'[q] # NULL
        PROVE  /\ socketp'[sock'[q]] = channel'[q]
               /\ chan'[channel'[q]].fd = sock'[q] /\ chan'[channel'[q]].req = q
               /\ chan'[channel'[q]].state = "active"
    <3>1. CASE q = r BY <1>9, <3>1
    <3>2. CASE q # r
      <4>1. sock'[q] = sock[q] /\ channel'[q] = channel[q] /\ sock[q] # NULL
        BY <1>9, <2>2, <3>2
      <4>2. /\ socketp[sock[q]] = channel[q] /\ chan[channel[q]].fd = sock[q]
            /\ chan[channel[q]].req = q /\ chan[channel[q]].state = "active"
            /\ channel[q] # NULL
        BY <1>2, <4>1 DEF SocketInv
      <4>3. channel[q] \in Channels /\ sock[q] \in Fds BY <1>6, <4>1, <4>2
      <4>4. channel[q] # c /\ sock[q] # f BY <1>1, <1>5, <4>2 DEF FreeFds
      <4> QED BY <1>9, <4>1, <4>2, <4>3, <4>4
    <3> QED BY <3>1, <3>2
  <2>3. ASSUME NEW g \in FreeFds' PROVE socketp'[g] = NULL
    <3>1. g \in Fds /\ \A q \in Requests : g # sock'[q] BY <2>3 DEF FreeFds
    <3>2. g # f /\ \A q \in Requests : g # sock[q] BY <1>9, <1>10, <3>1, NullFacts
    <3>3. g \in FreeFds BY <3>1, <3>2 DEF FreeFds
    <3> QED BY <1>2, <1>9, <3>1, <3>2, <3>3 DEF SocketInv
  <2> QED BY <2>1, <2>2, <2>3 DEF SocketInv
<1>13. ChannelInv'
  <2> SUFFICES ASSUME NEW d \in Channels
               PROVE  /\ chan'[d].state = "active" =>
                            chan'[d].req \in Requests /\ channel'[chan'[d].req] = d
                      /\ chan'[d].state = "stopped" <=> d \in functors'
                      /\ chan'[d].state # "active" => chan'[d].events = {} /\ ready'[d] = {}
    BY DEF ChannelInv
  <2>1. CASE d = c
    <3>1. c \notin functors BY <1>2, <1>5 DEF ChannelInv
    <3> QED BY <1>1, <1>9, <2>1, <3>1
  <2>2. CASE d # c
    <3>1. chan'[d] = chan[d] /\ ready'[d] = ready[d] /\ functors' = functors
      BY <1>1, <1>9, <2>2
    <3>2. ASSUME chan[d].state = "active" PROVE channel'[chan[d].req] = d
      <4>1. chan[d].req \in Requests /\ channel[chan[d].req] = d
        BY <1>2, <3>2 DEF ChannelInv
      <4>2. chan[d].req # r BY <1>10, <4>1, NullFacts
      <4> QED BY <1>9, <4>1, <4>2
    <3> QED BY <1>2, <3>1, <3>2 DEF ChannelInv
  <2> QED BY <2>1, <2>2
<1>14. HandlerInv'
  <2>1. cur' = cur /\ pc' = pc BY <1>1
  <2>2. cur # NULL => cur \in Channels BY <1>2 DEF CurlTypeOK
  <2> QED BY <1>2, <1>5, <1>9, <2>1, <2>2 DEF HandlerInv
<1> QED BY <1>8, <1>11, <1>12, <1>13, <1>14 DEF CurlInv

LEMMA ChangeInterestStep ==
    ASSUME CurlInv, NEW r \in Requests, NEW out \in BOOLEAN, ChangeInterest(r, out)
    PROVE  CurlInv'
<1>1. /\ easy[r] = "live" /\ SocketCallback(r, sock[r], out)
      /\ UNCHANGED <<pc, cur, todo, ready, due, timers, easy, sock, functors, object, held,
                     running, prev>>
  BY DEF ChangeInterest, loopVars, countVars
<1>2. CurlTypeOK /\ OwnerInv /\ SocketInv /\ ChannelInv /\ HandlerInv BY DEF CurlInv
<1>3. /\ sock[r] # NULL /\ channel[r] # NULL /\ socketp[sock[r]] = channel[r]
      /\ chan[channel[r]].state = "active"
  BY <1>1, <1>2 DEF SocketInv
<1>4. sock[r] \in Fds BY <1>2, <1>3 DEF CurlTypeOK
<1> DEFINE c == channel[r]
<1>5. /\ c \in Channels /\ channel' = channel /\ socketp' = socketp
      /\ chan' = [chan EXCEPT ![c].events = Interest(out)]
  BY <1>1, <1>2, <1>3, <1>4, OldChannelFacts
<1>6. chan \in [Channels -> ChannelRecord] /\ Interest(out) \subseteq {"read", "write"}
  BY <1>2 DEF CurlTypeOK, ChannelRecord, Interest
<1>7. chan[c].state = "active" BY <1>3
<1> HIDE DEF c
<1>8. chan' \in [Channels -> ChannelRecord] BY <1>5, <1>6 DEF ChannelRecord
<1>9. \A d \in Channels : /\ chan'[d].fd = chan[d].fd /\ chan'[d].req = chan[d].req
                          /\ chan'[d].state = chan[d].state
                          /\ chan[d].state # "active" => chan'[d].events = chan[d].events
  BY <1>5, <1>6, <1>7 DEF ChannelRecord
<1>10. CurlTypeOK' BY <1>1, <1>2, <1>5, <1>8 DEF CurlTypeOK, ChannelRecord
<1>11. OwnerInv' BY <1>1, <1>2 DEF OwnerInv
<1>12. SocketInv'
  <2>1. \A q \in Requests : channel[q] # NULL => channel[q] \in Channels BY <1>2 DEF CurlTypeOK
  <2>2. FreeFds' = FreeFds BY <1>1 DEF FreeFds
  <2>3. /\ \A q \in Requests : (sock[q] # NULL <=> easy[q] = "live")
                               /\ (channel[q] # NULL <=> sock[q] # NULL)
        /\ \A q \in Requests : sock[q] # NULL =>
              /\ socketp[sock[q]] = channel[q] /\ chan[channel[q]].fd = sock[q]
              /\ chan[channel[q]].req = q /\ chan[channel[q]].state = "active"
        /\ \A g \in FreeFds : socketp[g] = NULL
    BY <1>2 DEF SocketInv
  <2> QED BY <1>1, <1>5, <1>9, <2>1, <2>2, <2>3 DEF SocketInv
<1>13. ChannelInv' BY <1>1, <1>2, <1>5, <1>9 DEF ChannelInv
<1>14. HandlerInv'
  <2>1. cur # NULL => cur \in Channels BY <1>2 DEF CurlTypeOK
  <2> QED BY <1>1, <1>2, <1>9, <2>1 DEF HandlerInv
<1> QED BY <1>10, <1>11, <1>12, <1>13, <1>14 DEF CurlInv

(* A step that removes the sockets of S and ends or restarts transfers. *)
LEMMA RemovalStep ==
    ASSUME CurlInv, NEW S \in SUBSET Requests, RemoveChannels(S),
           easy' \in [Requests -> {"none", "init", "live", "done", "told", "gone"}],
           \A r \in Requests : easy'[r] = "live" <=> easy[r] = "live" /\ r \notin S,
           \A r \in Requests : easy'[r] \in Busy => r \in held',
           \A r \in Requests : easy'[r] = "none" => r \notin object',
           held' \subseteq object', object' \subseteq Requests,
           pc' \in {"poll", "dispatch", "handler", "action", "finish", "ended", "destroyed"},
           pc' \in {"poll", "dispatch", "ended", "destroyed"} => cur = NULL,
           timers' \in Nat, due \in 0..timers',
           UNCHANGED <<cur, todo, due, running, prev>>
    PROVE  CurlInv'
<1>1. CurlTypeOK /\ HandlerInv BY DEF CurlInv
<1>2. /\ sock' \in [Requests -> Fds \cup {NULL}]
      /\ channel' \in [Requests -> Channels \cup {NULL}]
      /\ socketp' \in [Fds -> Channels \cup {NULL}]
      /\ functors' \subseteq Channels
      /\ ready' \in [Channels -> SUBSET {"read", "write"}]
      /\ chan' \in [Channels -> [fd : Fds \cup {NULL}, req : Requests \cup {NULL},
                                 events : SUBSET {"read", "write"},
                                 state : {"free", "active", "stopped"}]]
  BY <1>1, RemoveTyped
<1>3. CurlTypeOK' BY <1>1, <1>2 DEF CurlTypeOK
<1>4. OwnerInv' BY DEF OwnerInv
<1>5. SocketInv' /\ ChannelInv' BY RemoveStep
<1>6. HandlerInv'
  <2>1. /\ \A c \in ChannelsOf(S) : chan'[c].state = "stopped"
        /\ \A c \in Channels \ ChannelsOf(S) : chan'[c] = chan[c]
    BY RemoveFacts
  <2>2. cur # NULL => cur \in Channels BY <1>1 DEF CurlTypeOK
  <2> QED BY <1>1, <2>1, <2>2 DEF HandlerInv
<1> QED BY <1>3, <1>4, <1>5, <1>6 DEF CurlInv

LEMMA ReconnectStep ==
    ASSUME CurlInv, NEW r \in Requests, Reconnect(r)
    PROVE  CurlInv'
<1>1. /\ pc = "action" /\ easy[r] = "live" /\ RemoveChannels({r})
      /\ easy' = [easy EXCEPT ![r] = "init"] /\ timers' = timers + 1
      /\ UNCHANGED <<pc, cur, todo, due, object, held, running, prev>>
  BY DEF Reconnect, TimerCallback, countVars
<1>2. CurlTypeOK /\ OwnerInv BY DEF CurlInv
<1>3. /\ easy' \in [Requests -> {"none", "init", "live", "done", "told", "gone"}]
      /\ \A q \in Requests : easy'[q] = IF q = r THEN "init" ELSE easy[q]
  BY <1>1, <1>2 DEF CurlTypeOK
<1>4. \A q \in Requests : /\ easy'[q] \in Busy => q \in held'
                          /\ easy'[q] = "none" => q \notin object'
  BY <1>1, <1>2, <1>3 DEF OwnerInv, Busy
<1>5. timers' \in Nat /\ due \in 0..timers' BY <1>1, <1>2 DEF CurlTypeOK
<1>6. held' \subseteq object' /\ object' \subseteq Requests BY <1>1, <1>2 DEF CurlTypeOK
<1>7. {r} \in SUBSET Requests OBVIOUS
<1>8. \A q \in Requests : easy'[q] = "live" <=> easy[q] = "live" /\ q \notin {r} BY <1>3
<1> QED BY <1>1, <1>3, <1>4, <1>5, <1>6, <1>7, <1>8, RemovalStep

LEMMA CompleteStep ==
    ASSUME CurlInv, NEW r \in Requests, Complete(r)
    PROVE  CurlInv'
<1>1. /\ pc = "action" /\ easy[r] \in {"init", "live"} /\ RemoveChannels({r})
      /\ easy' = [easy EXCEPT ![r] = "done"]
      /\ UNCHANGED <<pc, cur, todo, due, timers, object, held, running, prev>>
  BY DEF Complete, Active, countVars
<1>2. CurlTypeOK /\ OwnerInv BY DEF CurlInv
<1>3. /\ easy' \in [Requests -> {"none", "init", "live", "done", "told", "gone"}]
      /\ \A q \in Requests : easy'[q] = IF q = r THEN "done" ELSE easy[q]
  BY <1>1, <1>2 DEF CurlTypeOK
<1>4. \A q \in Requests : /\ easy'[q] \in Busy => q \in held'
                          /\ easy'[q] = "none" => q \notin object'
  BY <1>1, <1>2, <1>3 DEF OwnerInv, Busy
<1>5. timers' \in Nat /\ due \in 0..timers' BY <1>1, <1>2 DEF CurlTypeOK
<1>6. held' \subseteq object' /\ object' \subseteq Requests BY <1>1, <1>2 DEF CurlTypeOK
<1>7. {r} \in SUBSET Requests OBVIOUS
<1>8. \A q \in Requests : easy'[q] = "live" <=> easy[q] = "live" /\ q \notin {r} BY <1>3
<1> QED BY <1>1, <1>3, <1>4, <1>5, <1>6, <1>7, <1>8, RemovalStep

LEMMA DestroyStep ==
    ASSUME CurlInv, Destroy
    PROVE  CurlInv'
<1> DEFINE S == {r \in object : sock[r] # NULL}
<1>1. /\ pc = "ended" /\ RemoveChannels(S)
      /\ easy' = [r \in Requests |-> IF r \in object THEN "gone" ELSE easy[r]]
      /\ object' = {} /\ held' = {} /\ pc' = "destroyed"
      /\ UNCHANGED <<cur, todo, due, timers, running, prev>>
  BY DEF Destroy, RemoveHandles, countVars
<1>2. CurlTypeOK /\ OwnerInv /\ SocketInv /\ HandlerInv BY DEF CurlInv
<1>3. object \subseteq Requests /\ held \subseteq object BY <1>2 DEF CurlTypeOK
<1>4. \A r \in Requests : r \notin object => easy[r] \notin Busy
  BY <1>2, <1>3 DEF OwnerInv
<1>5. S \in SUBSET Requests BY <1>3
<1>6. \A r \in Requests : easy'[r] = "live" <=> easy[r] = "live" /\ r \notin S
  BY <1>1, <1>2, <1>4 DEF SocketInv, Busy
<1>7. /\ \A r \in Requests : easy'[r] \in Busy => r \in held'
      /\ \A r \in Requests : easy'[r] = "none" => r \notin object'
  BY <1>1, <1>4 DEF Busy
<1>8. easy' \in [Requests -> {"none", "init", "live", "done", "told", "gone"}]
  BY <1>1, <1>2 DEF CurlTypeOK
<1>9. cur = NULL BY <1>1, <1>2 DEF HandlerInv
<1>10. timers' \in Nat /\ due \in 0..timers' BY <1>1, <1>2 DEF CurlTypeOK
<1> HIDE DEF S
<1> QED BY <1>1, <1>5, <1>6, <1>7, <1>8, <1>9, <1>10, RemovalStep

(* A step that touches neither the channels nor the sockets. *)
LEMMA ChannelsKept ==
    ASSUME CurlInv, UNCHANGED <<sock, socketp, channel, chan, functors>>,
           \A r \in Requests : easy'[r] = "live" <=> easy[r] = "live",
           \A c \in Channels : ready'[c] = {} \/ (ready'[c] # {} /\ chan[c].state = "active")
    PROVE  SocketInv' /\ ChannelInv'
<1>1. SocketInv /\ ChannelInv BY DEF CurlInv
<1>2. FreeFds' = FreeFds BY DEF FreeFds
<1>3. SocketInv'
  <2>1. \A r \in Requests : (sock[r] # NULL <=> easy'[r] = "live")
                            /\ (channel[r] # NULL <=> sock[r] # NULL)
    BY <1>1 DEF SocketInv
  <2>2. /\ \A r \in Requests : sock[r] # NULL =>
              /\ socketp[sock[r]] = channel[r]
              /\ chan[channel[r]].fd = sock[r] /\ chan[channel[r]].req = r
              /\ chan[channel[r]].state = "active"
        /\ \A f \in FreeFds : socketp[f] = NULL
    BY <1>1 DEF SocketInv
  <2> QED BY <1>2, <2>1, <2>2 DEF SocketInv
<1>4. ChannelInv' BY <1>1 DEF ChannelInv
<1> QED BY <1>3, <1>4

LEMMA ReadyKept ==
    ASSUME CurlInv, NEW c \in Channels
    PROVE  ready[c] = {} \/ (ready[c] # {} /\ chan[c].state = "active")
  BY DEF CurlInv, ChannelInv

(* The calls of user code from checkFinish(). *)
LEMMA DoneStep ==
    ASSUME CurlInv, NEW r \in Requests, NEW dropped \in SUBSET {r}, NEW added \in SUBSET Requests,
           \A q \in added : q # r /\ easy[q] = "none", Done(r, dropped, added)
    PROVE  /\ CurlInv'
           /\ easy[r] = "done" /\ easy'[r] \in {"told", "gone"} /\ pc' = "finish" /\ pc = "finish"
           /\ \A q \in Requests \ {r} : easy'[q] = IF q \in added THEN "init" ELSE easy[q]
<1> DEFINE dying == {q \in dropped : ~Guarded(q)}
<1>1. /\ pc = "finish" /\ easy[r] = "done"
      /\ held' = (held \ dropped) \cup added
      /\ object' = (object \ dying) \cup added
      /\ easy' = AddHandles(added, RemoveHandles(dying, [easy EXCEPT ![r] = "told"]))
      /\ timers' = timers \/ timers' = timers + 1
      /\ UNCHANGED <<pc, cur, todo, ready, due, sock, socketp, channel, chan, functors,
                     running, prev>>
  BY DEF Done, TimerCallback, loopVars, countVars
<1>2. CurlTypeOK /\ OwnerInv /\ HandlerInv BY DEF CurlInv
<1>3. dying \subseteq {r} OBVIOUS
<1> HIDE DEF dying
<1>4. easy' = [q \in Requests |-> IF q \in added THEN "init"
                                  ELSE IF q \in dying THEN "gone"
                                  ELSE IF q = r THEN "told" ELSE easy[q]]
  <2>1. [easy EXCEPT ![r] = "told"] = [q \in Requests |-> IF q = r THEN "told" ELSE easy[q]]
    BY <1>2 DEF CurlTypeOK
  <2>2. RemoveHandles(dying, [easy EXCEPT ![r] = "told"]) =
          [q \in Requests |-> IF q \in dying THEN "gone" ELSE IF q = r THEN "told" ELSE easy[q]]
    BY <2>1 DEF RemoveHandles
  <2> QED BY <1>1, <2>2 DEF AddHandles
<1>5. easy'[r] \in {"told", "gone"} BY <1>4
<1>6. \A q \in Requests \ {r} : easy'[q] = IF q \in added THEN "init" ELSE easy[q]
  BY <1>3, <1>4
<1>7. easy' \in [Requests -> {"none", "init", "live", "done", "told", "gone"}]
  BY <1>2, <1>4 DEF CurlTypeOK
<1>8. object' \subseteq Requests /\ held' \subseteq object'
  <2>1. dying \subseteq dropped BY DEF dying
  <2> QED BY <1>1, <1>2, <2>1 DEF CurlTypeOK
<1>9. timers' \in Nat /\ due' \in 0..timers' BY <1>1, <1>2 DEF CurlTypeOK
<1>10. CurlTypeOK' BY <1>1, <1>2, <1>7, <1>8, <1>9 DEF CurlTypeOK
<1>11. OwnerInv'
  <2>4. ASSUME NEW q \in Requests, easy'[q] = "none" PROVE q \notin object'
    <3>1. q # r /\ q \notin added /\ easy[q] = "none" BY <1>4, <1>5, <1>6, <2>4
    <3> QED BY <1>1, <1>2, <3>1 DEF OwnerInv
  <2> SUFFICES ASSUME NEW q \in Requests, easy'[q] \in Busy PROVE q \in held'
    BY <2>4 DEF OwnerInv
  <2>1. q # r BY <1>5 DEF Busy
  <2>2. CASE q \in added BY <1>1, <2>2
  <2>3. CASE q \notin added BY <1>1, <1>2, <1>6, <2>1, <2>3 DEF OwnerInv
  <2> QED BY <2>2, <2>3
<1>12. \A q \in Requests : easy'[q] = "live" <=> easy[q] = "live"
  BY <1>1, <1>5, <1>6
<1>13. \A c \in Channels : ready'[c] = {} \/ (ready'[c] # {} /\ chan[c].state = "active")
  BY <1>1, ReadyKept
<1>14. SocketInv' /\ ChannelInv' BY <1>1, <1>12, <1>13, ChannelsKept
<1>15. HandlerInv' BY <1>1, <1>2 DEF HandlerInv
<1> QED BY <1>1, <1>5, <1>6, <1>10, <1>11, <1>14, <1>15 DEF CurlInv

-----------------------------------------------------------------------------
(* The steps of the loop thread. *)
LEMMA SpareTimerStep ==
    ASSUME CurlInv, SpareTimer
    PROVE  CurlInv'
<1>1. /\ timers' = timers + 1
      /\ UNCHANGED <<pc, cur, todo, ready, due, easy, sock, socketp, object, held, channel, chan,
                     functors, running, prev>>
  BY DEF SpareTimer, TimerCallback, loopVars, multiVars, requestVars, countVars
<1>2. CurlTypeOK /\ OwnerInv /\ HandlerInv BY DEF CurlInv
<1>3. CurlTypeOK' BY <1>1, <1>2 DEF CurlTypeOK
<1>4. OwnerInv' /\ HandlerInv' BY <1>1, <1>2 DEF OwnerInv, HandlerInv
<1>5. SocketInv' /\ ChannelInv' BY <1>1, ReadyKept, ChannelsKept
<1> QED BY <1>3, <1>4, <1>5 DEF CurlInv

LEMMA ActionReturnStep ==
    ASSUME CurlInv, ActionReturn
    PROVE  CurlInv'
<1>1. /\ pc = "action" /\ pc' = "finish"
      /\ timers' = timers \/ timers' = timers + 1
      /\ running' = Cardinality({r \in Requests : Active(r)})
      /\ UNCHANGED <<cur, todo, ready, due, easy, sock, socketp, object, held, channel, chan,
                     functors, prev>>
  BY DEF ActionReturn, TimerCallback, loopVars, multiVars, requestVars
<1>2. CurlTypeOK /\ OwnerInv /\ HandlerInv BY DEF CurlInv
<1>3. IsFiniteSet({r \in Requests : Active(r)})
  <2>1. {r \in Requests : Active(r)} \in SUBSET Requests OBVIOUS
  <2> QED BY <2>1, CurlAssumption, FS_Subset
<1>4. running' \in Nat BY <1>1, <1>3, FS_CardinalityType
<1>5. CurlTypeOK' BY <1>1, <1>2, <1>4 DEF CurlTypeOK
<1>6. OwnerInv' /\ HandlerInv' BY <1>1, <1>2 DEF OwnerInv, HandlerInv
<1>7. SocketInv' /\ ChannelInv' BY <1>1, ReadyKept, ChannelsKept
<1> QED BY <1>5, <1>6, <1>7 DEF CurlInv

(* libev reports events only of watchers that are started. *)
LEMMA PollStep ==
    ASSUME CurlInv, NEW batch \in SUBSET Watched, NEW n \in 0..timers, Poll(batch, n)
    PROVE  CurlInv'
<1>1. /\ pc = "poll" /\ pc' = "dispatch" /\ due' = n
      /\ ready' = [c \in Channels |-> {b[2] : b \in {b \in batch : b[1] = c}}]
      /\ UNCHANGED <<cur, todo, timers, easy, sock, socketp, object, held, channel, chan,
                     functors, running, prev>>
  BY DEF Poll, multiVars, requestVars, countVars
<1>2. CurlTypeOK /\ OwnerInv /\ ChannelInv /\ HandlerInv BY DEF CurlInv
<1>3. ASSUME NEW c \in Channels PROVE ready'[c] \subseteq chan[c].events
  <2> SUFFICES ASSUME NEW b \in batch, b[1] = c PROVE b[2] \in chan[c].events
    BY <1>1
  <2>1. PICK d \in Channels : b \in {d} \X chan[d].events BY DEF Watched
  <2> QED BY <2>1
<1>4. \A c \in Channels : chan[c].events \subseteq {"read", "write"} BY <1>2 DEF CurlTypeOK
<1>5. ready' \in [Channels -> SUBSET {"read", "write"}]
  <2>1. \A c \in Channels : ready'[c] \in SUBSET {"read", "write"} BY <1>3, <1>4
  <2>2. ready' = [c \in Channels |-> ready'[c]] BY <1>1
  <2> QED BY <2>1, <2>2
<1>6. CurlTypeOK' BY <1>1, <1>2, <1>5 DEF CurlTypeOK
<1>7. OwnerInv' /\ HandlerInv' BY <1>1, <1>2 DEF OwnerInv, HandlerInv
<1>8. \A c \in Channels : ready'[c] = {} \/ (ready'[c] # {} /\ chan[c].state = "active")
  BY <1>2, <1>3 DEF ChannelInv
<1>9. SocketInv' /\ ChannelInv' BY <1>1, <1>8, ChannelsKept
<1> QED BY <1>6, <1>7, <1>9 DEF CurlInv

LEMMA HandleEventStep ==
    ASSUME CurlInv, NEW c \in Channels, HandleEvent(c)
    PROVE  CurlInv'
<1>1. /\ pc = "dispatch" /\ ready[c] # {}
      /\ ready' = [ready EXCEPT ![c] = {}]
      /\ \/ cur' = c /\ todo' = ready[c] /\ pc' = "handler"
         \/ cur' = cur /\ todo' = todo /\ pc' = pc
      /\ UNCHANGED <<due, timers, easy, sock, socketp, object, held, channel, chan,
                     functors, running, prev>>
  BY DEF HandleEvent, multiVars, requestVars, countVars
<1>2. CurlTypeOK /\ OwnerInv /\ HandlerInv BY DEF CurlInv
<1>3. chan[c].state = "active" BY <1>1, ReadyKept
<1>4. CurlTypeOK' BY <1>1, <1>2 DEF CurlTypeOK
<1>5. OwnerInv' BY <1>1, <1>2 DEF OwnerInv
<1>6. HandlerInv' BY <1>1, <1>2, <1>3 DEF HandlerInv
<1>7. \A d \in Channels : ready'[d] = {} \/ (ready'[d] # {} /\ chan[d].state = "active")
  <2>1. ready \in [Channels -> SUBSET {"read", "write"}] BY <1>2 DEF CurlTypeOK
  <2>2. \A d \in Channels : ready'[d] = IF d = c THEN {} ELSE ready[d] BY <1>1, <2>1
  <2> QED BY <2>2, ReadyKept
<1>8. SocketInv' /\ ChannelInv' BY <1>1, <1>7, ChannelsKept
<1> QED BY <1>4, <1>5, <1>6, <1>8 DEF CurlInv

LEMMA OnTimerStep ==
    ASSUME CurlInv, OnTimer
    PROVE  CurlInv'
<1>1. /\ pc = "dispatch" /\ due > 0 /\ due' = due - 1 /\ timers' = timers - 1 /\ pc' = "action"
      /\ UNCHANGED <<cur, todo, ready, easy, sock, socketp, object, held, channel, chan,
                     functors, running, prev>>
  BY DEF OnTimer, multiVars, requestVars, countVars
<1>2. CurlTypeOK /\ OwnerInv /\ HandlerInv BY DEF CurlInv
<1>3. timers' \in Nat /\ due' \in 0..timers' BY <1>1, <1>2 DEF CurlTypeOK
<1>4. CurlTypeOK' BY <1>1, <1>2, <1>3 DEF CurlTypeOK
<1>5. OwnerInv' /\ HandlerInv' BY <1>1, <1>2 DEF OwnerInv, HandlerInv
<1>6. SocketInv' /\ ChannelInv' BY <1>1, ReadyKept, ChannelsKept
<1> QED BY <1>4, <1>5, <1>6 DEF CurlInv

LEMMA OnReadOrWriteStep ==
    ASSUME CurlInv, OnReadOrWrite
    PROVE  CurlInv'
<1>1. /\ pc = "handler" /\ todo' \subseteq todo /\ pc' = "action"
      /\ UNCHANGED <<cur, ready, due, timers, easy, sock, socketp, object, held, channel, chan,
                     functors, running, prev>>
  BY DEF OnReadOrWrite, multiVars, requestVars, countVars
<1>2. CurlTypeOK /\ OwnerInv /\ HandlerInv BY DEF CurlInv
<1>3. CurlTypeOK' BY <1>1, <1>2 DEF CurlTypeOK
<1>4. OwnerInv' /\ HandlerInv' BY <1>1, <1>2 DEF OwnerInv, HandlerInv
<1>5. SocketInv' /\ ChannelInv' BY <1>1, ReadyKept, ChannelsKept
<1> QED BY <1>3, <1>4, <1>5 DEF CurlInv

(* The request that goes with the handler has no owner, so its transfer is *)
(* over.                                                                   *)
LEMMA HandlerEndStep ==
    ASSUME CurlInv, HandlerEnd
    PROVE  /\ CurlInv'
           /\ \A r \in Requests : \/ easy'[r] = easy[r]
                                  \/ easy'[r] = "gone" /\ easy[r] \in {"told", "gone"}
<1> DEFINE dying == {r \in object : Guarded(r) /\ r \notin held}
<1>1. /\ pc = "handler" /\ cur' = NULL /\ pc' = "dispatch"
      /\ object' = object \ dying
      /\ easy' = [r \in Requests |-> IF r \in dying THEN "gone" ELSE easy[r]]
      /\ UNCHANGED <<todo, ready, due, timers, sock, socketp, held, channel, chan, functors,
                     running, prev>>
  BY DEF HandlerEnd, RemoveHandles, countVars
<1>2. CurlTypeOK /\ OwnerInv /\ HandlerInv BY DEF CurlInv
<1>3. dying \subseteq object /\ dying \cap held = {} OBVIOUS
<1> HIDE DEF dying
<1>4. \A r \in Requests : \/ easy'[r] = easy[r]
                          \/ easy'[r] = "gone" /\ easy[r] \in {"told", "gone"}
  <2> SUFFICES ASSUME NEW r \in Requests, r \in dying
               PROVE  easy'[r] = "gone" /\ easy[r] \in {"told", "gone"}
    BY <1>1
  <2>1. r \notin held BY <1>3
  <2>2. easy[r] \notin Busy /\ easy[r] # "none" BY <1>2, <1>3, <2>1 DEF OwnerInv
  <2>3. easy[r] \in {"none", "init", "live", "done", "told", "gone"} BY <1>2 DEF CurlTypeOK
  <2> QED BY <1>1, <2>2, <2>3 DEF Busy
<1>5. CurlTypeOK' BY <1>1, <1>2, <1>3 DEF CurlTypeOK
<1>6. OwnerInv' BY <1>1, <1>2, <1>4 DEF OwnerInv, Busy
<1>7. HandlerInv' BY <1>1 DEF HandlerInv
<1>8. \A r \in Requests : easy'[r] = "live" <=> easy[r] = "live" BY <1>4
<1>9. SocketInv' /\ ChannelInv' BY <1>1, <1>8, ReadyKept, ChannelsKept
<1> QED BY <1>4, <1>5, <1>6, <1>7, <1>9 DEF CurlInv

LEMMA FinishEndStep ==
    ASSUME CurlInv, FinishEnd
    PROVE  CurlInv'
<1>1. /\ pc = "finish" /\ prev' = running
      /\ pc' = IF cur = NULL THEN "dispatch" ELSE "handler"
      /\ UNCHANGED <<cur, todo, ready, due, timers, easy, sock, socketp, object, held, channel,
                     chan, functors, running>>
  BY DEF FinishEnd, loopVars, multiVars, requestVars
<1>2. CurlTypeOK /\ OwnerInv /\ HandlerInv BY DEF CurlInv
<1>3. CurlTypeOK' BY <1>1, <1>2 DEF CurlTypeOK
<1>4. OwnerInv' BY <1>1, <1>2 DEF OwnerInv
<1>5. HandlerInv' BY <1>1, <1>2 DEF HandlerInv
<1>6. SocketInv' /\ ChannelInv' BY <1>1, ReadyKept, ChannelsKept
<1> QED BY <1>3, <1>4, <1>5, <1>6 DEF CurlInv

(* The functors free their channels between the handlers. *)
LEMMA PrepareStep ==
    ASSUME CurlInv, NEW q, Prepare(q)
    PROVE  CurlInv'
<1>1. /\ pc = "dispatch" /\ pc' \in {"ended", "poll"}
      /\ functors' = {}
      /\ chan' = [c \in Channels |-> IF c \in functors THEN NoChannel ELSE chan[c]]
      /\ UNCHANGED <<cur, todo, ready, due, timers, easy, sock, socketp, object, held, channel,
                     running, prev>>
      /\ \A c \in Channels : ready[c] = {}
  BY DEF Prepare, loopVars, multiVars, countVars
<1>2. CurlTypeOK /\ OwnerInv /\ SocketInv /\ ChannelInv /\ HandlerInv BY DEF CurlInv
<1>3. NoChannel \in ChannelRecord /\ NoChannel.state = "free" /\ NoChannel.events = {}
  BY DEF NoChannel, ChannelRecord
<1>4. chan \in [Channels -> ChannelRecord] BY <1>2 DEF CurlTypeOK, ChannelRecord
<1>5. chan' \in [Channels -> ChannelRecord] BY <1>1, <1>3, <1>4
<1>6. CurlTypeOK' BY <1>1, <1>2, <1>5 DEF CurlTypeOK, ChannelRecord
<1>7. OwnerInv' BY <1>1, <1>2 DEF OwnerInv
<1>8. /\ \A c \in Channels : chan[c].state = "active" => chan'[c] = chan[c]
      /\ \A c \in Channels : chan[c].state # "active" =>
              chan'[c].state = "free" /\ chan'[c].events = {}
  <2>1. \A c \in Channels : chan[c].state \in {"free", "active", "stopped"}
    BY <1>4 DEF ChannelRecord
  <2>2. \A c \in Channels : c \in functors <=> chan[c].state = "stopped"
    BY <1>2 DEF ChannelInv
  <2>3. \A c \in Channels : chan[c].state # "active" => chan[c].events = {}
    BY <1>2 DEF ChannelInv
  <2>4. \A c \in Channels : chan'[c] = IF c \in functors THEN NoChannel ELSE chan[c]
    BY <1>1
  <2> QED BY <1>3, <2>1, <2>2, <2>3, <2>4
<1>9. SocketInv'
  <2>1. \A r \in Requests : sock[r] # NULL => channel[r] \in Channels
    BY <1>2 DEF SocketInv, CurlTypeOK
  <2>2. FreeFds' = FreeFds BY <1>1 DEF FreeFds
  <2>3. \A r \in Requests : sock[r] # NULL =>
              /\ socketp[sock[r]] = channel[r]
              /\ chan'[channel[r]].fd = sock[r] /\ chan'[channel[r]].req = r
              /\ chan'[channel[r]].state = "active"
    BY <1>2, <1>8, <2>1 DEF SocketInv
  <2>4. \A r \in Requests : (sock[r] # NULL <=> easy[r] = "live")
                            /\ (channel[r] # NULL <=> sock[r] # NULL)
    BY <1>2 DEF SocketInv
  <2>5. \A f \in FreeFds : socketp[f] = NULL BY <1>2 DEF SocketInv
  <2> QED BY <1>1, <2>2, <2>3, <2>4, <2>5 DEF SocketInv
<1>10. ChannelInv'
  <2> SUFFICES ASSUME NEW c \in Channels
               PROVE  /\ chan'[c].state = "active" =>
                            chan'[c].req \in Requests /\ channel[chan'[c].req] = c
                      /\ chan'[c].state # "stopped"
                      /\ chan'[c].state # "active" => chan'[c].events = {}
    BY <1>1 DEF ChannelInv
  <2> QED BY <1>2, <1>8 DEF ChannelInv
<1>11. HandlerInv' BY <1>1, <1>2 DEF HandlerInv
<1> QED BY <1>6, <1>7, <1>9, <1>10, <1>11 DEF CurlInv

LEMMA CurlInitially ==
    ASSUME NEW S \in SUBSET Requests, CurlInit(S)
    PROVE  CurlInv
<1>1. /\ pc = "dispatch" /\ cur = NULL /\ todo = {} /\ due = 0
      /\ ready = [c \in Channels |-> {}]
      /\ timers = IF S = {} THEN 0 ELSE 1
      /\ functors = {}
      /\ easy = [r \in Requests |-> IF r \in S THEN "init" ELSE "none"]
      /\ sock = [r \in Requests |-> NULL]
      /\ socketp = [f \in Fds |-> NULL]
      /\ object = S /\ held = S
      /\ channel = [r \in Requests |-> NULL]
      /\ chan = [c \in Channels |-> NoChannel]
      /\ running = 0 /\ prev = 0
  BY DEF CurlInit, AddHandles
<1>2. NoChannel \in ChannelRecord /\ NoChannel.state = "free" /\ NoChannel.events = {}
  BY DEF NoChannel, ChannelRecord
<1>3. CurlTypeOK
  <2>1. chan \in [Channels -> ChannelRecord] BY <1>1, <1>2
  <2> QED BY <1>1, <2>1 DEF CurlTypeOK, ChannelRecord
<1>4. OwnerInv BY <1>1 DEF OwnerInv, Busy
<1>5. SocketInv BY <1>1 DEF SocketInv, FreeFds
<1>6. ChannelInv BY <1>1, <1>2 DEF ChannelInv
<1>7. HandlerInv BY <1>1 DEF HandlerInv
<1> QED BY <1>3, <1>4, <1>5, <1>6, <1>7 DEF CurlInv

-----------------------------------------------------------------------------
(* The inductive invariant of the Downloader: the stages of a download.    *)
(* While pieces are fetched concurrent_ counts the ones whose end was not  *)
(* told, among them those whose file could not be opened.                  *)
Over == {"told", "gone"}
Pending == {i \in Pieces : easy[i] \in Busy \cup {"none"}}

HeaderStage ==
    /\ easy[header] \in Busy /\ ~quit /\ concurrent = 0
    /\ \A r \in Requests \ {header} : easy[r] = "none"

PiecesStage ==
    /\ easy[header] \in Over /\ easy[single] = "none"
    /\ concurrent = Cardinality(Pending)
    /\ length >= kConcurrent * kMinPiece

SingleStage ==
    /\ easy[header] \in Over /\ \A i \in Pieces : easy[i] = "none"
    /\ easy[single] # "none"
    /\ concurrent = IF easy[single] \in Busy THEN 1 ELSE 0

NothingStage ==
    /\ easy[header] \in Over /\ quit /\ concurrent = 0
    /\ \A r \in Requests \ {header} : easy[r] = "none"

StageInv == pc # "destroyed" => HeaderStage \/ PiecesStage \/ SingleStage \/ NothingStage

EndInv == pc = "ended" => quit

(* A file is empty until its transfer ends, and then holds what was asked  *)
(* for unless the transfer failed.                                         *)
FileInv ==
    pc # "destroyed" =>
      \A r \in Requests :
         /\ easy[r] \in {"none", "init", "live"} => file[r] = {}
         /\ easy[r] \in {"done", "told", "gone"} /\ r \notin failed => file[r] = Wanted(r)

DownloadInv == TypeOK /\ CurlInv /\ StageInv /\ EndInv /\ FileInv

LEMMA RequestFacts ==
    /\ header \in Requests /\ single \in Requests /\ Pieces \subseteq Requests
    /\ header # single /\ header \notin Pieces /\ single \notin Pieces
    /\ \A r \in Requests : r = header \/ r = single \/ r \in Pieces
    /\ Pieces # {}
<1>1. kConcurrent \in Nat \ {0} /\ Requests = Pieces \cup {header, single} BY DownloadAssumption
<1>2. header # single /\ header \notin Pieces /\ single \notin Pieces
  BY <1>1 DEF header, single, Pieces
<1>3. 0 \in Pieces BY <1>1 DEF Pieces
<1> QED BY <1>1, <1>2, <1>3

LEMMA PiecesCounted ==
    IsFiniteSet(Pieces) /\ Cardinality(Pieces) = kConcurrent
<1>1. kConcurrent \in Nat \ {0} BY DownloadAssumption
<1>2. 0 \in Int /\ kConcurrent - 1 \in Int BY <1>1
<1>3. /\ IsFiniteSet(0..(kConcurrent - 1))
      /\ Cardinality(0..(kConcurrent - 1)) =
           IF 0 > kConcurrent - 1 THEN 0 ELSE (kConcurrent - 1) - 0 + 1
  BY <1>2, FS_Interval
<1> QED BY <1>1, <1>3 DEF Pieces

LEMMA PendingCounted ==
    /\ IsFiniteSet(Pending) /\ Cardinality(Pending) \in 0..kConcurrent
    /\ Cardinality(Pending) = 0 => Pending = {}
<1>1. Pending \in SUBSET Pieces BY DEF Pending
<1>2. /\ IsFiniteSet(Pending) /\ Cardinality(Pending) <= Cardinality(Pieces)
  BY <1>1, PiecesCounted, FS_Subset
<1>3. Cardinality(Pending) \in Nat BY <1>2, FS_CardinalityType
<1>4. Cardinality(Pending) = 0 => Pending = {} BY <1>2, FS_EmptySet
<1>5. kConcurrent \in Nat BY DownloadAssumption
<1> QED BY <1>2, <1>3, <1>4, <1>5, PiecesCounted

LEMMA WantedTyped ==
    ASSUME TypeOK, NEW r \in Requests
    PROVE  Wanted(r) \subseteq Nat
<1>1. length \in Nat BY DownloadAssumption DEF TypeOK
<1>2. kConcurrent \in Nat \ {0} BY DownloadAssumption
<1>3. r = header \/ r = single \/ r \in Pieces BY RequestFacts
<1>4. CASE r = header BY <1>4 DEF Wanted
<1>5. CASE r # header /\ r = single
  <2>1. Wanted(r) = 0..(length - 1) BY <1>5 DEF Wanted
  <2> QED BY <1>1, <2>1
<1>6. CASE r # header /\ r # single
  <2> DEFINE p == length \div kConcurrent
  <2>1. r \in Nat BY <1>3, <1>6 DEF Pieces
  <2>2. p \in Nat BY <1>1, <1>2
  <2>3. Wanted(r) = IF r < kConcurrent - 1 THEN (r * p)..((r + 1) * p - 1)
                                           ELSE (r * p)..(length - 1)
    BY <1>6 DEF Wanted, PieceRange
  <2> HIDE DEF p
  <2>4. r * p \in Nat /\ (r + 1) * p \in Nat BY <2>1, <2>2
  <2> QED BY <1>1, <2>3, <2>4
<1> QED BY <1>4, <1>5, <1>6

LEMMA WantedKept ==
    ASSUME length' = length, NEW r \in Requests
    PROVE  Wanted(r)' = Wanted(r)
  BY DEF Wanted, PieceRange

(* Steps in which no transfer starts or ends. *)
LEMMA QuietStep ==
    ASSUME DownloadInv, CurlInv', pc # "destroyed", pc' = "ended" => quit,
           UNCHANGED <<headerVars, concurrent, quit, fileVars>>,
           \A r \in Requests : \/ easy'[r] = easy[r]
                               \/ easy[r] \in {"init", "live"} /\ easy'[r] \in {"init", "live"}
                               \/ easy[r] \in Over /\ easy'[r] \in Over
    PROVE  DownloadInv'
<1>1. UNCHANGED <<found, acceptRanges, length, concurrent, quit, file, failed>>
  BY DEF headerVars, fileVars
<1>2. TypeOK /\ StageInv /\ FileInv BY DEF DownloadInv
<1>3. TypeOK' BY <1>1, <1>2 DEF TypeOK, CurlInv
<1>4. StageInv'
  <2>1. HeaderStage \/ PiecesStage \/ SingleStage \/ NothingStage BY <1>2 DEF StageInv
  <2>2. /\ \A r \in Requests : easy'[r] \in Busy <=> easy[r] \in Busy
        /\ \A r \in Requests : easy'[r] \in Over <=> easy[r] \in Over
        /\ \A r \in Requests : easy'[r] = "none" <=> easy[r] = "none"
    BY DEF Busy, Over
  <2>3. Pending' = Pending BY <2>2, RequestFacts DEF Pending
  <2>4. CASE HeaderStage BY <1>1, <2>2, <2>4, RequestFacts DEF StageInv, HeaderStage
  <2>5. CASE PiecesStage BY <1>1, <2>2, <2>3, <2>5, RequestFacts DEF StageInv, PiecesStage
  <2>6. CASE SingleStage BY <1>1, <2>2, <2>6, RequestFacts DEF StageInv, SingleStage
  <2>7. CASE NothingStage BY <1>1, <2>2, <2>7, RequestFacts DEF StageInv, NothingStage
  <2> QED BY <2>1, <2>4, <2>5, <2>6, <2>7
<1>5. EndInv' BY <1>1 DEF EndInv
<1>6. FileInv'
  <2>1. \A r \in Requests :
           /\ easy[r] \in {"none", "init", "live"} => file[r] = {}
           /\ easy[r] \in {"done", "told", "gone"} /\ r \notin failed => file[r] = Wanted(r)
    BY <1>2 DEF FileInv
  <2>2. \A r \in Requests : Wanted(r)' = Wanted(r) BY <1>1, WantedKept
  <2>3. \A r \in Requests :
           /\ easy'[r] \in {"none", "init", "live"} => easy[r] \in {"none", "init", "live"}
           /\ easy'[r] \in {"done", "told", "gone"} => easy[r] \in {"done", "told", "gone"}
    BY DEF Over
  <2> QED BY <1>1, <2>1, <2>2, <2>3 DEF FileInv
<1> QED BY <1>3, <1>4, <1>5, <1>6 DEF DownloadInv

LEMMA TransferEndsStep ==
    ASSUME DownloadInv, NEW r \in Requests, TransferEnds(r)
    PROVE  DownloadInv'
<1>1. /\ Complete(r) /\ easy[r] \in {"init", "live"} /\ pc = "action" /\ pc' = pc
      /\ easy' = [easy EXCEPT ![r] = "done"]
      /\ UNCHANGED <<concurrent, quit>>
  BY DEF TransferEnds, Complete, Active
<1>2. TypeOK /\ CurlInv /\ StageInv /\ FileInv BY DEF DownloadInv
<1>3. CurlInv' BY <1>1, <1>2, CompleteStep
<1>4. \A q \in Requests : easy'[q] = IF q = r THEN "done" ELSE easy[q]
  BY <1>1, <1>2 DEF TypeOK, CurlTypeOK
<1>5. HeaderStage \/ PiecesStage \/ SingleStage \/ NothingStage BY <1>1, <1>2 DEF StageInv
<1>6. \/ UNCHANGED headerVars
      \/ r = header /\ OnHeader
  BY DEF TransferEnds
<1>7. \/ file' = [file EXCEPT ![r] = Wanted(r)] /\ failed' = failed
      \/ failed' = failed \cup {r} /\ file' = file
  BY DEF TransferEnds
<1>8. r = header => HeaderStage
  BY <1>1, <1>5 DEF PiecesStage, SingleStage, NothingStage, Over
<1>9. TypeOK'
  <2>1. found' \in BOOLEAN /\ acceptRanges' \in BOOLEAN /\ length' \in Lengths \cup {0}
    BY <1>2, <1>6 DEF TypeOK, headerVars, OnHeader
  <2>2. Wanted(r) \in SUBSET Nat BY <1>2, WantedTyped
  <2>3. file' \in [Requests -> SUBSET Nat] /\ failed' \subseteq Requests
    BY <1>2, <1>7, <2>2 DEF TypeOK
  <2> QED BY <1>1, <1>2, <1>3, <2>1, <2>3 DEF TypeOK, CurlInv
<1>10. StageInv'
  <2>1. /\ \A q \in Requests : easy'[q] \in Busy <=> easy[q] \in Busy
        /\ \A q \in Requests : easy'[q] \in Over <=> easy[q] \in Over
        /\ \A q \in Requests : easy'[q] = "none" <=> easy[q] = "none"
    BY <1>1, <1>4 DEF Busy, Over
  <2>2. Pending' = Pending BY <2>1, RequestFacts DEF Pending
  <2>3. CASE HeaderStage BY <1>1, <2>1, <2>3, RequestFacts DEF StageInv, HeaderStage
  <2>4. CASE PiecesStage
    <3>1. r # header BY <1>1, <2>4 DEF PiecesStage, Over
    <3>2. length' = length BY <1>6, <3>1 DEF headerVars
    <3> QED BY <1>1, <2>1, <2>2, <2>4, <3>2, RequestFacts DEF StageInv, PiecesStage
  <2>5. CASE SingleStage BY <1>1, <2>1, <2>5, RequestFacts DEF StageInv, SingleStage
  <2>6. CASE NothingStage BY <1>1, <2>1, <2>6, RequestFacts DEF StageInv, NothingStage
  <2> QED BY <1>5, <2>3, <2>4, <2>5, <2>6
<1>11. EndInv' BY <1>1 DEF EndInv
<1>12. FileInv'
  <2>1. \A q \in Requests :
           /\ easy[q] \in {"none", "init", "live"} => file[q] = {}
           /\ easy[q] \in {"done", "told", "gone"} /\ q \notin failed => file[q] = Wanted(q)
    BY <1>1, <1>2 DEF FileInv
  <2> SUFFICES ASSUME NEW q \in Requests
               PROVE  /\ easy'[q] \in {"none", "init", "live"} => file'[q] = {}
                      /\ easy'[q] \in {"done", "told", "gone"} /\ q \notin failed' =>
                            file'[q] = Wanted(q)'
    BY DEF FileInv
  <2>2. file \in [Requests -> SUBSET Nat] BY <1>2 DEF TypeOK
  <2>3. CASE q = r
    <3>1. easy'[q] = "done" BY <1>4, <2>3
    <3>2. CASE q \in failed' BY <3>1, <3>2
    <3>3. CASE q \notin failed'
      <4>1. file'[q] = Wanted(q) BY <1>7, <2>2, <2>3, <3>3
      <4>2. Wanted(q)' = Wanted(q)
        <5>1. CASE q = header BY <5>1 DEF Wanted
        <5>2. CASE q # header
          <6>1. length' = length BY <1>6, <2>3, <5>2 DEF headerVars
          <6> QED BY <6>1, WantedKept
        <5> QED BY <5>1, <5>2
      <4> QED BY <3>1, <4>1, <4>2
    <3> QED BY <3>2, <3>3
  <2>4. CASE q # r
    <3>1. easy'[q] = easy[q] /\ file'[q] = file[q] /\ (q \in failed' <=> q \in failed)
      BY <1>4, <1>7, <2>2, <2>4
    <3>2. CASE r = header
      <4>1. easy[q] = "none" BY <1>8, <2>4, <3>2 DEF HeaderStage
      <4> QED BY <2>1, <3>1, <4>1
    <3>3. CASE r # header
      <4>1. length' = length BY <1>6, <3>3 DEF headerVars
      <4>2. Wanted(q)' = Wanted(q) BY <4>1, WantedKept
      <4> QED BY <2>1, <3>1, <4>2
    <3> QED BY <3>2, <3>3
  <2> QED BY <2>3, <2>4
<1> QED BY <1>3, <1>9, <1>10, <1>11, <1>12 DEF DownloadInv

(* A done callback leaves the files alone; the transfers it starts have    *)
(* empty files.                                                            *)
LEMMA FilesAtDone ==
    ASSUME DownloadInv, NEW r \in Requests, NEW added \in SUBSET Requests, pc # "destroyed",
           easy[r] = "done", easy'[r] \in Over,
           \A q \in added : q # r /\ easy[q] = "none",
           \A q \in Requests \ {r} : easy'[q] = IF q \in added THEN "init" ELSE easy[q],
           UNCHANGED <<headerVars, fileVars>>
    PROVE  FileInv'
<1>1. length' = length /\ file' = file /\ failed' = failed BY DEF headerVars, fileVars
<1>2. \A q \in Requests :
         /\ easy[q] \in {"none", "init", "live"} => file[q] = {}
         /\ easy[q] \in {"done", "told", "gone"} /\ q \notin failed => file[q] = Wanted(q)
  BY DEF DownloadInv, FileInv
<1>3. \A q \in Requests : Wanted(q)' = Wanted(q) BY <1>1, WantedKept
<1>4. \A q \in Requests :
         /\ easy'[q] \in {"none", "init", "live"} => easy[q] \in {"none", "init", "live"}
         /\ easy'[q] \in {"done", "told", "gone"} => easy[q] \in {"done", "told", "gone"}
  BY DEF Over
<1> QED BY <1>1, <1>2, <1>3, <1>4 DEF FileInv

LEMMA OnHeaderDoneStep ==
    ASSUME DownloadInv, OnHeaderDone
    PROVE  DownloadInv'
<1>1. UNCHANGED <<headerVars, fileVars>> BY DEF OnHeaderDone
<1>2. TypeOK /\ CurlInv /\ StageInv BY DEF DownloadInv
<1>3. UNCHANGED <<found, acceptRanges, length, file, failed>> BY <1>1 DEF headerVars, fileVars
<1>4. easy[header] = "done" /\ pc = "finish"
  BY DEF OnHeaderDone, ConcurrentDownload, SingleDownload, NotFound, Done
<1>5. HeaderStage
  BY <1>2, <1>4 DEF StageInv, PiecesStage, SingleStage, NothingStage, Over
<1>6. \A q \in Requests : q # header => easy[q] = "none" BY <1>5 DEF HeaderStage
<1>7. ASSUME NEW dropped \in SUBSET {header}, NEW added \in SUBSET Requests, header \notin added,
             Done(header, dropped, added), concurrent' \in 0..kConcurrent, quit' \in BOOLEAN
      PROVE  /\ TypeOK' /\ CurlInv' /\ EndInv' /\ FileInv'
             /\ easy'[header] \in Over
             /\ \A q \in Requests : q # header => easy'[q] = IF q \in added THEN "init" ELSE "none"
             /\ pc' # "destroyed"
  <2>1. header \in Requests /\ \A q \in added : q # header /\ easy[q] = "none"
    BY <1>6, <1>7, RequestFacts
  <2>2. /\ CurlInv' /\ easy'[header] \in {"told", "gone"} /\ pc' = "finish"
        /\ \A q \in Requests \ {header} : easy'[q] = IF q \in added THEN "init" ELSE easy[q]
    BY <1>2, <1>7, <2>1, DoneStep
  <2>3. easy'[header] \in Over BY <2>2 DEF Over
  <2>4. pc # "destroyed" BY <1>4
  <2>5. FileInv' BY <1>1, <1>4, <2>1, <2>2, <2>3, <2>4, FilesAtDone
  <2>6. TypeOK' BY <1>2, <1>3, <1>7, <2>2 DEF TypeOK, CurlInv
  <2>7. EndInv' BY <2>2 DEF EndInv
  <2>8. \A q \in Requests : q # header => easy'[q] = IF q \in added THEN "init" ELSE "none"
    BY <1>6, <2>2
  <2> QED BY <2>2, <2>3, <2>5, <2>6, <2>7, <2>8
<1>8. /\ kConcurrent \in Nat \ {0} /\ concurrent = 0 /\ quit \in BOOLEAN
  BY <1>2, <1>5, DownloadAssumption DEF TypeOK, HeaderStage
<1>9. ASSUME NEW opened \in SUBSET Pieces, ConcurrentDownload(opened) PROVE DownloadInv'
  <2>1. /\ Done(header, {}, opened) /\ concurrent' = kConcurrent
        /\ quit' = (quit \/ opened # Pieces) /\ length >= kConcurrent * kMinPiece
    BY <1>9 DEF ConcurrentDownload
  <2>2. {} \in SUBSET {header} /\ opened \in SUBSET Requests /\ header \notin opened
        /\ single \notin opened
    BY RequestFacts
  <2>3. concurrent' \in 0..kConcurrent BY <1>8, <2>1
  <2>4. quit' \in BOOLEAN BY <1>8, <2>1
  <2>5. /\ TypeOK' /\ CurlInv' /\ EndInv' /\ FileInv' /\ easy'[header] \in Over
        /\ \A q \in Requests : q # header => easy'[q] = IF q \in opened THEN "init" ELSE "none"
    BY <1>7, <2>1, <2>2, <2>3, <2>4
  <2>6. Pending' = Pieces
    <3>1. \A i \in Pieces : easy'[i] \in Busy \cup {"none"}
      BY <2>5, RequestFacts DEF Busy
    <3> QED BY <3>1 DEF Pending
  <2>7. Cardinality(Pending') = kConcurrent BY <2>6, PiecesCounted
  <2>8. easy'[single] = "none" BY <2>2, <2>5, RequestFacts
  <2>9. PiecesStage' BY <1>3, <2>1, <2>5, <2>7, <2>8 DEF PiecesStage
  <2> QED BY <2>5, <2>9 DEF DownloadInv, StageInv
<1>10. ASSUME Done(header, {}, {}), quit', concurrent' = concurrent, quit' \in BOOLEAN
       PROVE  DownloadInv'
  <2>1. {} \in SUBSET {header} /\ {} \in SUBSET Requests /\ header \notin {} OBVIOUS
  <2>2. concurrent' \in 0..kConcurrent BY <1>8, <1>10
  <2>3. /\ TypeOK' /\ CurlInv' /\ EndInv' /\ FileInv' /\ easy'[header] \in Over
        /\ \A q \in Requests : q # header => easy'[q] = IF q \in {} THEN "init" ELSE "none"
    BY <1>7, <1>10, <2>1, <2>2
  <2>4. NothingStage' BY <1>8, <1>10, <2>3 DEF NothingStage
  <2> QED BY <2>3, <2>4 DEF DownloadInv, StageInv
<1>11. ASSUME Done(header, {header}, {single}), concurrent' = 1, quit' = quit
       PROVE  DownloadInv'
  <2>1. {header} \in SUBSET {header} /\ {single} \in SUBSET Requests /\ header \notin {single}
    BY RequestFacts
  <2>2. concurrent' \in 0..kConcurrent /\ quit' \in BOOLEAN BY <1>8, <1>11
  <2>3. /\ TypeOK' /\ CurlInv' /\ EndInv' /\ FileInv' /\ easy'[header] \in Over
        /\ \A q \in Requests : q # header => easy'[q] = IF q \in {single} THEN "init" ELSE "none"
    BY <1>7, <1>11, <2>1, <2>2
  <2>4. easy'[single] = "init" /\ \A i \in Pieces : easy'[i] = "none" BY <2>3, RequestFacts
  <2>5. SingleStage' BY <1>11, <2>3, <2>4 DEF SingleStage, Busy
  <2> QED BY <2>3, <2>5 DEF DownloadInv, StageInv
<1>12. CASE \E opened \in SUBSET Pieces : ConcurrentDownload(opened) BY <1>9, <1>12
<1>13. CASE SingleDownload
  <2>1. \/ Done(header, {header}, {single}) /\ concurrent' = 1 /\ quit' = quit
        \/ Done(header, {}, {}) /\ quit' = TRUE /\ concurrent' = concurrent
    BY <1>13 DEF SingleDownload
  <2> QED BY <1>10, <1>11, <2>1
<1>14. CASE NotFound
  <2>1. Done(header, {}, {}) /\ quit' = TRUE /\ concurrent' = concurrent
    BY <1>14 DEF NotFound
  <2> QED BY <1>10, <2>1
<1> QED BY <1>12, <1>13, <1>14 DEF OnHeaderDone

(* The counter goes down by one for each end that is told. *)
LEMMA OnDownloadDoneStep ==
    ASSUME DownloadInv, NEW r \in Requests \ {header}, OnDownloadDone(r)
    PROVE  DownloadInv'
<1> DEFINE dropped == IF r = single THEN {} ELSE {r}
<1>1. /\ Done(r, dropped, {}) /\ concurrent' = concurrent - 1
      /\ quit' = (quit \/ concurrent' <= 0)
      /\ UNCHANGED <<headerVars, fileVars>>
  BY DEF OnDownloadDone
<1>2. TypeOK /\ CurlInv /\ StageInv BY DEF DownloadInv
<1>3. UNCHANGED <<found, acceptRanges, length, file, failed>> BY <1>1 DEF headerVars, fileVars
<1>4. dropped \in SUBSET {r} /\ {} \in SUBSET Requests /\ r \in Requests OBVIOUS
<1> HIDE DEF dropped
<1>5. /\ CurlInv' /\ easy[r] = "done" /\ easy'[r] \in {"told", "gone"}
      /\ pc' = "finish" /\ pc = "finish"
      /\ \A q \in Requests \ {r} : easy'[q] = IF q \in {} THEN "init" ELSE easy[q]
  BY <1>1, <1>2, <1>4, DoneStep
<1>6. easy'[r] \in Over BY <1>5 DEF Over
<1>7. \A q \in Requests : q # r => easy'[q] = easy[q] BY <1>5
<1>8. FileInv' BY <1>1, <1>4, <1>5, <1>6, FilesAtDone
<1>9. EndInv' BY <1>5 DEF EndInv
<1>10. HeaderStage \/ PiecesStage \/ SingleStage \/ NothingStage BY <1>2, <1>5 DEF StageInv
<1>11. PiecesStage \/ SingleStage BY <1>5, <1>10 DEF HeaderStage, NothingStage
<1>12. easy[header] \in Over /\ easy'[header] \in Over
  BY <1>7, <1>11, RequestFacts DEF PiecesStage, SingleStage
<1>13. concurrent' \in 0..kConcurrent /\ (PiecesStage' \/ SingleStage')
  <2>1. CASE PiecesStage
    <3>1. r \in Pieces /\ r \in Pending
      BY <1>5, <2>1, RequestFacts DEF PiecesStage, Pending, Busy
    <3>2. Pending' = Pending \ {r}
      <4>1. r \notin Pending' BY <1>6 DEF Pending, Busy, Over
      <4>2. \A i \in Pieces : i # r => (i \in Pending' <=> i \in Pending)
        BY <1>7, RequestFacts DEF Pending
      <4>3. Pending \subseteq Pieces /\ Pending' \subseteq Pieces BY DEF Pending
      <4> QED BY <4>1, <4>2, <4>3
    <3>3. IsFiniteSet(Pending) /\ Cardinality(Pending) \in 0..kConcurrent BY PendingCounted
    <3>4. Cardinality(Pending \ {r}) = Cardinality(Pending) - 1
      BY <3>1, <3>3, FS_RemoveElement
    <3>5. Cardinality(Pending \ {r}) \in Nat
      BY <3>1, <3>3, FS_RemoveElement, FS_CardinalityType
    <3>6. concurrent' = Cardinality(Pending') BY <1>1, <2>1, <3>2, <3>4 DEF PiecesStage
    <3>7. concurrent' \in 0..kConcurrent
      BY <3>2, <3>3, <3>4, <3>5, <3>6, DownloadAssumption
    <3>8. easy'[single] = "none" BY <1>7, <2>1, <3>1, RequestFacts DEF PiecesStage
    <3> QED BY <1>3, <1>12, <2>1, <3>6, <3>7, <3>8 DEF PiecesStage
  <2>2. CASE SingleStage
    <3>1. r = single BY <1>5, <2>2, RequestFacts DEF SingleStage
    <3>2. concurrent = 1 BY <1>5, <2>2, <3>1 DEF SingleStage, Busy
    <3>3. concurrent' = 0 BY <1>1, <3>2
    <3>4. easy'[single] \notin Busy /\ easy'[single] # "none" BY <1>6, <3>1 DEF Busy, Over
    <3>5. \A i \in Pieces : easy'[i] = "none"
      BY <1>7, <2>2, <3>1, RequestFacts DEF SingleStage
    <3>6. kConcurrent \in Nat BY DownloadAssumption
    <3> QED BY <1>12, <3>3, <3>4, <3>5, <3>6 DEF SingleStage
  <2> QED BY <1>11, <2>1, <2>2
<1>14. TypeOK'
  <2>1. quit' \in BOOLEAN BY <1>1
  <2> QED BY <1>2, <1>3, <1>5, <1>13, <2>1 DEF TypeOK, CurlInv
<1> QED BY <1>5, <1>8, <1>9, <1>13, <1>14 DEF DownloadInv, StageInv

LEMMA LoopStepKeeps ==
    ASSUME DownloadInv, LoopStep \/ Prepare(quit),
           UNCHANGED <<headerVars, concurrent, quit, fileVars>>
    PROVE  DownloadInv'
<1>1. CurlInv BY DEF DownloadInv
<1>2. ASSUME NEW batch \in SUBSET Watched, NEW n \in 0..timers, Poll(batch, n)
      PROVE  DownloadInv'
  <2>1. CurlInv' BY <1>1, <1>2, PollStep
  <2>2. pc # "destroyed" /\ pc' # "ended" /\ easy' = easy BY <1>2 DEF Poll, multiVars
  <2> QED BY <2>1, <2>2, QuietStep
<1>3. ASSUME NEW c \in Channels, HandleEvent(c) PROVE DownloadInv'
  <2>1. CurlInv' BY <1>1, <1>3, HandleEventStep
  <2>2. pc # "destroyed" /\ pc' # "ended" /\ easy' = easy BY <1>3 DEF HandleEvent, multiVars
  <2> QED BY <2>1, <2>2, QuietStep
<1>4. CASE OnTimer
  <2>1. CurlInv' BY <1>1, <1>4, OnTimerStep
  <2>2. pc # "destroyed" /\ pc' # "ended" /\ easy' = easy BY <1>4 DEF OnTimer, multiVars
  <2> QED BY <2>1, <2>2, QuietStep
<1>5. CASE OnReadOrWrite
  <2>1. CurlInv' BY <1>1, <1>5, OnReadOrWriteStep
  <2>2. pc # "destroyed" /\ pc' # "ended" /\ easy' = easy BY <1>5 DEF OnReadOrWrite, multiVars
  <2> QED BY <2>1, <2>2, QuietStep
<1>6. CASE HandlerEnd
  <2>1. CurlInv' /\ \A r \in Requests : \/ easy'[r] = easy[r]
                                        \/ easy'[r] = "gone" /\ easy[r] \in {"told", "gone"}
    BY <1>1, <1>6, HandlerEndStep
  <2>2. pc # "destroyed" /\ pc' # "ended" BY <1>6 DEF HandlerEnd
  <2>3. \A r \in Requests : \/ easy'[r] = easy[r]
                            \/ easy[r] \in Over /\ easy'[r] \in Over
    BY <2>1 DEF Over
  <2> QED BY <2>1, <2>2, <2>3, QuietStep
<1>7. CASE ActionReturn
  <2>1. CurlInv' BY <1>1, <1>7, ActionReturnStep
  <2>2. pc # "destroyed" /\ pc' # "ended" /\ easy' = easy BY <1>7 DEF ActionReturn, multiVars
  <2> QED BY <2>1, <2>2, QuietStep
<1>8. CASE FinishEnd
  <2>1. CurlInv' BY <1>1, <1>8, FinishEndStep
  <2>2. pc # "destroyed" /\ pc' # "ended" /\ easy' = easy BY <1>8 DEF FinishEnd, multiVars
  <2> QED BY <2>1, <2>2, QuietStep
<1>9. CASE Destroy
  <2>1. CurlInv' BY <1>1, <1>9, DestroyStep
  <2>2. pc' = "destroyed" BY <1>9 DEF Destroy
  <2>3. TypeOK' BY <2>1 DEF DownloadInv, TypeOK, CurlInv, headerVars, fileVars
  <2> QED BY <2>1, <2>2, <2>3 DEF DownloadInv, StageInv, EndInv, FileInv
<1>10. CASE Prepare(quit)
  <2>1. CurlInv' BY <1>1, <1>10, PrepareStep
  <2>2. pc # "destroyed" /\ (pc' = "ended" => quit) /\ easy' = easy
    BY <1>10 DEF Prepare, multiVars
  <2> QED BY <2>1, <2>2, QuietStep
<1> QED BY <1>2, <1>3, <1>4, <1>5, <1>6, <1>7, <1>8, <1>9, <1>10 DEF LoopStep

LEMMA LibcurlStepKeeps ==
    ASSUME DownloadInv, LibcurlStep, UNCHANGED <<headerVars, concurrent, quit, fileVars>>
    PROVE  DownloadInv'
<1>1. CurlInv /\ easy \in [Requests -> {"none", "init", "live", "done", "told", "gone"}]
  BY DEF DownloadInv, CurlInv, CurlTypeOK
<1>2. ASSUME NEW r \in Requests, NEW f \in Fds, NEW out \in BOOLEAN, Connect(r, f, out)
      PROVE  DownloadInv'
  <2>1. CurlInv' BY <1>1, <1>2, ConnectStep
  <2>2. pc # "destroyed" /\ pc' # "ended" BY <1>2 DEF Connect
  <2>3. \A q \in Requests : \/ easy'[q] = easy[q]
                            \/ easy[q] \in {"init", "live"} /\ easy'[q] \in {"init", "live"}
    BY <1>1, <1>2 DEF Connect
  <2> QED BY <2>1, <2>2, <2>3, QuietStep
<1>3. ASSUME NEW r \in Requests, NEW out \in BOOLEAN, ChangeInterest(r, out)
      PROVE  DownloadInv'
  <2>1. CurlInv' BY <1>1, <1>3, ChangeInterestStep
  <2>2. pc # "destroyed" /\ pc' # "ended" /\ easy' = easy BY <1>3 DEF ChangeInterest
  <2> QED BY <2>1, <2>2, QuietStep
<1>4. ASSUME NEW r \in Requests, Reconnect(r) PROVE DownloadInv'
  <2>1. CurlInv' BY <1>1, <1>4, ReconnectStep
  <2>2. pc # "destroyed" /\ pc' # "ended" BY <1>4 DEF Reconnect
  <2>3. \A q \in Requests : \/ easy'[q] = easy[q]
                            \/ easy[q] \in {"init", "live"} /\ easy'[q] \in {"init", "live"}
    BY <1>1, <1>4 DEF Reconnect
  <2> QED BY <2>1, <2>2, <2>3, QuietStep
<1>5. CASE SpareTimer
  <2>1. CurlInv' BY <1>1, <1>5, SpareTimerStep
  <2>2. pc # "destroyed" /\ pc' # "ended" /\ easy' = easy BY <1>5 DEF SpareTimer, multiVars
  <2> QED BY <2>1, <2>2, QuietStep
<1> QED BY <1>2, <1>3, <1>4, <1>5 DEF LibcurlStep

LEMMA StutterKeeps ==
    ASSUME DownloadInv, UNCHANGED vars
    PROVE  DownloadInv'
<1>1. UNCHANGED <<pc, cur, todo, ready, due, timers, easy, sock, socketp, object, held, channel,
                  chan, functors, running, prev>>
  BY DEF vars, curlVars, loopVars, multiVars, requestVars, countVars
<1>2. UNCHANGED <<headerVars, concurrent, quit, fileVars>> BY DEF vars
<1>3. CurlInv /\ EndInv BY DEF DownloadInv
<1>4. CurlTypeOK' /\ OwnerInv' /\ HandlerInv'
  BY <1>1, <1>3 DEF CurlInv, CurlTypeOK, OwnerInv, HandlerInv
<1>5. SocketInv' /\ ChannelInv' BY <1>1, <1>3, ReadyKept, ChannelsKept
<1>6. CurlInv' BY <1>4, <1>5 DEF CurlInv
<1>7. CASE pc # "destroyed"
  <2>1. pc' = "ended" => quit BY <1>1, <1>3 DEF EndInv
  <2> QED BY <1>1, <1>2, <1>6, <1>7, <2>1, QuietStep
<1>8. CASE pc = "destroyed"
  <2>1. TypeOK' BY <1>2, <1>6 DEF DownloadInv, TypeOK, CurlInv, headerVars, fileVars
  <2> QED BY <1>1, <1>6, <1>8, <2>1 DEF DownloadInv, StageInv, EndInv, FileInv
<1> QED BY <1>7, <1>8

LEMMA Initially == Init => DownloadInv
<1> SUFFICES ASSUME Init PROVE DownloadInv OBVIOUS
<1>1. /\ CurlInit({header}) /\ found = FALSE /\ acceptRanges = FALSE /\ length = 0
      /\ concurrent = 0 /\ quit = FALSE /\ file = [r \in Requests |-> {}] /\ failed = {}
  BY DEF Init
<1>2. CurlInv BY <1>1, CurlInitially, RequestFacts
<1>3. easy = [r \in Requests |-> IF r = header THEN "init" ELSE "none"] /\ pc = "dispatch"
  BY <1>1 DEF CurlInit, AddHandles
<1>4. HeaderStage BY <1>1, <1>3, RequestFacts DEF HeaderStage, Busy
<1>5. TypeOK
  <2>1. concurrent \in 0..kConcurrent BY <1>1, DownloadAssumption
  <2> QED BY <1>1, <1>2, <2>1 DEF TypeOK, CurlInv
<1>6. EndInv BY <1>3 DEF EndInv
<1>7. FileInv BY <1>1, <1>3 DEF FileInv
<1> QED BY <1>2, <1>4, <1>5, <1>6, <1>7 DEF DownloadInv, StageInv

LEMMA NextKeeps == DownloadInv /\ [Next]_vars => DownloadInv'
<1> SUFFICES ASSUME DownloadInv, [Next]_vars PROVE DownloadInv' OBVIOUS
<1>1. CASE \E r \in Requests : TransferEnds(r) BY <1>1, TransferEndsStep
<1>2. CASE LibcurlStep /\ UNCHANGED <<headerVars, concurrent, quit, fileVars>>
  BY <1>2, LibcurlStepKeeps
<1>3. CASE OnHeaderDone BY <1>3, OnHeaderDoneStep
<1>4. CASE \E r \in Requests \ {header} : OnDownloadDone(r) BY <1>4, OnDownloadDoneStep
<1>5. CASE (LoopStep \/ Prepare(quit)) /\ UNCHANGED <<headerVars, concurrent, quit, fileVars>>
  BY <1>5, LoopStepKeeps
<1>6. CASE UNCHANGED vars BY <1>6, StutterKeeps
<1> QED BY <1>1, <1>2, <1>3, <1>4, <1>5, <1>6 DEF Next, DownloadStep

(* The stages of a download and what Curl's channels, sockets and requests *)
(* have to do with each other hold in every reachable state.               *)
THEOREM DownloadInvariant == Spec => []DownloadInv
  BY Initially, NextKeeps, PTL DEF Spec

-----------------------------------------------------------------------------
(* Every variable of Curl and of the Downloader keeps its type; in         *)
(* particular concurrent_ never becomes negative, and due timers are       *)
(* pending ones.                                                           *)
THEOREM TypeCorrect == Spec => []TypeOK
<1>1. DownloadInv => TypeOK BY DEF DownloadInv
<1> QED BY <1>1, DownloadInvariant, PTL

(* The channel whose handler is on the stack exists, a watched channel     *)
(* exists and its request does, and so does every request libcurl has a    *)
(* pointer to: removeChannel() parks the channel in a functor, and         *)
(* handleEvent() holds the request.                                        *)
THEOREM ChannelOutlives == Spec => []ChannelOutlivesHandler
<1>1. DownloadInv => ChannelOutlivesHandler
  <2> SUFFICES ASSUME DownloadInv PROVE ChannelOutlivesHandler OBVIOUS
  <2>1. CurlTypeOK /\ OwnerInv /\ SocketInv /\ ChannelInv /\ HandlerInv
    BY DEF DownloadInv, CurlInv
  <2>2. \A c \in Channels : chan[c].state \in {"free", "active", "stopped"}
    BY <2>1 DEF CurlTypeOK
  <2>3. ASSUME NEW c \in Channels, chan[c].state # "free" PROVE Exists(c)
    BY <2>1, <2>2, <2>3 DEF Exists, ChannelInv
  <2>4. cur # NULL => Exists(cur)
    <3>1. cur \in Channels \cup {NULL} BY <2>1 DEF CurlTypeOK
    <3> QED BY <2>1, <2>3, <3>1 DEF HandlerInv
  <2>5. \A r \in Requests : easy[r] \in Busy => r \in object
    BY <2>1 DEF OwnerInv, CurlTypeOK
  <2>6. ASSUME NEW c \in Channels, chan[c].state = "active" PROVE chan[c].req \in object
    <3>1. chan[c].req \in Requests /\ channel[chan[c].req] = c BY <2>1, <2>6 DEF ChannelInv
    <3>2. easy[chan[c].req] = "live" BY <2>1, <3>1, NullFacts DEF SocketInv
    <3> QED BY <2>5, <3>1, <3>2 DEF Busy
  <2> QED BY <2>3, <2>4, <2>5, <2>6 DEF ChannelOutlivesHandler, Busy
<1> QED BY <1>1, DownloadInvariant, PTL

(* The assertions of setChannel(), socketCallback() and ~Request() hold.   *)
THEOREM AssertionsHold == Spec => []Assertions
<1>1. DownloadInv => Assertions
  <2> SUFFICES ASSUME DownloadInv PROVE Assertions OBVIOUS
  <2>1. CurlTypeOK /\ OwnerInv /\ SocketInv /\ StageInv /\ EndInv
    BY DEF DownloadInv, CurlInv
  <2>2. ChannelMatchesSocket BY <2>1 DEF SocketInv, ChannelMatchesSocket
  <2>3. \A r \in Requests : channel[r] # NULL => easy[r] = "live" BY <2>1 DEF SocketInv
  <2>4. \A r \in Requests : r \notin held => channel[r] = NULL
    BY <2>1, <2>3 DEF OwnerInv, Busy
  <2>5. ASSUME pc = "ended", NEW r \in Requests, easy[r] = "live" PROVE Abandoned
    <3>1. quit BY <2>1, <2>5 DEF EndInv
    <3>2. PiecesStage \/ SingleStage \/ NothingStage
      BY <2>1, <2>5, <3>1 DEF StageInv, HeaderStage
    <3>3. r # header BY <2>5, <3>2 DEF PiecesStage, SingleStage, NothingStage, Over
    <3>4. CASE PiecesStage
      <4>1. r \in Pending
        BY <2>5, <3>3, <3>4, RequestFacts DEF PiecesStage, Pending, Busy
      <4>2. concurrent # 0 /\ concurrent \in 0..kConcurrent
        BY <3>4, <4>1, PendingCounted DEF PiecesStage
      <4>3. kConcurrent \in Nat BY DownloadAssumption
      <4> QED BY <3>1, <4>2, <4>3 DEF Abandoned
    <3>5. CASE SingleStage
      <4>1. r = single BY <2>5, <3>3, <3>5, RequestFacts DEF SingleStage
      <4>2. concurrent = 1 BY <2>5, <3>5, <4>1 DEF SingleStage, Busy
      <4> QED BY <3>1, <4>2 DEF Abandoned
    <3>6. CASE NothingStage BY <2>5, <3>3, <3>6 DEF NothingStage
    <3> QED BY <3>2, <3>4, <3>5, <3>6
  <2> QED BY <2>2, <2>3, <2>4, <2>5 DEF Assertions
<1> QED BY <1>1, DownloadInvariant, PTL

(* The ranges of the pieces cover a file of any length, byte by byte once. *)
LEMMA PiecesPartition ==
    ASSUME NEW len \in Nat
    PROVE  /\ \A i \in Pieces : PieceRange(i, len) \subseteq 0..(len - 1)
           /\ \A x \in 0..(len - 1) : \E i \in Pieces : x \in PieceRange(i, len)
           /\ \A i, j \in Pieces : i # j => PieceRange(i, len) \cap PieceRange(j, len) = {}
<1> DEFINE k == kConcurrent
           p == len \div k
           at(i) == i * p
<1>1. k \in Nat \ {0} BY DownloadAssumption
<1>2. p \in Nat /\ p * k <= len BY <1>1
<1>3. Pieces = 0..(k - 1) BY DEF Pieces
<1>4. \A i \in Pieces : PieceRange(i, len) = IF i < k - 1 THEN at(i)..(at(i + 1) - 1)
                                                         ELSE at(i)..(len - 1)
  BY DEF PieceRange
<1> HIDE DEF k, p
<1>5. \A i, j \in Nat : i < j => at(i + 1) <= at(j) BY <1>2
<1>6. \A i \in Nat : at(i) \in Nat /\ at(i) <= at(i + 1) BY <1>2
<1>7. at(k) <= len BY <1>1, <1>2
<1>8. ASSUME NEW x \in Nat, x < at(k - 1) PROVE \E i \in Nat : at(i) <= x /\ x < at(i + 1)
  <2>1. p # 0 BY <1>1, <1>2, <1>8
  <2>2. x \div p \in Nat /\ (x \div p) * p <= x /\ x < (x \div p + 1) * p BY <1>2, <2>1
  <2> QED BY <2>2
<1> HIDE DEF at
<1>9. ASSUME NEW i \in Pieces PROVE PieceRange(i, len) \subseteq 0..(len - 1)
  <2>0. i \in Nat /\ i + 1 \in Nat /\ k \in Nat /\ i <= k - 1 BY <1>1, <1>3
  <2>1. i \in Nat /\ i <= k - 1 /\ at(i) \in Nat /\ at(i + 1) \in Nat /\ at(k) \in Nat
    BY <1>6, <2>0
  <2>2. CASE i < k - 1
    <3>1. at(i + 1) <= at(k) BY <1>1, <1>5, <2>1, <2>2
    <3>2. PieceRange(i, len) = at(i)..(at(i + 1) - 1) BY <1>4, <2>2
    <3> QED BY <1>7, <2>1, <3>1, <3>2
  <2>3. CASE ~(i < k - 1)
    <3>1. PieceRange(i, len) = at(i)..(len - 1) BY <1>4, <2>3
    <3> QED BY <2>1, <3>1
  <2> QED BY <2>2, <2>3
<1>10. ASSUME NEW x \in 0..(len - 1) PROVE \E i \in Pieces : x \in PieceRange(i, len)
  <2>1. k - 1 \in Nat /\ k - 1 \in Pieces /\ at(k - 1) \in Nat BY <1>1, <1>3, <1>6
  <2>2. CASE x >= at(k - 1)
    <3>1. PieceRange(k - 1, len) = at(k - 1)..(len - 1) BY <1>1, <1>4, <2>1
    <3> QED BY <2>1, <2>2, <3>1
  <2>3. CASE x < at(k - 1)
    <3>1. PICK i \in Nat : at(i) <= x /\ x < at(i + 1) BY <1>8, <2>3
    <3>2. at(i) \in Nat /\ at(i + 1) \in Nat /\ at(k - 1) <= at(k) BY <1>1, <1>6, <2>1
    <3>3. i < k - 1
      <4>1. SUFFICES ASSUME k - 1 <= i PROVE FALSE BY <1>1
      <4>2. CASE i = k - 1 BY <2>1, <2>3, <3>1, <3>2, <4>2
      <4>3. CASE k - 1 < i
        <5>1. at(k) <= at(i)
          <6>1. at((k - 1) + 1) <= at(i) BY <1>5, <2>1, <4>3
          <6>2. (k - 1) + 1 = k BY <1>1
          <6> QED BY <6>1, <6>2
        <5>2. at(k) \in Nat BY <1>1, <1>6
        <5> QED BY <2>1, <2>3, <3>1, <3>2, <5>1, <5>2
      <4> QED BY <2>1, <4>1, <4>2, <4>3
    <3>4. i \in Pieces BY <1>1, <1>3, <3>3
    <3>5. PieceRange(i, len) = at(i)..(at(i + 1) - 1) BY <1>4, <3>3, <3>4
    <3> QED BY <3>1, <3>2, <3>4, <3>5
  <2> QED BY <2>1, <2>2, <2>3
<1>11. ASSUME NEW i \in Pieces, NEW j \in Pieces, i < j
       PROVE  PieceRange(i, len) \cap PieceRange(j, len) = {}
  <2>1. i \in Nat /\ j \in Nat /\ i < k - 1 BY <1>1, <1>3, <1>11
  <2>2. /\ at(i + 1) <= at(j) /\ at(i) \in Nat /\ at(i + 1) \in Nat
        /\ at(j) \in Nat /\ at(j + 1) \in Nat
    BY <1>5, <1>6, <1>11, <2>1
  <2>3. \A x \in PieceRange(i, len) : x \in Int /\ x < at(i + 1) BY <1>4, <2>1, <2>2
  <2>4. \A x \in PieceRange(j, len) : x \in Int /\ at(j) <= x
    <3>1. CASE j < k - 1 BY <1>4, <2>2, <3>1
    <3>2. CASE ~(j < k - 1) BY <1>4, <2>2, <3>2
    <3> QED BY <3>1, <3>2
  <2> QED BY <2>2, <2>3, <2>4
<1>12. \A i, j \in Pieces : i # j => i < j \/ j < i BY <1>1, <1>3
<1> QED BY <1>9, <1>10, <1>11, <1>12

(* When the loop ends, and no transfer failed and every file was opened,   *)
(* the files hold every byte of the download exactly once, for any number  *)
(* of pieces and any length.                                               *)
THEOREM WholeFile == Spec => []FileWhole
<1>1. DownloadInv => FileWhole
  <2> SUFFICES ASSUME DownloadInv, pc = "ended", failed = {}, ~Abandoned,
                      \E r \in Requests \ {header} : easy[r] # "none"
               PROVE  /\ UNION {file[r] : r \in Requests} = 0..(length - 1)
                      /\ \A q, r \in Requests : q # r => file[q] \cap file[r] = {}
    BY DEF FileWhole
  <2>1. TypeOK /\ StageInv /\ EndInv /\ FileInv BY DEF DownloadInv
  <2>2. quit /\ concurrent = 0
    <3>1. quit BY <2>1 DEF EndInv
    <3>2. concurrent \in 0..kConcurrent /\ kConcurrent \in Nat BY <2>1, DownloadAssumption DEF TypeOK
    <3> QED BY <3>1, <3>2 DEF Abandoned
  <2>3. PiecesStage \/ SingleStage BY <2>1, <2>2 DEF StageInv, HeaderStage, NothingStage
  <2>4. \A r \in Requests : /\ easy[r] = "none" => file[r] = {}
                            /\ easy[r] \in Over => file[r] = Wanted(r)
    BY <2>1 DEF FileInv, Over
  <2>5. file[header] = {}
    BY <2>3, <2>4, RequestFacts DEF PiecesStage, SingleStage, Wanted
  <2>6. \A r \in Requests : easy[r] \in Busy \cup Over \cup {"none"}
    BY <2>1 DEF TypeOK, CurlTypeOK, Busy, Over
  <2>7. length \in Nat BY <2>1, DownloadAssumption DEF TypeOK
  <2>8. CASE PiecesStage
    <3>1. Pending = {} BY <2>2, <2>8, PendingCounted DEF PiecesStage
    <3>2. \A i \in Pieces : easy[i] \in Over BY <2>6, <3>1, RequestFacts DEF Pending
    <3>3. \A i \in Pieces : file[i] = PieceRange(i, length)
      BY <2>4, <3>2, RequestFacts DEF Wanted
    <3>4. file[single] = {} BY <2>4, <2>8, RequestFacts DEF PiecesStage
    <3>5. UNION {file[r] : r \in Requests} \subseteq 0..(length - 1)
      BY <2>5, <2>7, <3>3, <3>4, RequestFacts, PiecesPartition
    <3>6. 0..(length - 1) \subseteq UNION {file[r] : r \in Requests}
      <4> SUFFICES ASSUME NEW x \in 0..(length - 1) PROVE \E r \in Requests : x \in file[r]
        OBVIOUS
      <4>1. PICK i \in Pieces : x \in PieceRange(i, length) BY <2>7, PiecesPartition
      <4> QED BY <3>3, <4>1, RequestFacts
    <3>7. \A q, r \in Requests : q # r => file[q] \cap file[r] = {}
      <4> SUFFICES ASSUME NEW q \in Requests, NEW r \in Requests, q # r
                   PROVE  file[q] \cap file[r] = {}
        OBVIOUS
      <4>1. CASE q \in Pieces /\ r \in Pieces BY <2>7, <3>3, <4>1, PiecesPartition
      <4>2. CASE q \notin Pieces \/ r \notin Pieces BY <2>5, <3>4, <4>2, RequestFacts
      <4> QED BY <4>1, <4>2
    <3> QED BY <3>5, <3>6, <3>7
  <2>9. CASE SingleStage
    <3>1. easy[single] \in Over BY <2>2, <2>6, <2>9, RequestFacts DEF SingleStage
    <3>2. file[single] = 0..(length - 1) BY <2>4, <3>1, RequestFacts DEF Wanted
    <3>3. \A i \in Pieces : file[i] = {} BY <2>4, <2>9, RequestFacts DEF SingleStage
    <3>4. \A r \in Requests : r # single => file[r] = {} BY <2>5, <3>3, RequestFacts
    <3>5. UNION {file[r] : r \in Requests} = 0..(length - 1)
      BY <3>2, <3>4, RequestFacts
    <3>6. \A q, r \in Requests : q # r => file[q] \cap file[r] = {} BY <3>4
    <3> QED BY <3>5, <3>6
  <2> QED BY <2>3, <2>8, <2>9
<1> QED BY <1>1, DownloadInvariant, PTL
=============================================================================
