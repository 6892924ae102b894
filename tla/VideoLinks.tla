----------------------------- MODULE VideoLinks ------------------------------
(***************************************************************************)
(* How a remote client keeps the live view of both camera roles: three     *)
(* sockets to the node (events, video, WebRTC signaling), a 3 s timer that *)
(* opens the ones that are closed, and one WebRTC peer with a data channel *)
(* for each role.  The video socket is the fallback: it is closed while    *)
(* both channels are open.  The channels' callbacks run on threads of the  *)
(* WebRTC library and set atomic flags that the main thread clears.        *)
(*                                                                         *)
(* A channel is the number of the peer it belongs to.                      *)
(***************************************************************************)
EXTENDS Naturals, FiniteSets

CONSTANTS MaxPeers,    \* bound: peers made
          MaxDrops     \* bound: sockets and channels that fail

VARIABLES
    watching,     \* openEventStream() was called
    sock,       \* state of ws_, videoWs_ and webrtcWs_
    offered,    \* the node offers WebRTC (webrtcAdvertised_)
    retry,      \* wsReconnect_ is active
    rtcPeer, peers,  \* webrtcPc_; peers made so far
    slot,       \* webrtcMainDc_, webrtcGuideDc_
    rtcFlag,    \* webrtcMainOpen_, webrtcGuideOpen_
    channel,    \* the library's view: the channels of the peer
    callbacks,  \* callbacks between their test and what they do next
    updates,    \* updateVideoFallback() calls queued for the main thread
    stopping,   \* the main thread is within stopWebRtcPeer()
    overtaken,  \* history: a channel's flag was set after its peer was stopped
    linkDrops

linkVars == <<watching, sock, offered, retry, rtcPeer, peers, slot, rtcFlag, channel,
              callbacks, updates, stopping, overtaken, linkDrops>>

Roles == {"main", "guide"}
Sockets == {"events", "video", "signal"}

LinksInit ==
    /\ watching = FALSE /\ sock = [s \in Sockets |-> "off"] /\ offered = FALSE /\ retry = FALSE
    /\ rtcPeer = 0 /\ peers = 0 /\ slot = [r \in Roles |-> 0] /\ rtcFlag = [r \in Roles |-> FALSE]
    /\ channel = [r \in Roles |-> "none"] /\ callbacks = {} /\ updates = 0
    /\ stopping = FALSE /\ overtaken = {} /\ linkDrops = 0

Library == UNCHANGED <<channel, callbacks>>
Peer == UNCHANGED <<rtcPeer, peers, slot, rtcFlag, stopping, overtaken>> /\ Library
Main == ~stopping

-----------------------------------------------------------------------------
(* The sockets *)

\* mutant: one open channel is taken for both
AnyRtc == \E r \in Roles : rtcFlag[r]

FullRtc == \A r \in Roles : rtcFlag[r]

\* updateVideoFallback(): closed while both channels are open, and opened again.
Fallback(state, full) ==
    IF full THEN IF state = "off" THEN "off" ELSE "closing"
    ELSE IF state = "off" THEN "connecting" ELSE state

\* openEventStream()
OpenStreams ==
    /\ ~watching /\ watching' = TRUE /\ offered' \in BOOLEAN
    /\ sock' = [s \in Sockets |-> IF s = "signal" /\ ~offered' THEN "off" ELSE "connecting"]
    /\ UNCHANGED <<retry, updates, linkDrops>> /\ Peer

\* The node accepts /events or /video (OalWsServer::newConnection).
Connected(s) ==
    /\ Main /\ sock[s] = "connecting" /\ sock' = [sock EXCEPT ![s] = "on"]
    /\ UNCHANGED <<watching, offered, retry, updates, linkDrops>> /\ Peer

\* ensureWebRtcPeer(): the library may refuse a peer.
EnsurePeer ==
    \/ rtcPeer = 0 /\ peers < MaxPeers /\ rtcPeer' = peers + 1 /\ peers' = peers + 1
    \/ UNCHANGED <<rtcPeer, peers>>

\* The node made its peer and offers both channels on /webrtc.
SignalConnected ==
    /\ Main /\ sock["signal"] = "connecting" /\ sock' = [sock EXCEPT !["signal"] = "on"]
    /\ EnsurePeer
    /\ UNCHANGED <<watching, offered, retry, slot, rtcFlag, stopping, overtaken, updates,
                   linkDrops>> /\ Library

\* onWebRtcSignal(): a peer that was refused is asked for again.
Signal ==
    /\ Main /\ sock["signal"] = "on" /\ rtcPeer = 0 /\ EnsurePeer
    /\ UNCHANGED <<watching, sock, offered, retry, slot, rtcFlag, stopping, overtaken, updates,
                   linkDrops>> /\ Library

Fails(s) == \/ /\ sock[s] \in {"connecting", "on"}
               /\ linkDrops < MaxDrops /\ linkDrops' = linkDrops + 1
            \/ sock[s] = "closing" /\ linkDrops' = linkDrops

\* A connection is refused, lost or closed; the video socket is not opened again
\* while both channels are open.
Disconnected(s) ==
    /\ Main /\ Fails(s) /\ sock' = [sock EXCEPT ![s] = "off"]
    /\ retry' = (retry \/ s = "events" \/ ~FullRtc)
    /\ UNCHANGED <<watching, offered, updates>> /\ Peer

\* The signaling socket is lost: stopWebRtcPeer() clears the flags,
SignalLost ==
    /\ Main /\ Fails("signal") /\ sock' = [sock EXCEPT !["signal"] = "off"]
    /\ stopping' = TRUE /\ rtcFlag' = [r \in Roles |-> FALSE] /\ overtaken' = {}
    /\ UNCHANGED <<watching, offered, retry, rtcPeer, peers, slot, updates>> /\ Library

\* and then deletes the channels and the peer; callbacks that began go on.
StopPeer ==
    /\ stopping /\ stopping' = FALSE
    /\ rtcPeer' = 0 /\ slot' = [r \in Roles |-> 0] /\ channel' = [r \in Roles |-> "none"]
    /\ sock' = [sock EXCEPT !["video"] = Fallback(@, FullRtc)] /\ retry' = TRUE
    /\ UNCHANGED <<watching, offered, peers, rtcFlag, callbacks, updates, overtaken, linkDrops>>

\* updateVideoFallback(), when its queued call runs
UpdateFallback ==
    /\ Main /\ updates > 0 /\ updates' = updates - 1
    /\ sock' = [sock EXCEPT !["video"] = Fallback(@, FullRtc)]
    /\ UNCHANGED <<watching, offered, retry, linkDrops>> /\ Peer

\* The timer opens what is closed and stops when there is nothing to open.
Retry ==
    /\ Main /\ retry
    /\ LET closed == {s \in Sockets : /\ sock[s] = "off"
                                      /\ s = "signal" => offered
                                      /\ s = "video" => ~FullRtc}
       IN /\ sock' = [s \in Sockets |-> IF s \in closed THEN "connecting" ELSE sock[s]]
          /\ retry' = ~(closed = {} /\ sock["events"] = "on")
    /\ UNCHANGED <<watching, offered, updates, linkDrops>> /\ Peer

-----------------------------------------------------------------------------
(* The WebRTC library's threads.  Callbacks of one channel do not overlap. *)

Begin(r, kind, hit) ==
    /\ \A c \in callbacks : c.role # r \/ c.peer # rtcPeer
    /\ callbacks' = callbacks \cup {[role |-> r, peer |-> rtcPeer, kind |-> kind, hit |-> hit]}

Threads == UNCHANGED <<watching, sock, offered, retry, rtcPeer, peers, stopping>>

\* rtcDataChannelCallback(): the channel is closed while the peer is stopped.
ChannelCallback(r) ==
    /\ rtcPeer # 0 /\ channel[r] = "none"
    /\ channel' = [channel EXCEPT ![r] = "negotiated"]
    /\ Begin(r, "channel", ~stopping)
    /\ Threads /\ UNCHANGED <<slot, rtcFlag, updates, overtaken, linkDrops>>

\* rtcDataOpenCallback() finds its channel in the slot, or returns.
OpenCallback(r) ==
    /\ channel[r] = "negotiated" /\ channel' = [channel EXCEPT ![r] = "open"]
    /\ slot[r] = rtcPeer /\ Begin(r, "open", TRUE)
    /\ Threads /\ UNCHANGED <<slot, rtcFlag, updates, overtaken, linkDrops>>

\* rtcDataClosedCallback(), of a channel that the network lost
ClosedCallback(r) ==
    /\ channel[r] = "open" /\ linkDrops < MaxDrops /\ linkDrops' = linkDrops + 1
    /\ channel' = [channel EXCEPT ![r] = "closed"] /\ Begin(r, "closed", slot[r] = rtcPeer)
    /\ Threads /\ UNCHANGED <<slot, rtcFlag, updates, overtaken>>

\* rtcDataErrorCallback()
ErrorCallback(r) ==
    /\ channel[r] = "open" /\ linkDrops < MaxDrops /\ linkDrops' = linkDrops + 1
    /\ updates' = updates + 1 /\ Library
    /\ Threads /\ UNCHANGED <<slot, rtcFlag, overtaken>>

\* What the callbacks do after their test, whatever the main thread did meanwhile.
TakeSlot(c) ==
    /\ c.kind = "channel"
    /\ slot' = [slot EXCEPT ![c.role] = IF c.hit /\ @ = 0 THEN c.peer ELSE @]
    /\ channel' = IF c.peer = rtcPeer /\ slot'[c.role] # rtcPeer
                  THEN [channel EXCEPT ![c.role] = "closed"] ELSE channel
    /\ UNCHANGED <<rtcFlag, updates, overtaken>>

SetFlag(c) ==
    /\ c.kind = "open" /\ rtcFlag' = [rtcFlag EXCEPT ![c.role] = TRUE] /\ updates' = updates + 1
    /\ overtaken' = IF stopping \/ c.peer # rtcPeer
                    THEN overtaken \cup {c.role}
                    ELSE overtaken \ {c.role}
    /\ UNCHANGED <<slot, channel>>

ClearFlag(c) ==
    /\ c.kind = "closed" /\ updates' = updates + 1
    /\ rtcFlag' = IF c.hit THEN [rtcFlag EXCEPT ![c.role] = FALSE] ELSE rtcFlag
    /\ UNCHANGED <<slot, channel, overtaken>>

Callback ==
    /\ \E c \in callbacks :
         callbacks' = callbacks \ {c} /\ (TakeSlot(c) \/ SetFlag(c) \/ ClearFlag(c))
    /\ Threads /\ UNCHANGED linkDrops

LinksNext ==
    \/ OpenStreams \/ SignalConnected \/ Signal \/ SignalLost \/ StopPeer
    \/ UpdateFallback \/ Retry \/ Callback
    \/ \E s \in {"events", "video"} : Connected(s) \/ Disconnected(s)
    \/ \E r \in Roles : \/ ChannelCallback(r) \/ OpenCallback(r)
                        \/ ClosedCallback(r) \/ ErrorCallback(r)

-----------------------------------------------------------------------------
(* Properties *)

\* Nothing is under way.
Settled == /\ ~retry /\ updates = 0 /\ ~stopping /\ callbacks = {}
           /\ \A s \in Sockets : sock[s] \in {"off", "on"}

\* Frames of a role that come over the video socket are dropped while its flag
\* is set (consumeVideoPacket).
Arrives(r) == IF rtcFlag[r] THEN channel[r] = "open" ELSE sock["video"] = "on"

\* Once nothing is under way, the client that opened its streams has the events,
\* the signaling if the node offers it, and a way for the frames of each role,
\* whichever sockets and channels failed and in which order, except a role whose
\* channel opened while its peer was being stopped: its flag stays set, and the
\* frames of the fallback are dropped (RemoteObservatoryController: constructor,
\* updateVideoFallback, stopWebRtcPeer, the rtc callbacks).
LinksHold ==
    Settled /\ watching =>
        /\ sock["events"] = "on" /\ (offered => sock["signal"] = "on")
        /\ \A r \in Roles : Arrives(r) \/ r \in overtaken
=============================================================================
