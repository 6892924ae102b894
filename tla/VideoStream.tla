----------------------------- MODULE VideoStream -----------------------------
(***************************************************************************)
(* The video of one camera role, from the node to a client over a WebRTC   *)
(* data channel.  The node keeps only the latest frame: OalWsServer        *)
(* schedules one flush at a time, which encodes a frame on the global pool *)
(* and sends it on the main thread in fragments.  The channel loses and    *)
(* reorders fragments; the client puts them together again.                *)
(*                                                                         *)
(* A frame is its number; its sequence number and length are what the      *)
(* client tells frames apart by.  The sequence numbers begin again when    *)
(* the server is started again; `start`, the frames offered before, tells  *)
(* the starts apart (the program has nothing of the kind).                 *)
(***************************************************************************)
EXTENDS Naturals, Sequences, FiniteSets

CONSTANTS Fragments,   \* of every frame
          Lengths,     \* of packets
          MaxOffers,   \* bound: frames
          MaxStops     \* bound: times the server is stopped

VARIABLES
    latest,     \* pendingVideo_ of the role
    flushes,    \* calls queued for the main thread
    encoding,   \* frames being encoded on the pool
    sent,       \* history: the newest frame that was sent
    linked,     \* the data channel is open
    flying,     \* fragments on the channel
    posted,     \* fragments queued for the client's main thread
    assembly,   \* webrtcMainAssembly_, with the frames its fragments are of
    displayed,       \* history: what the client last showed
    leftover,        \* history: a fragment met one of another start with its number and length
    offers, stops

videoVars == <<latest, flushes, encoding, sent, linked, flying, posted, assembly, displayed, leftover, offers, stops>>

NoVideo == [frame |-> 0, seq |-> 0, len |-> 0, start |-> 0, scheduled |-> FALSE]
NoAssembly == [seq |-> 0, len |-> 0, start |-> 0, got |-> {}]

VideoInit ==
    /\ latest = NoVideo /\ flushes = <<>> /\ encoding = {} /\ sent = 0
    /\ linked = FALSE /\ flying = {} /\ posted = <<>> /\ assembly = NoAssembly /\ displayed = {} /\ leftover = FALSE
    /\ offers = 0 /\ stops = 0

Node == UNCHANGED <<posted, assembly, displayed, leftover>>
Client == UNCHANGED <<latest, flushes, encoding, sent, linked, offers, stops>>

-----------------------------------------------------------------------------
(* The node *)

Flush == [do |-> "flush", video |-> NoVideo]
Send(video) == [do |-> "send", video |-> video]

\* The channel opens, and the client's peer is new.
Open ==
    /\ ~linked /\ stops < MaxStops /\ linked' = TRUE
    /\ UNCHANGED <<latest, flushes, encoding, sent, flying, posted, assembly, displayed, leftover, offers, stops>>

\* offerVideoFrame(): a frame that waits is replaced.
Offer ==
    /\ linked /\ offers < MaxOffers /\ offers' = offers + 1
    /\ \E len \in Lengths :
         latest' = [frame |-> offers + 1, seq |-> latest.seq + 1, len |-> len,
                    start |-> IF latest = NoVideo THEN offers ELSE latest.start, scheduled |-> TRUE]
    /\ flushes' = IF latest.scheduled THEN flushes ELSE Append(flushes, Flush)
    /\ UNCHANGED <<encoding, sent, linked, flying, stops>> /\ Node

FlushVideo ==
    /\ flushes # <<>> /\ Head(flushes).do = "flush" /\ flushes' = Tail(flushes)
    /\ encoding' = IF latest = NoVideo THEN encoding ELSE encoding \cup {[latest EXCEPT !.scheduled = FALSE]}
    /\ UNCHANGED <<latest, sent, linked, flying, offers, stops>> /\ Node

Encode ==
    /\ \E video \in encoding : encoding' = encoding \ {video} /\ flushes' = Append(flushes, Send(video))
    /\ UNCHANGED <<latest, sent, linked, flying, offers, stops>> /\ Node

Pieces(video) == [frame : {video.frame}, seq : {video.seq}, len : {video.len}, start : {video.start}, i : 1..Fragments]

\* The next flush, if there is a newer frame.
Flushed(video) ==
    IF latest.seq = video.seq
    THEN latest' = [latest EXCEPT !.scheduled = FALSE] /\ flushes' = Tail(flushes)
    ELSE latest' = latest /\ flushes' = Append(Tail(flushes), Flush)

\* sendEncodedVideo(): a channel that is full, or refuses a fragment, gets no more.
SendEncoded ==
    /\ flushes # <<>> /\ Head(flushes).do = "send"
    /\ LET video == Head(flushes).video IN
       /\ sent' = IF video.frame > sent THEN video.frame ELSE sent
       /\ flying' \in {flying} \cup IF linked THEN {flying \cup Pieces(video)} ELSE {}
       /\ IF latest = NoVideo THEN UNCHANGED latest /\ flushes' = Tail(flushes) ELSE Flushed(video)
    /\ UNCHANGED <<encoding, linked, offers, stops>> /\ Node

\* stop(): what is queued or being encoded goes on.
StopServer ==
    /\ linked /\ stops' = stops + 1 /\ linked' = FALSE /\ latest' = NoVideo /\ flying' = {}
    /\ UNCHANGED <<flushes, encoding, sent, offers>>
    \* the client sees the signaling end: stopWebRtcPeer()
    /\ assembly' = NoAssembly /\ UNCHANGED <<posted, displayed, leftover>>

-----------------------------------------------------------------------------
(* The channel and the client *)

Lose == /\ \E piece \in flying : flying' = flying \ {piece}
        /\ Client /\ UNCHANGED <<posted, assembly, displayed, leftover>>

Receive ==
    /\ \E piece \in flying : flying' = flying \ {piece} /\ posted' = Append(posted, piece)
    /\ Client /\ UNCHANGED <<assembly, displayed, leftover>>

\* mutant: a frame is told by its number alone
SameNumber(piece) == assembly.seq = piece.seq

\* Whether a fragment belongs to the frame that is being put together.
SameFrame(piece) == assembly.seq = piece.seq /\ assembly.len = piece.len

\* The fragment of another start that nothing in it tells from those of this frame.
Alike(piece) == <<assembly.seq, assembly.len>> = <<piece.seq, piece.len>> /\ assembly.start # piece.start

\* handleWebRtcFragment()
Handle ==
    /\ posted # <<>> /\ posted' = Tail(posted)
    /\ leftover' = (leftover \/ (assembly.got # {} /\ Alike(Head(posted))))
    /\ LET piece == Head(posted)
           begun == assembly.got # {}
           base == IF begun /\ SameFrame(piece) THEN assembly
                   ELSE [seq |-> piece.seq, len |-> piece.len, start |-> piece.start, got |-> {}]
           next == [base EXCEPT !.got = IF \E g \in @ : g[2] = piece.i THEN @ ELSE @ \cup {<<piece.frame, piece.i>>}]
       IN IF begun /\ piece.seq < assembly.seq THEN UNCHANGED <<assembly, displayed>>
          ELSE IF Cardinality(next.got) = Fragments
               THEN assembly' = NoAssembly /\ displayed' = {g[1] : g \in next.got}
               ELSE assembly' = next /\ UNCHANGED displayed
    /\ Client /\ UNCHANGED flying

VideoNext == \/ Open \/ Offer \/ FlushVideo \/ Encode \/ SendEncoded \/ StopServer
             \/ Lose \/ Receive \/ Handle

-----------------------------------------------------------------------------
(* Properties *)

\* The latest frame was sent, or it is on its way: a flush of the role is
\* queued or a frame is being encoded, whatever was offered meanwhile and
\* whatever was left over when the server was stopped and started again
\* (OalWsServer::offerVideoFrame, flushVideo, sendEncodedVideo, stop).
FrameGoesOut == latest.frame # sent /\ latest # NoVideo => flushes # <<>> \/ encoding # {}

\* What the client shows is one frame, whichever fragments were lost, late or
\* out of order, and whatever was left over when the server was stopped and started
\* again: a fragment queued at the client, or a frame that was being encoded.  Two
\* frames are taken for one only when a fragment left over met one of a later start
\* with the same number and the same length: nothing in it tells them apart
\* (RemoteObservatoryController::handleWebRtcFragment).
ShownIsWhole == ~leftover => Cardinality(displayed) <= 1

\* The newest frame goes out, and what arrives of it is shown whole or not at all
\* (OalWsServer, RemoteObservatoryController).
StreamHolds == FrameGoesOut /\ ShownIsWhole
=============================================================================
