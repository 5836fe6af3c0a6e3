---------------------------- MODULE ImageRequest ----------------------------
(***************************************************************************)
(* One image request, from the reservation of its coins to the last chunk  *)
(* the client gets: the routes of api/ai.py, LoggedCall.run and the stream *)
(* wrapper of services/log_service.py, the generator of image outputs in   *)
(* services/protocol/conversation.py and the gallery rows saved on the way.*)
(*                                                                         *)
(* The handler, the first next() and every next() of the response body run *)
(* in a worker thread while the coroutine of the request waits for it.     *)
(* The client may go away, the task may be cancelled (the worker then goes *)
(* on alone), the process may die, and a recovery pass of the ledger may   *)
(* take the reservation away under a request that is still running.        *)
(***************************************************************************)
EXTENDS Integers

CONSTANTS
    Counts,        \* values of n a request may carry
    RoundImages,   \* numbers of images one round of the generator may yield
    MaxProgress    \* bound: progress outputs per request

ASSUME RequestAssumption ==
    /\ Counts \subseteq Nat \ {0}
    /\ RoundImages \subseteq Nat \ {0}
    /\ MaxProgress \in Nat

VARIABLES
    phase,       \* where the coroutine of the request stands
    inside,      \* what the worker thread is inside of
    streaming,   \* body.stream
    requested,   \* n
    round,       \* index of the generator's loop
    gotResult,   \* returned_result of this round
    progress,    \* progress outputs so far
    collected,   \* images collect_image_outputs has gathered
    first,       \* images of the item taken before the response began, or None
    sse,         \* where sse_json_stream stands
    chunk,       \* chunk handed to the event loop and not yet sent
    pending,     \* pending_item of the stream wrapper: its images, or None
    actual,      \* actual_count of the stream wrapper
    closed,      \* closed of the stream wrapper
    received,    \* images whose chunk was sent
    gallery,     \* gallery rows saved for this request
    reservation, \* image_usage_events.status
    charged,     \* image_usage_events.actual_count
    cutAt        \* await at which the request was torn away without a handler

coroutine   == <<phase, inside>>
inputs      == <<streaming, requested>>
generator   == <<round, gotResult, progress>>
wrapper     == <<pending, actual, closed>>
wire        == <<sse, chunk, received>>
quota       == <<reservation, charged>>
requestVars ==
    <<coroutine, inputs, generator, collected, first, wrapper, wire, gallery, quota, cutAt>>

NoOutput == -1
Minimum(a, b) == IF a <= b THEN a ELSE b

RequestTypeOK ==
    /\ phase \in {"idle", "uploading", "handling", "first", "starting", "streaming", "over"}
    /\ inside \in {"none", "handler", "first", "pull"}
    /\ streaming \in BOOLEAN
    /\ requested \in Counts \cup {0}
    /\ round \in Nat \ {0} /\ gotResult \in BOOLEAN /\ progress \in 0 .. MaxProgress
    /\ collected \in Nat
    /\ first \in Nat \cup {NoOutput}
    /\ sse \in {"fresh", "open", "failed", "done"}
    /\ chunk \in {"none", "comment", "data", "end"}
    /\ pending \in Nat \cup {NoOutput} /\ actual \in Nat /\ closed \in BOOLEAN
    /\ received \in Nat /\ gallery \in Nat
    /\ reservation \in {"none", "open", "success", "failed", "recovered"}
    /\ charged \in Nat
    /\ cutAt \in {"nowhere", "start", "next", "crash"}

RequestInit ==
    /\ phase = "idle" /\ inside = "none"
    /\ streaming = FALSE /\ requested = 0
    /\ round = 1 /\ gotResult = FALSE /\ progress = 0
    /\ collected = 0 /\ first = NoOutput
    /\ sse = "fresh" /\ chunk = "none" /\ received = 0
    /\ pending = NoOutput /\ actual = 0 /\ closed = FALSE
    /\ gallery = 0
    /\ reservation = "none" /\ charged = 0
    /\ cutAt = "nowhere"

-----------------------------------------------------------------------------
(* The ledger, as the request sees it *)

Charge_Unclamped(count) == count     \* mutant
Charge(count) == Minimum(count, requested)

\* settle_image_quota: nothing happens unless the event is still reserved.
Settle(success, count) ==
    IF reservation = "open"
    THEN /\ reservation' = IF success THEN "success" ELSE "failed"
         /\ charged' = IF success THEN Charge(count) ELSE 0
    ELSE UNCHANGED quota

\* A recovery pass of the ledger finds the event old enough.
RecoverReservation ==
    /\ reservation = "open"
    /\ reservation' = "recovered"
    /\ UNCHANGED <<coroutine, inputs, generator, collected, first, wrapper, wire,
                   gallery, charged, cutAt>>

-----------------------------------------------------------------------------
(* The generator of outputs *)

\* The round the next output belongs to.
NextRound == IF gotResult THEN round + 1 ELSE round

\* The next output carries k images: a progress output carries none, and a
\* round yields its images at once and only once.
Yields(k) ==
    /\ NextRound <= requested
    /\ round' = NextRound
    /\ \/ k = 0 /\ progress < MaxProgress /\ progress' = progress + 1 /\ gotResult' = FALSE
       \/ k \in RoundImages /\ gotResult' = TRUE /\ UNCHANGED progress
Outputs == {0} \cup RoundImages

\* The last round is over, a round brought no image, or no account is left
\* after something was emitted.
Ends == UNCHANGED generator

\* Rejected by policy, failed upstream, or no account is left and nothing was
\* emitted.
Raises == NextRound <= requested /\ UNCHANGED generator

-----------------------------------------------------------------------------
(* From the route to the first item *)

\* generate_images and edit_images reserve; an edit then reads its uploads.
Reserve(n, stream, edit) ==
    /\ phase = "idle"
    /\ IF edit THEN phase' = "uploading" /\ UNCHANGED inside
               ELSE phase' = "handling" /\ inside' = "handler"
    /\ streaming' = stream /\ requested' = n
    /\ reservation' = "open"
    /\ UNCHANGED <<generator, collected, first, wrapper, wire, gallery, charged, cutAt>>

Uploaded ==
    /\ phase = "uploading"
    /\ phase' = "handling" /\ inside' = "handler"
    /\ UNCHANGED <<inputs, generator, collected, first, wrapper, wire, gallery, quota, cutAt>>

\* The except clauses before the response starts: an error or a cancellation.
CaughtCancel_No == UNCHANGED quota     \* mutant: a cancellation is only re-raised
CaughtCancel == Settle(FALSE, 0)

\* An upload is too large or empty, or the await is cancelled; the worker
\* thread of a cancelled await is not stopped.
GiveUp ==
    /\ phase \in {"uploading", "handling", "first"}
    /\ phase' = "over"
    /\ CaughtCancel
    /\ UNCHANGED <<inside, inputs, generator, collected, first, wrapper, wire, gallery, cutAt>>

\* The worker's call is over; if somebody still waits for it, he settles and
\* goes on to the given phase.
Conclude(next, success, count) ==
    IF phase = "over" THEN UNCHANGED <<phase, quota>>
    ELSE phase' = next /\ Settle(success, count)

\* The handler of a streaming request only builds the generators, unless it
\* rejects its input.
HandlerReturnsStream ==
    /\ inside = "handler" /\ streaming
    /\ IF phase = "over" THEN inside' = "none" /\ UNCHANGED phase
                         ELSE inside' = "first" /\ phase' = "first"
    /\ UNCHANGED <<inputs, generator, collected, first, wrapper, wire, gallery, quota, cutAt>>

\* collect_image_outputs takes one output after the other.
CollectOutput ==
    /\ inside = "handler" /\ ~streaming
    /\ \E k \in Outputs : Yields(k) /\ collected' = collected + k
    /\ UNCHANGED <<coroutine, inputs, first, wrapper, wire, gallery, quota, cutAt>>

\* The gallery rows that remain when saving the rows of an item fails after
\* some were created.
Remaining_All(created) == created      \* mutant: created rows stay behind
Remaining(created) == 0

\* The generator or a gallery row of the collected images fails.
HandlerRaises ==
    /\ inside = "handler" /\ inside' = "none"
    /\ NextRound <= requested \/ collected > 0
    /\ \E created \in 0 .. collected : gallery' = gallery + Remaining(created)
    /\ Conclude("over", FALSE, 0)
    /\ UNCHANGED <<inputs, generator, collected, first, wrapper, wire, cutAt>>

\* A dict: its images are in the gallery, and it is settled as a success.
HandlerReturnsDict ==
    /\ inside = "handler" /\ ~streaming /\ inside' = "none"
    /\ Ends
    /\ gallery' = gallery + collected
    /\ Conclude("over", TRUE, collected)
    /\ UNCHANGED <<inputs, collected, first, wrapper, wire, cutAt>>

\* The first item of a stream, before a response exists.
FirstItem ==
    /\ inside = "first" /\ inside' = "none"
    /\ \/ \E k \in Outputs :
            /\ Yields(k)
            /\ gallery' = gallery + k
            /\ first' = k
            /\ phase' = IF phase = "over" THEN "over" ELSE "starting"
            /\ UNCHANGED quota
       \/ Ends /\ Conclude("over", TRUE, 0) /\ UNCHANGED <<first, gallery>>
       \/ Raises /\ Conclude("over", FALSE, 0) /\ UNCHANGED <<first, gallery>>
    /\ UNCHANGED <<inputs, collected, wrapper, wire, cutAt>>

-----------------------------------------------------------------------------
(* The response *)

\* http.response.start is sent before the try of stream_response begins.
StartResponse ==
    /\ phase = "starting"
    /\ \/ phase' = "streaming" /\ UNCHANGED cutAt
       \/ phase' = "over" /\ cutAt' = "start"
    /\ UNCHANGED <<inside, inputs, generator, collected, first, wrapper, wire, gallery, quota>>

\* mark_pending_delivered
Delivered_Unchecked == actual + pending     \* mutant: nothing pending is not checked
Delivered == IF pending = NoOutput THEN actual ELSE actual + pending

\* The event loop asks a worker for the next chunk.
BeginPull ==
    /\ phase = "streaming" /\ inside = "none" /\ chunk = "none" /\ sse # "done"
    /\ inside' = "pull"
    /\ UNCHANGED <<phase, inputs, generator, collected, first, wrapper, wire, gallery,
                   quota, cutAt>>

\* The item __next__ returns waits as pending until its chunk was sent.
NextPending_CountedAtOnce(k) == pending' = NoOutput /\ actual' = Delivered + k   \* mutant
NextPending(k) == pending' = k /\ actual' = Delivered

\* __next__ of the wrapper: the item in hand, the next one of the generator
\* with its gallery rows, the end, or an error; the last two settle.
NextItem ==
    \/ /\ first # NoOutput
       /\ NextPending(first) /\ first' = NoOutput
       /\ sse' = "open" /\ chunk' = "data"
       /\ UNCHANGED <<generator, closed, gallery, quota>>
    \/ /\ first = NoOutput
       /\ \E k \in Outputs : Yields(k) /\ NextPending(k) /\ gallery' = gallery + k
       /\ sse' = "open" /\ chunk' = "data"
       /\ UNCHANGED <<first, closed, quota>>
    \/ /\ first = NoOutput
       /\ \/ Ends /\ Settle(TRUE, Delivered) /\ sse' = "done" /\ chunk' = "end"
          \/ Raises /\ Settle(Delivered > 0, Delivered) /\ sse' = "failed" /\ chunk' = "end"
       /\ pending' = NoOutput /\ actual' = Delivered /\ closed' = TRUE
       /\ UNCHANGED <<first, gallery>>

\* next() of sse_json_stream: a comment, then the items, after an error its
\* description, at the end [DONE].
EndPull ==
    /\ inside = "pull" /\ inside' = "none"
    /\ \/ /\ sse = "fresh"
          /\ sse' = "open" /\ chunk' = "comment"
          /\ UNCHANGED <<generator, first, wrapper, gallery, quota>>
       \/ sse = "open" /\ NextItem
       \/ /\ sse = "failed"
          /\ sse' = "done" /\ chunk' = "end"
          /\ UNCHANGED <<generator, first, wrapper, gallery, quota>>
    /\ UNCHANGED <<phase, inputs, collected, received, cutAt>>

\* The chunk was sent; only then does a data chunk count as delivered.
Send ==
    /\ phase = "streaming" /\ inside = "none" /\ chunk # "none"
    /\ received' = received + IF chunk = "data" /\ pending # NoOutput THEN pending ELSE 0
    /\ IF chunk = "comment" THEN UNCHANGED <<pending, actual>>
                            ELSE pending' = NoOutput /\ actual' = Delivered
    /\ chunk' = "none"
    /\ UNCHANGED <<coroutine, inputs, generator, collected, first, closed, sse, gallery,
                   quota, cutAt>>

\* close() of the wrapper: settles what was delivered, once.
Close == closed' = TRUE /\ IF closed THEN UNCHANGED quota ELSE Settle(TRUE, actual)

\* The finally of stream_response, after the last chunk or when the client
\* went away or the task was cancelled between two calls of next().
FinishResponse ==
    /\ phase = "streaming" /\ inside = "none"
    /\ phase' = "over" /\ chunk' = "none"
    /\ Close
    /\ UNCHANGED <<inside, inputs, generator, collected, first, pending, actual, sse,
                   received, gallery, cutAt>>

\* The task is cancelled while a worker is inside next(): the generator is
\* executing, its close() raises, and the wrapper is not closed.
CancelInsideNext ==
    /\ phase = "streaming" /\ inside = "pull"
    /\ phase' = "over" /\ cutAt' = "next"
    /\ UNCHANGED <<inside, inputs, generator, collected, first, wrapper, wire, gallery, quota>>

\* The process dies, worker threads included.
Crash ==
    /\ phase \notin {"idle", "over"}
    /\ phase' = "over" /\ inside' = "none" /\ cutAt' = "crash"
    /\ UNCHANGED <<inputs, generator, collected, first, wrapper, wire, gallery, quota>>

-----------------------------------------------------------------------------
(* Specification *)

Begin == \E n \in Counts, stream, edit \in BOOLEAN : Reserve(n, stream, edit)

\* What runs by itself once the request was accepted.
Advance ==
    \/ Uploaded \/ HandlerReturnsStream \/ CollectOutput \/ HandlerRaises \/ HandlerReturnsDict
    \/ FirstItem \/ StartResponse \/ BeginPull \/ EndPull
    \/ Send \/ (chunk = "none" /\ sse = "done" /\ FinishResponse)

RequestNext ==
    \/ Begin \/ Advance
    \/ GiveUp \/ FinishResponse \/ CancelInsideNext \/ Crash
    \/ RecoverReservation

RequestSpec == RequestInit /\ [][RequestNext]_requestVars

\* Upstream calls have timeouts, worker threads are scheduled and the server
\* sends or reports that it cannot.
FairRequestSpec == RequestSpec /\ WF_requestVars(Advance)

-----------------------------------------------------------------------------
(* Properties *)

\* A request that is over has been settled, whichever of its dozen exits it
\* took: wrong input, failed or cancelled handler, empty stream, error or
\* disconnect in the middle.  The exceptions are a failed response start, a
\* cancellation inside next(), and a crash; recovery has to free those.
SettledUnlessCutOff ==
    phase = "over" /\ reservation = "open" => cutAt # "nowhere"

\* A stream charges the images whose chunks were sent, at most n, however it
\* ended; the item that was produced but not sent is free.
StreamChargesReceived ==
    streaming /\ reservation \in {"success", "failed"} => charged = Minimum(received, requested)

\* A JSON request that the server answered charges the images it saved in the
\* gallery, and leaves none there when it failed; a cancelled one whose worker
\* goes on may still save them.
JsonChargesSaved ==
    ~streaming /\ phase = "over" /\ inside = "none" /\ reservation = "success"
        => charged = Minimum(gallery, requested)

\* Rows of a failing item never stay behind: at any time the gallery holds a
\* whole number of answered items, at most one of which the client of a stream
\* did not get.
AtMostOneItemUnsent ==
    /\ streaming => \E k \in Outputs : gallery = received + k
    /\ ~streaming => gallery \in {0, collected}

\* A request charges the images its client got, or found in the gallery, and leaves at most the rows of
\* one item that was not sent.
ChargesDelivered == StreamChargesReceived /\ JsonChargesSaved /\ AtMostOneItemUnsent

\* A request that was accepted comes to an end and its coins are settled or
\* left to the recovery pass: no exit waits for another.
ComesToAnEnd ==
    phase # "idle" ~> (phase = "over" /\ (reservation # "open" \/ cutAt # "nowhere"))
=============================================================================
