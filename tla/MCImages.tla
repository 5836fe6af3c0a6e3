------------------------------ MODULE MCImages ------------------------------
(***************************************************************************)
(* An image on its way, for TLC: either the page that queues and requests  *)
(* images, or one of its requests at the site.  What the page sees of a    *)
(* request is that it is answered or fails, and what the site sees of the  *)
(* page is that it may go away; neither reads a variable of the other.     *)
(***************************************************************************)
EXTENDS ImageQueue, ImageRequest

VARIABLE side

imageVars == <<side, vars, requestVars>>

ImageInit == side \in {"page", "site"} /\ Init /\ RequestInit
ImageNext ==
    /\ UNCHANGED side
    /\ \/ side = "page" /\ Next /\ UNCHANGED requestVars
       \/ side = "site" /\ RequestNext /\ UNCHANGED vars

ImageSpec ==
    /\ ImageInit /\ [][ImageNext]_imageVars
    /\ WF_vars(side = "page" /\ (Continue \/ Progress))
    /\ WF_requestVars(side = "site" /\ Advance)

-----------------------------------------------------------------------------
(* Properties of both sides *)

\* The page's and the request's variables keep their types.
ImagesTypeOK == TypeOK /\ RequestTypeOK

\* An image costs coins each time it is requested: in one session no loop, mount or reload of the page
\* requests it again; and no two loops ever run one conversation.
RunsAreSingle == RequestedOnce /\ OneRunEach

\* What the page shows is what the store has once nothing is on its way, and a deleted conversation is
\* in neither.
StoreIsTrue == DeletedStayGone /\ ShownIsStored

\* Neither late answers on the page, in one session, nor writes to the store, of a patient user, undo what a
\* turn came to.
OutcomesStay == OverStaysOver /\ StoredIsKept

\* A turn that is queued ends, and so does a request that was accepted, with its coins settled or left
\* to the recovery pass.
ImagesEnd == QueuedTurnsEnd /\ ComesToAnEnd
=============================================================================
