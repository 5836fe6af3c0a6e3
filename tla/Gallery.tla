------------------------------ MODULE Gallery ------------------------------
(***************************************************************************)
(* The gallery of a user: the page (web/src/app/gallery/page.tsx) with its *)
(* list, its previews and its deletions, and the rows and files that the   *)
(* site keeps (services/gallery_service.py).                               *)
(*                                                                         *)
(* Images are numbered in the order of their creation times.  Lists are    *)
(* newest first, on both sides: they are modelled by the set of their      *)
(* images.  An image is stamped and its file written, then its row is      *)
(* committed, or fails to; two that are saved at a time may be committed   *)
(* in either order.  A listing reads rows, then looks for their files; a   *)
(* deletion marks the row, then removes the file.                          *)
(***************************************************************************)
EXTENDS WebPage

CONSTANTS
    MaxImages, \* bound of the images
    PageSize   \* images of a page, of which there are 24

ASSUME GalleryAssumption == MaxImages \in Nat /\ PageSize \in Nat \ {0}

GalleryImages == 1 .. MaxImages
NoImage == 0 \* no cursor, no preview, no item
Oldest(ids) == CHOOSE i \in ids : \A j \in ids : i <= j

EmptyGallery == [at |-> "gallery", items |-> {}, deleted |-> {}, preview |-> [i \in GalleryImages |-> NoImage],
          initial |-> FALSE, refreshing |-> FALSE, more |-> FALSE, cursor |-> NoImage, hasMore |-> FALSE,
          request |-> 0, busy |-> {}, confirm |-> NoImage]

\* loadFirstPage, up to its request.
FirstPageKeepingMore(mode) ==
    [page EXCEPT !.request = @ + 1, !.initial = (@ \/ mode = "initial"), !.refreshing = (@ \/ mode = "refresh")]
FirstPage(mode) ==
    [page EXCEPT !.request = @ + 1, !.more = FALSE,
                 !.initial = (@ \/ mode = "initial"), !.refreshing = (@ \/ mode = "refresh")]

\* The page has opened and asked for its first page; a file may be missing, and the newest image may
\* still be on its way into the gallery.  The images that were committed late, after a newer one, and
\* that no page shown since has read, are kept for the properties.
GalleryInit ==
    \E made \in 0 .. MaxImages, files \in SUBSET GalleryImages, last \in {"available", "saving"} :
        /\ made \in {0, MaxImages - 1} /\ files \subseteq 1 .. made
        /\ Cardinality(files) >= made - 1
        /\ last = "saving" => made \in files
        /\ page = [EmptyGallery EXCEPT !.request = 1, !.initial = TRUE]
        /\ site = [rows |-> [i \in GalleryImages |-> IF i < made THEN "available" ELSE IF i = made THEN last ELSE "none"],
                   files |-> files, urls |-> {}, late |-> {}]
        /\ clicks = 0
        /\ calls = {[op |-> "list", arg |-> [cursor |-> NoImage, request |-> 1], by |-> 0, got |-> Nothing]}

-----------------------------------------------------------------------------
(* The site. *)

\* Rows that a listing from the cursor on reads.
RowCandidates(cursor) == {i \in GalleryImages : site.rows[i] = "available" /\ (cursor = NoImage \/ i < cursor)}

\* Rows are judged by their files until there is one more than a page; the cursor is the last one listed.
\* Not modelled is the bound of a scan, after which a page may be empty and the cursor go on.
Judged(read) == {i \in read : Cardinality({j \in read \cap site.files : j > i}) <= PageSize}
ListPage(read) ==
    LET found == read \cap site.files
        listed == {i \in found : Cardinality({j \in found : j >= i}) <= PageSize}
    IN [ok |-> TRUE, read |-> read, items |-> listed,
        cursor |-> IF found = listed THEN NoImage ELSE Oldest(listed), hasMore |-> found # listed]

ReadRows(c) ==
    /\ c \in Pending("list")
    /\ calls' = (calls \ {c}) \cup {[c EXCEPT !.op = "listing", !.got = RowCandidates(c.arg.cursor)]}
    /\ UNCHANGED <<page, site, clicks>>

JudgeRows(c) ==
    /\ c \in Under("listing")
    /\ site' = [site EXCEPT !.rows = [i \in GalleryImages |-> IF i \in Judged(c.got) \ site.files THEN "missing" ELSE @[i]]]
    /\ calls' = (calls \ {c}) \cup {[c EXCEPT !.op = "list", !.got = ListPage(c.got)]}
    /\ UNCHANGED <<page, clicks>>

MarkDeleted(c) ==
    /\ c \in Pending("delete")
    /\ IF site.rows[c.arg] # "available" THEN Served(c, Failure) /\ UNCHANGED site
       ELSE /\ site' = [site EXCEPT !.rows[c.arg] = "deleted"]
            /\ calls' = (calls \ {c}) \cup {[c EXCEPT !.op = "unlink"]}
    /\ UNCHANGED <<page, clicks>>

Unlink(c) ==
    /\ c \in Under("unlink")
    /\ site' = [site EXCEPT !.files = @ \ {c.arg}]
    /\ calls' = (calls \ {c}) \cup {[c EXCEPT !.op = "delete", !.got = [ok |-> TRUE]]}
    /\ UNCHANGED <<page, clicks>>

\* The user makes another image, in another tab: it gets its creation time, and its file is written.
NewImage ==
    /\ Event("gallery")
    /\ \E i \in GalleryImages :
         /\ site.rows[i] = "none" /\ \A j \in 1 .. i - 1 : site.rows[j] # "none"
         /\ site' = [site EXCEPT !.rows[i] = "saving", !.files = @ \cup {i}]
    /\ UNCHANGED <<page, calls>>

\* Its row is committed, whatever became of those that were stamped before and after.
Committed(rows) == {i \in GalleryImages : rows[i] \in {"available", "deleted", "missing"}}
CommitImage(i) ==
    /\ At("gallery") /\ site.rows[i] = "saving"
    /\ site' = [site EXCEPT !.rows[i] = "available",
                           !.late = IF \E j \in Committed(site.rows) : i < j THEN @ \cup {i} ELSE @]
    /\ UNCHANGED <<page, calls, clicks>>

\* Or it is not, the account being disabled or the database failing: the file is removed again.
LoseImage(i) ==
    /\ At("gallery") /\ site.rows[i] = "saving"
    /\ site' = [site EXCEPT !.rows[i] = "lost", !.files = @ \ {i}]
    /\ UNCHANGED <<page, calls, clicks>>

-----------------------------------------------------------------------------
(* The page. *)

AskFirstPage(mode) ==
    /\ page' = FirstPage(mode)
    /\ calls' = calls \cup {Asks("list", [cursor |-> NoImage, request |-> page.request + 1])}

RefreshGallery ==
    /\ Event("gallery") /\ ~page.initial /\ ~page.refreshing
    /\ AskFirstPage("refresh") /\ UNCHANGED site

LoadMoreImages ==
    /\ Event("gallery") /\ page.hasMore /\ page.cursor # NoImage /\ ~page.more /\ ~page.refreshing
    /\ page' = [page EXCEPT !.request = @ + 1, !.more = TRUE]
    /\ calls' = calls \cup {Asks("list", [cursor |-> page.cursor, request |-> page.request + 1])}
    /\ UNCHANGED site

CurrentListAlways(c) == TRUE
CurrentList(c) == c.arg.request = page.request

\* filterDeletedItems; a page that is appended adds only items that are not there yet.
NotDeletedUnfiltered(items) == items
NotDeleted(items) == items \ page.deleted
AppendedImages(items) == page.items \cup NotDeleted(items)

\* Items that are no longer in the list lose their preview, whose URL is revoked.
TrimmedTo(items) ==
    [page EXCEPT !.items = items,
                 !.preview = [i \in GalleryImages |-> IF i \in items THEN @[i] ELSE NoImage]]
RevokedURLs(preview) == site.urls \ {page.preview[i] : i \in {j \in GalleryImages : preview[j] # page.preview[j]}}

WithoutImage(i) == TrimmedTo(page.items \ {i})

\* loadPreviewForItem of each item, unless it has a preview.
AskPreviews(ids) == {Asks("preview", i) : i \in {j \in ids : page'.preview[j] = NoImage}}

\* An answer that is not the one of the last request changes nothing, not even the spinners.
GalleryAnswer(c) ==
    LET first == c.arg.cursor = NoImage
        items == IF first THEN NotDeleted(c.got.items) ELSE AppendedImages(c.got.items)
        done  == IF first THEN [TrimmedTo(items) EXCEPT !.initial = FALSE, !.refreshing = FALSE]
                 ELSE [page EXCEPT !.items = items, !.more = FALSE]
    IN
    /\ At("gallery") /\ c \in Answered("list") /\ UNCHANGED clicks
    /\ IF ~CurrentList(c) THEN calls' = calls \ {c} /\ UNCHANGED <<page, site>>
       ELSE IF ~c.got.ok
            THEN /\ page' = IF first THEN [page EXCEPT !.initial = FALSE, !.refreshing = FALSE]
                            ELSE [page EXCEPT !.more = FALSE]
                 /\ calls' = calls \ {c} /\ UNCHANGED site
       ELSE /\ page' = [done EXCEPT !.cursor = c.got.cursor, !.hasMore = c.got.hasMore]
            /\ calls' = (calls \ {c}) \cup AskPreviews(items \ (IF first THEN {} ELSE page.items))
            /\ site' = [site EXCEPT !.urls = RevokedURLs(page'.preview), !.late = @ \ c.got.read]

\* The content of an image comes, or its request fails, as it does when the image is deleted before.
\* A URL is numbered by the preview that was asked for.
PreviewAnswerUnchecked(c) ==
    /\ At("gallery") /\ c \in Pending("preview")
    /\ \/ LET url == 1 + c.by * MaxImages + c.arg IN
          /\ page' = [page EXCEPT !.preview[c.arg] = url]
          /\ site' = [site EXCEPT !.urls = @ \cup {url}]
       \/ UNCHANGED <<page, site>>
    /\ calls' = calls \ {c} /\ UNCHANGED clicks
PreviewAnswer(c) ==
    /\ At("gallery") /\ c \in Pending("preview")
    /\ \/ LET url == 1 + c.by * MaxImages + c.arg IN
          /\ c.arg \in page.items /\ page.preview[c.arg] = NoImage
          /\ page' = [page EXCEPT !.preview[c.arg] = url]
          /\ site' = [site EXCEPT !.urls = @ \cup {url}]
       \/ UNCHANGED <<page, site>>
    /\ calls' = calls \ {c} /\ UNCHANGED clicks

\* The dialog that confirms a deletion.
ConfirmImage(i) ==
    /\ Event("gallery") /\ i \in page.items \ page.busy /\ page.confirm = NoImage
    /\ page' = [page EXCEPT !.confirm = i]
    /\ UNCHANGED <<site, calls>>

DeleteImage ==
    /\ At("gallery") /\ page.confirm \notin {NoImage} \cup page.busy
    /\ page' = [page EXCEPT !.busy = @ \cup {page.confirm}]
    /\ UNCHANGED <<site, clicks>>
    /\ calls' = calls \cup {Asks("delete", page.confirm)}

ImageDeleted(c) ==
    /\ At("gallery") /\ c \in Answered("delete")
    /\ IF c.got.ok
       THEN /\ page' = [WithoutImage(c.arg) EXCEPT
                           !.deleted = @ \cup {c.arg}, !.busy = @ \ {c.arg}, !.confirm = NoImage]
            /\ site' = [site EXCEPT !.urls = RevokedURLs(page'.preview)]
       ELSE page' = [page EXCEPT !.busy = @ \ {c.arg}] /\ UNCHANGED site
    /\ calls' = calls \ {c} /\ UNCHANGED clicks

\* The dialog closes unless its deletion is under way.
KeepImage ==
    /\ At("gallery") /\ page.confirm \notin {NoImage} \cup page.busy
    /\ page' = [page EXCEPT !.confirm = NoImage]
    /\ UNCHANGED <<site, calls, clicks>>

\* An image with a preview is at hand; another one is fetched.
DownloadImage(i) ==
    /\ Event("gallery") /\ i \in page.items \ page.busy /\ page.confirm = NoImage
    /\ page.preview[i] = NoImage
    /\ page' = [page EXCEPT !.busy = @ \cup {i}]
    /\ calls' = calls \cup {Asks("download", i)}
    /\ UNCHANGED site

ImageDownloaded(c) ==
    /\ At("gallery") /\ c \in Pending("download")
    /\ page' = [page EXCEPT !.busy = @ \ {c.arg}]
    /\ calls' = calls \ {c} /\ UNCHANGED <<site, clicks>>

GalleryFails(c) ==
    /\ Event("gallery") /\ c \in calls /\ c.op \in {"list", "delete"} /\ c.got # Failure
    /\ Fails(c)

\* The page is left: its URLs are revoked, and its generation is over.
LeaveGallery ==
    /\ Event("gallery")
    /\ page' = Left /\ calls' = {} /\ site' = [site EXCEPT !.urls = {}]

GalleryStep ==
    \E c \in calls :
        \/ ReadRows(c) \/ JudgeRows(c) \/ MarkDeleted(c) \/ Unlink(c)
        \/ GalleryAnswer(c) \/ PreviewAnswer(c) \/ ImageDeleted(c) \/ ImageDownloaded(c)
GalleryNext ==
    \/ GalleryStep
    \/ NewImage \/ RefreshGallery \/ LoadMoreImages \/ DeleteImage \/ KeepImage \/ LeaveGallery
    \/ \E i \in GalleryImages : ConfirmImage(i) \/ DownloadImage(i) \/ CommitImage(i) \/ LoseImage(i)
    \/ \E c \in calls : GalleryFails(c)

-----------------------------------------------------------------------------
\* An image whose deletion was confirmed is not shown again, whatever list was on its way.
GalleryDeletedStayAway == At("gallery") => page.items \cap page.deleted = {}

\* Pages that were read before and after a change of the gallery fit together: an image that is
\* not shown is newer than all that are, or is still to be loaded.  The exception is an image that was
\* committed after a newer one: it is missed until an answer that was read after its commit is shown.
GalleryHasNoGaps ==
    At("gallery") =>
        \A i \in site.files \ site.late :
            site.rows[i] = "available" /\ i \notin page.items =>
                \/ \A j \in page.items : i > j
                \/ page.hasMore /\ i < page.cursor

\* No button stays disabled and no spinner turns when nothing is under way.
GallerySettles ==
    At("gallery") =>
        /\ page.initial \/ page.refreshing \/ page.more =>
             \E c \in Under("list") \cup Under("listing") : c.arg.request = page.request
        /\ page.busy = {c.arg : c \in {d \in calls : d.op \in {"delete", "unlink", "download"}}}

\* The URLs of the previews, which hold images in the browser's memory, are those of the images
\* shown: each other one was revoked.
GalleryURLs == At("gallery") => site.urls = {page.preview[i] : i \in page.items} \ {NoImage}

\* What the page shows and holds fits what the gallery has, whatever was deleted, added, loaded and
\* refreshed in the meantime.
GalleryFollowsSite == GalleryDeletedStayAway /\ GalleryHasNoGaps /\ GalleryURLs
=============================================================================
