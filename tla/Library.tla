------------------------------ MODULE Library ------------------------------
(***************************************************************************)
(* The history of images as a view pages through it: list_images,          *)
(* update_image and delete_image of services/gallery_service.py and        *)
(* components/Gallery.tsx.                                                 *)
(*                                                                         *)
(* Images are numbered in the order in which they were made.  Requests of  *)
(* the view are answered from the list as it is then; answers are handled  *)
(* in any order.                                                           *)
(***************************************************************************)
EXTENDS SequencesExt, Ordered

CONSTANTS
  MaxImages,  \* bound: images
  Page,       \* PAGE
  MaxReloads, \* bound: reloads
  MaxChanges  \* bound: changes of rows

LibraryAssumption == {MaxImages, MaxReloads, MaxChanges} \subseteq Nat /\ Page \in Nat \ {0}

VARIABLES
  image,     \* the rows: what is seen of an image, or "none", "gone"
  favorites, \* images that are marked
  changes,   \* changes of rows so far
  filter,    \* what is applied: "all", "favorite"
  items,     \* what the view shows
  more,      \* there may be more: hasMore
  version,   \* requestVersionRef
  loading,   \* loadingRef
  calls,     \* requests for a page under way: their kind, version, filter, place and rows
  shifted,   \* history: a page was answered that left out images since the last reload
  grown      \* history: images that were listed anew since the page of the last reload was read

vars == <<image, favorites, changes, filter, items, more, version, loading, calls, shifted, grown>>
view == <<filter, items, more, version, loading>>
history == <<shifted, grown>>

Ids == 1..MaxImages
Rows == {i \in Ids : image[i] \in {"valid", "missing"}}

\* _apply_filters: a row whose file is missing is not listed.
Matches(i, f) == image[i] = "valid" /\ (f = "favorite" => i \in favorites)

\* list_images: the newest first.
Listed(f) == Descending({i \in Ids : Matches(i, f)})
PageAt(list, offset) ==
  SubSeq(list, offset + 1, IF offset + Page < Len(list) THEN offset + Page ELSE Len(list))

Change == changes < MaxChanges /\ changes' = changes + 1

Init ==
  /\ \E n \in 0..MaxImages : image = [i \in Ids |-> IF i <= n THEN "valid" ELSE "none"]
  /\ favorites \in SUBSET {i \in Ids : image[i] = "valid"}
  /\ changes = 0 /\ filter = "all" /\ items = <<>> /\ more = FALSE /\ version = 0 /\ loading = FALSE
  /\ calls = {} /\ shifted = FALSE /\ grown = {}

-----------------------------------------------------------------------------
(***************************************************************************)
(* The rows.                                                               *)
(***************************************************************************)
\* A job is finished, or the doctor recovers one.
Make(i) ==
  /\ Change
  /\ image[i] = "none" /\ (i > 1 => image[i - 1] # "none")
  /\ image' = [image EXCEPT ![i] = "valid"] /\ grown' = grown \cup {i}
  /\ UNCHANGED <<favorites, view, calls, shifted>>

\* The doctor finds its file missing, or finds it again.
Mark(i) ==
  /\ Change
  /\ image[i] \in {"valid", "missing"}
  /\ image' = [image EXCEPT ![i] = IF image[i] = "valid" THEN "missing" ELSE "valid"]
  /\ grown' = grown \cup {i}
  /\ UNCHANGED <<favorites, view, calls, shifted>>

\* delete_image, for this view or another one.
Delete(i) ==
  /\ Change
  /\ i \in Rows /\ image' = [image EXCEPT ![i] = "gone"]
  /\ UNCHANGED <<favorites, view, calls, history>>

\* update_image, from another view.
Favor(i) ==
  /\ Change
  /\ i \in Rows /\ favorites' = IF i \in favorites THEN favorites \ {i} ELSE favorites \cup {i}
  /\ grown' = grown \cup {i}
  /\ UNCHANGED <<image, view, calls, shifted>>

-----------------------------------------------------------------------------
(***************************************************************************)
(* The view.                                                               *)
(***************************************************************************)
Call(kind, v, f, offset) == [kind |-> kind, version |-> v, filter |-> f, offset |-> offset,
                             rows |-> <<>>, served |-> FALSE]

\* reload: with the filter that is applied then, when an image was made or changed.
Reload(f) ==
  /\ version < MaxReloads
  /\ filter' = f /\ version' = version + 1 /\ loading' = TRUE
  /\ calls' = calls \cup {Call("reload", version + 1, f, 0)}
  /\ UNCHANGED <<image, favorites, changes, items, more, history>>

\* loadMore: at the end of what is shown.
LoadMore ==
  /\ ~loading /\ more /\ loading' = TRUE
  /\ calls' = calls \cup {Call("more", version, filter, Len(items))}
  /\ UNCHANGED <<image, favorites, changes, filter, items, more, version, history>>

\* The page is read.  It leaves out images when the place counts some that are not
\* listed any more.
Serve(c) ==
  /\ ~c.served
  /\ calls' = (calls \ {c}) \cup
       {[c EXCEPT !.rows = PageAt(Listed(c.filter), c.offset), !.served = TRUE]}
  /\ shifted' = (shifted \/ (c.version = version
       /\ c.offset > Cardinality({i \in ToSet(items) : Matches(i, filter)})))
  /\ grown' = IF c.version = version /\ c.kind = "reload" THEN {} ELSE grown
  /\ UNCHANGED <<image, favorites, changes, view>>

\* A fault: answers are shown whichever request was the last.
OvertakenNever(c) == FALSE

\* An answer to a request that a reload has overtaken is put aside.
Overtaken(c) == c.version # version

Receive(c) ==
  /\ c.served /\ calls' = calls \ {c}
  /\ IF Overtaken(c) THEN UNCHANGED <<items, more, loading, shifted>>
     ELSE /\ more' = (Len(c.rows) = Page) /\ loading' = FALSE
          /\ IF c.kind = "reload"
             THEN items' = c.rows /\ shifted' = FALSE
             ELSE /\ items' = items \o Among(c.rows, Ids \ ToSet(items))
                  /\ UNCHANGED shifted
  /\ UNCHANGED <<image, favorites, changes, filter, version, grown>>

\* The request fails: a reload leaves nothing to show.
Fail(c) ==
  /\ ~c.served /\ calls' = calls \ {c}
  /\ IF Overtaken(c) THEN UNCHANGED <<items, more, loading>>
     ELSE /\ loading' = FALSE
          /\ IF c.kind = "reload" THEN items' = <<>> /\ more' = FALSE ELSE UNCHANGED <<items, more>>
  /\ UNCHANGED <<image, favorites, changes, filter, version, history>>

\* removeOne: the server has answered, when it was this view that deleted the image.
Removed(i) ==
  /\ i \in ToSet(items) /\ image[i] = "gone"
  /\ items' = Among(items, Ids \ {i})
  /\ UNCHANGED <<image, favorites, changes, filter, more, version, loading, calls, history>>

Next ==
  \/ \E i \in Ids : Make(i) \/ Mark(i) \/ Delete(i) \/ Favor(i) \/ Removed(i)
  \/ \E f \in {"all", "favorite"} : Reload(f)
  \/ LoadMore
  \/ \E c \in calls : Serve(c) \/ Receive(c) \/ Fail(c)

Spec == Init /\ [][Next]_vars

-----------------------------------------------------------------------------
\* The values of the variables.
TypeOK ==
  /\ image \in [Ids -> {"none", "valid", "missing", "gone"}] /\ favorites \subseteq Ids
  /\ filter \in {"all", "favorite"} /\ items \in Seq(Ids) /\ more \in BOOLEAN /\ loading \in BOOLEAN
  /\ changes \in 0..MaxChanges /\ version \in 0..MaxReloads /\ grown \subseteq Ids

Reloading == \E c \in calls : c.kind = "reload" /\ c.version = version

\* The view leaves out no image between those it shows, and when it says that there
\* are no more, none at the end, but those that were listed anew since it was
\* reloaded and unless a place counted images that are not listed any more.
NoGaps ==
  ~Reloading /\ ~shifted =>
    \A i \in Ids \ grown :
      Matches(i, filter) /\ (\E j \in ToSet(items) : i > j \/ ~more) => i \in ToSet(items)

\* It shows no image twice, and those that stayed listed in their order.
InOrder ==
  /\ IsInjective(items)
  /\ ~Reloading /\ ~shifted => \A k, l \in DOMAIN items :
       /\ k < l /\ {items[k], items[l]} \cap grown = {}
       /\ Matches(items[k], filter) /\ Matches(items[l], filter)
       => items[k] > items[l]
=============================================================================
