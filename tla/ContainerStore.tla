--------------------------- MODULE ContainerStore ---------------------------
(***************************************************************************)
(* The containers table of internal/store/store.go as pure operators: each  *)
(* SQL statement or transaction is one operator from a table to a table.    *)
(* A table is a function from the Docker IDs that have a row to their rows. *)
(*                                                                         *)
(* An image reference is a mutable tag, a repository digest ("pin") or a    *)
(* raw image ID.  Image contents are model values; the text of a reference  *)
(* is left out because the code only asks whether it is digest-shaped and   *)
(* whether it starts with "sha256:" (an image ID).  Display columns (stack, *)
(* state, status, versions, timestamps) decide nothing here and are left    *)
(* out, and so is `excluded'.                                               *)
(***************************************************************************)
EXTENDS Naturals

CONSTANTS
    Names,    \* container names
    Tags,     \* mutable references, e.g. app:latest
    Images,   \* immutable image contents
    Nil       \* an empty column

TagRef(t) == [kind |-> "tag", of |-> t]
PinRef(c) == [kind |-> "pin", of |-> c]
IdRef(c)  == [kind |-> "id", of |-> c]

Ref == [kind : {"tag"}, of : Tags] \cup [kind : {"pin", "id"}, of : Images]

ASSUME NilAssumption == Nil \notin Images /\ Nil \notin Ref

Row == [name : Names, cur : Ref, prev : Images \cup {Nil}, avail : BOOLEAN]

IsDigestReference(r) == r.kind # "tag"

\* Keep the operator-defined tag on record when the operation itself ran on an
\* immutable reference.
stableImageReference(operationImage, storedImage) ==
    IF IsDigestReference(operationImage) /\ ~IsDigestReference(storedImage)
    THEN storedImage
    ELSE operationImage

Put(f, k, v) == [x \in DOMAIN f \cup {k} |-> IF x = k THEN v ELSE f[x]]
Keep(f, S) == [x \in DOMAIN f \cap S |-> f[x]]

\* Discovery: insert, or refresh name and current_image only; previous_image
\* and update_available belong to the updater.
UpsertSeen(rows, id, name, image) ==
    Put(rows, id,
        IF id \in DOMAIN rows
        THEN [rows[id] EXCEPT !.name = name,
                              !.cur = stableImageReference(image, @)]
        ELSE [name |-> name, cur |-> image, prev |-> Nil, avail |-> FALSE])

\* Mutant: nothing is pruned.
PruneNothing(rows, liveIDs) == rows

\* An empty list prunes nothing.
PruneContainers(rows, liveIDs) ==
    IF liveIDs = {} THEN rows ELSE Keep(rows, liveIDs)

\* One transaction: retire oldID's row and upsert the replacement's.
replaceContainerTx(rows, oldID, newID, name, cur, prev) ==
    Put(Keep(rows, DOMAIN rows \ {oldID}), newID,
        [name |-> name, cur |-> cur, prev |-> prev, avail |-> FALSE])

SetUpdateAvailable(rows, id, available) ==
    [i \in DOMAIN rows |->
        IF i = id THEN [rows[i] EXCEPT !.avail = available] ELSE rows[i]]

\* The WHERE clause touches only a digest-shaped current_image.
RepairCurrentImage(rows, id, image) ==
    [i \in DOMAIN rows |->
        IF i = id /\ IsDigestReference(rows[i].cur)
        THEN [rows[i] EXCEPT !.cur = image]
        ELSE rows[i]]
=============================================================================
