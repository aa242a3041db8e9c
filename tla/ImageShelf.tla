----------------------------- MODULE ImageShelf -----------------------------
(***************************************************************************)
(* What the image store promises its clients, without the directory that   *)
(* keeps it: every image has a place on a shelf.  An upload is put there   *)
(* whole or not at all, one that was told not to replace an image was      *)
(* offered while the place was empty, and a netboot with verify_crc32 runs *)
(* what was in the place both when the image was listed and when it was    *)
(* fetched.                                                                *)
(*                                                                         *)
(* There are no prefixes, temporary files, chunks or sweeps here.  Whether *)
(* two images have one place is for those to say who lay out the shelf.    *)
(* ImageStore.tla implements this module.                                  *)
(***************************************************************************)
CONSTANTS Images,   \* images, as the clients of one daemon or another name them
          Uploads,  \* uploads
          Overwriting,  \* the ones that may replace an image
          Boots,    \* netboots with verify_crc32
          Where,    \* [i -> the place of image i]
          Nothing   \* no image, no upload

VARIABLES shelf,    \* [p -> the upload in place p, or Nothing]
          offer,    \* [u -> what u is to be, and what became of it]
          order     \* [b -> the image b is to run, and the upload it was shown]

shelfVars == <<shelf, offer, order>>

\* What is left of an offer and of an order that came to nothing.
LostOffer == [st |-> "failed", image |-> Nothing]
LostOrder == [st |-> "failed", image |-> Nothing, shown |-> Nothing]

ShelfInit ==
    /\ shelf = [p \in {Where[i] : i \in Images} |-> Nothing]
    /\ offer = [u \in Uploads |-> [st |-> "new", image |-> Nothing]]
    /\ order = [b \in Boots |-> [st |-> "new", image |-> Nothing, shown |-> Nothing]]

\* An upload begins: to replace an image if it may, or else to fill its place if
\* that is empty.
Offer(u, i) ==
    /\ offer[u].st = "new"
    /\ offer' = [offer EXCEPT ![u] =
         IF u \in Overwriting \/ shelf[Where[i]] = Nothing
           THEN [st |-> "offered", image |-> i] ELSE LostOffer]
    /\ UNCHANGED <<shelf, order>>

\* It is on the shelf, at once ...
Place(u) ==
    /\ offer[u].st = "offered"
    /\ shelf' = [shelf EXCEPT ![Where[offer[u].image]] = u]
    /\ offer' = [offer EXCEPT ![u].st = "placed"]
    /\ UNCHANGED order

\* ... or will never be.
Withdraw(u) ==
    /\ offer[u].st = "offered"
    /\ offer' = [offer EXCEPT ![u] = LostOffer]
    /\ UNCHANGED <<shelf, order>>

\* An image is deleted, or has been there for too long.
Remove(i) ==
    /\ shelf[Where[i]] # Nothing
    /\ shelf' = [shelf EXCEPT ![Where[i]] = Nothing]
    /\ UNCHANGED <<offer, order>>

\* A netboot asks for an image, is shown it, fetches it if it is still there,
\* and runs it.
Order(b, i) ==
    /\ order[b].st = "new"
    /\ order' = [order EXCEPT ![b] =
         IF shelf[Where[i]] = Nothing
           THEN LostOrder ELSE [st |-> "ordered", image |-> i, shown |-> Nothing]]
    /\ UNCHANGED <<shelf, offer>>

Show(b) ==
    /\ order[b].st = "ordered"
    /\ order' = [order EXCEPT ![b] =
         [st |-> "shown", image |-> @.image, shown |-> shelf[Where[@.image]]]]
    /\ UNCHANGED <<shelf, offer>>

Fetch(b) ==
    LET there == shelf[Where[order[b].image]]
    IN  /\ order[b].st = "shown"
        /\ order' = [order EXCEPT ![b] =
             IF there # Nothing /\ there = order[b].shown
               THEN [st |-> "fetched", image |-> @.image, shown |-> there] ELSE LostOrder]
        /\ UNCHANGED <<shelf, offer>>

Run(b) ==
    /\ order[b].st = "fetched"
    /\ order' = [order EXCEPT ![b].st = "ran"]
    /\ UNCHANGED <<shelf, offer>>

\* A crash costs what was under way for some of the images, and nothing that was
\* on the shelf.
Halt(lost) ==
    /\ offer' = [u \in Uploads |->
         IF offer[u].st = "offered" /\ offer[u].image \in lost THEN LostOffer ELSE offer[u]]
    /\ order' = [b \in Boots |->
         IF order[b].st \in {"ordered", "shown", "fetched"} /\ order[b].image \in lost
           THEN LostOrder ELSE order[b]]
    /\ UNCHANGED shelf

ShelfNext ==
    \/ \E u \in Uploads :
         \/ \E i \in Images : Offer(u, i)
         \/ Place(u) \/ Withdraw(u)
    \/ \E i \in Images : Remove(i)
    \/ \E b \in Boots :
         \/ \E i \in Images : Order(b, i)
         \/ Show(b) \/ Fetch(b) \/ Run(b)
    \/ \E lost \in SUBSET Images : Halt(lost)

ShelfSpec == ShelfInit /\ [][ShelfNext]_shelfVars
=============================================================================
