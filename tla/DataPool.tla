------------------------------ MODULE DataPool ------------------------------
(***************************************************************************)
(* DATAPOOL: the server's cache of feeds and images.                       *)
(*                                                                         *)
(* A data pool is a record: storage, consistent, and amountSize, the space *)
(* its data is counted to take (amountKey is the number of its entries).   *)
(* The sets coh_feed and coh_image are the entries grouped by state; where *)
(* the code takes the first element of one, any may come, for they are     *)
(* unordered.  An operator that has such a choice returns a set.           *)
(***************************************************************************)
EXTENDS UuidMaps, FiniteSetsExt

CONSTANTS
  Feeds, Images,   \* what a sender may post
  NoData,          \* nullptr, no file, an empty string
  Size,            \* getSize of each feed and image
  LIMITSIZE,       \* the space the pool may take
  LIMITKEY         \* the entries it may have

ASSUME DataAssumption ==
  /\ Feeds \cap Images = {} /\ NoData \notin Feeds \cup Images
  /\ Size \in [Feeds \cup Images -> Nat]
  /\ LIMITSIZE \in Nat /\ LIMITKEY \in Nat

(* enum COH_STATE: M, not yet sent; MS, sent; I, not in the pool; U, none. *)
COH_STATE == {"M", "MS", "I", "U"}

(* struct MACRO_DATA *)
MacroData == [feedData : Feeds \cup {NoData}, imageData : Images \cup {NoData},
              feed_state : COH_STATE, image_state : COH_STATE, isDelete : BOOLEAN]
Pool == [storage : [UUID -> MacroData \cup {NoRow}], consistent : BOOLEAN, amountSize : Nat]

ASSUME EntryAssumption == NoRow \notin MacroData

IsIdExist(dp, u) == dp.storage[u] # NoRow
IsIdExistAndNotDeleted(dp, u) == IsIdExist(dp, u) /\ ~dp.storage[u].isDelete

(* The feeds and the images that are in the pool.                          *)
FeedsIn(dp, states) == {u \in Keys(dp.storage) : dp.storage[u].feed_state \in states}
ImagesIn(dp)        == {u \in Keys(dp.storage) : dp.storage[u].image_state = "M"}

FeedBytes(dp, S)  == MapThenSumSet(LAMBDA u : Size[dp.storage[u].feedData], S)
ImageBytes(dp, S) == MapThenSumSet(LAMBDA u : Size[dp.storage[u].imageData], S)
-----------------------------------------------------------------------------
(* evictImageMtoI for every uuid in P, evictFeedMtoI for every one in Q.   *)
Evicted(dp, P, Q) ==
  LET NoImage(u, e) == IF u \in P THEN [e EXCEPT !.image_state = "I", !.imageData = NoData] ELSE e
      NoFeed(u, e)  == IF u \in Q THEN [e EXCEPT !.feed_state = "I", !.feedData = NoData] ELSE e
  IN  [dp EXCEPT !.storage = [u \in UUID |-> NoFeed(u, NoImage(u, dp.storage[u]))],
                 !.amountSize = @ - ImageBytes(dp, P) - FeedBytes(dp, Q)]

EvictFeedMtoI(dp, u)  == Evicted(dp, {}, {u} \cap FeedsIn(dp, {"M", "MS"}))
EvictImageMtoI(dp, u) == Evicted(dp, {u} \cap ImagesIn(dp), {})

Fits(dp, space) == dp.amountSize + space <= LIMITSIZE

(* evictForFeed: images one after another, then feeds that were sent, just *)
(* until the space suffices, or all of them.                               *)
EvictForFeed(dp, space) ==
  LET I == ImagesIn(dp)
      F == FeedsIn(dp, {"MS"})
      Stops(P, Q) ==
        /\ P # I => Q = {}
        /\ P # I \/ Q # F => Fits(Evicted(dp, P, Q), space)
        /\ Q # {} => \E u \in Q : ~Fits(Evicted(dp, P, Q \ {u}), space)
        /\ Q = {} /\ P # {} => \E u \in P : ~Fits(Evicted(dp, P \ {u}, {}), space)
  IN  {Evicted(dp, v[1], v[2]) : v \in {w \in (SUBSET I) \X (SUBSET F) : Stops(w[1], w[2])}}

-----------------------------------------------------------------------------
(* Slip: a new entry has no image, whatever is on disk.                    *)
NewWithoutImage(onDisk) ==
  [feedData |-> NoData, imageData |-> NoData, feed_state |-> "I",
   image_state |-> "U", isDelete |-> FALSE]

(* addData for a feed.  onDisk: is there an image file of that uuid?       *)
NewMacroData(onDisk) ==
  [feedData |-> NoData, imageData |-> NoData, feed_state |-> "I",
   image_state |-> IF onDisk THEN "I" ELSE "U", isDelete |-> FALSE]

StoreFeed(dp, u, feed) ==
  IF Fits(dp, Size[feed])
  THEN [dp EXCEPT !.storage[u].feed_state = "M", !.storage[u].feedData = feed,
                  !.amountSize = @ + Size[feed]]
  ELSE [dp EXCEPT !.storage[u].feed_state = "I"]

(* Slip: the old feed of the uuid is overwritten, not evicted.             *)
AddFeedOverOld(dp, u, feed, onDisk) ==
  IF ~IsIdExist(dp, u) /\ Cardinality(Keys(dp.storage)) >= LIMITKEY
  THEN {[dp EXCEPT !.consistent = FALSE]}
  ELSE LET e     == IF IsIdExist(dp, u) THEN dp.storage[u] ELSE NewMacroData(onDisk)
           entry == [dp EXCEPT !.storage[u] = [e EXCEPT !.isDelete = FALSE]]
       IN  {StoreFeed(d, u, feed) : d \in EvictForFeed(entry, Size[feed])}

(* Slip: a full pool refuses the entry and still counts as consistent.     *)
AddFeedStillConsistent(dp, u, feed, onDisk) ==
  IF ~IsIdExist(dp, u) /\ Cardinality(Keys(dp.storage)) >= LIMITKEY
  THEN {dp}
  ELSE LET e     == IF IsIdExist(dp, u) THEN dp.storage[u] ELSE NewMacroData(onDisk)
           entry == [dp EXCEPT !.storage[u] = [e EXCEPT !.isDelete = FALSE]]
       IN  {StoreFeed(d, u, feed) : d \in EvictForFeed(EvictFeedMtoI(entry, u), Size[feed])}

AddFeed(dp, u, feed, onDisk) ==
  IF ~IsIdExist(dp, u) /\ Cardinality(Keys(dp.storage)) >= LIMITKEY
  THEN {[dp EXCEPT !.consistent = FALSE]}
  ELSE LET e     == IF IsIdExist(dp, u) THEN dp.storage[u] ELSE NewMacroData(onDisk)
           entry == [dp EXCEPT !.storage[u] = [e EXCEPT !.isDelete = FALSE]]
       IN  {StoreFeed(d, u, feed) : d \in EvictForFeed(EvictFeedMtoI(entry, u), Size[feed])}

(* Slip: the space of an image is not counted when it comes.               *)
AddImageUncounted(dp, u, image) ==
  LET own == EvictImageMtoI(dp, u)
  IN  IF Fits(own, Size[image])
      THEN [own EXCEPT !.storage[u].image_state = "M", !.storage[u].imageData = image]
      ELSE [own EXCEPT !.storage[u].image_state = "I"]

(* addData for an image, of a uuid that has an entry; evictForImage evicts *)
(* nothing.                                                                *)
AddImage(dp, u, image) ==
  LET own == EvictImageMtoI(dp, u)
  IN  IF Fits(own, Size[image])
      THEN [own EXCEPT !.storage[u].image_state = "M", !.storage[u].imageData = image,
                       !.amountSize = @ + Size[image]]
      ELSE [own EXCEPT !.storage[u].image_state = "I"]

DeleteData(dp, u) ==
  [EvictImageMtoI(EvictFeedMtoI(dp, u), u) EXCEPT
     !.storage[u].feed_state = "U", !.storage[u].image_state = "U", !.storage[u].isDelete = TRUE]

DeleteImage(dp, u) == [EvictImageMtoI(dp, u) EXCEPT !.storage[u].image_state = "U"]

(* getFeedData and getImageData: NoData where the code returns nullptr,    *)
(* and where it throws, which Throws tells apart.                          *)
GetFeedData(dp, u)  == dp.storage[u].feedData
GetImageData(dp, u) == dp.storage[u].imageData
FeedThrows(dp, u)   == dp.storage[u].feed_state = "U"
ImageThrows(dp, u)  == dp.storage[u].image_state \in {"U", "MS"}

(* notifyToFreeFeed for every uuid in S that is not only not sent, and     *)
(* notifyToFreeImage.                                                      *)
NotifyToFree(dp, fed, S) ==
  LET d == Evicted(dp, S \cap ImagesIn(dp), {})
      Sent(u, e) == IF u \in fed \cap FeedsIn(dp, {"M"}) THEN [e EXCEPT !.feed_state = "MS"] ELSE e
  IN  [d EXCEPT !.storage = [u \in UUID |-> Sent(u, d.storage[u])]]
=============================================================================
