--------------------------- MODULE PageLayoutProofs ---------------------------
(***************************************************************************)
(* Theorems about PageLayout, for any page sizes the game can address and  *)
(* any decks.                                                              *)
(***************************************************************************)
EXTENDS PageLayout, FiniteSetTheorems, SequenceTheorems, WellFoundedInduction, TLAPS

Less == {p \in Nat \X Nat : p[1] < p[2]}

LEMMA LessWellFounded == IsWellFoundedOn(Less, Nat)
BY NatLessThanWellFounded DEF OpToRel, Less

LEMMA FirstOf == ASSUME NEW S \in SUBSET Nat, S # {}
                 PROVE  \E i \in S : \A j \in S : i <= j
<1>1. PICK i \in S : \A j \in S : ~ (<<j, i>> \in Less)
      BY LessWellFounded, WFMin
<1>2. ASSUME NEW j \in S, j < i PROVE FALSE
  <2>1. <<j, i>> \in Nat \X Nat /\ <<j, i>>[1] < <<j, i>>[2]
        BY <1>2
  <2> QED BY <1>1, <2>1 DEF Less
<1>3. i \in Nat /\ \A j \in S : j \in Nat
      OBVIOUS
<1> QED BY <1>2, <1>3

LEMMA LastOf == ASSUME NEW n \in Nat, NEW S \in SUBSET (1 .. n), S # {}
                PROVE  \E i \in S : \A j \in S : j <= i
<1> DEFINE T == {n - j : j \in S}
<1>1. T \subseteq Nat
      OBVIOUS
<1>2. T # {}
      OBVIOUS
<1> HIDE DEF T
<1>3. PICK k \in T : \A m \in T : k <= m
      BY <1>1, <1>2, FirstOf
<1>4. PICK i \in S : k = n - i
      BY DEF T
<1>5. \A j \in S : n - i <= n - j
      BY <1>3, <1>4 DEF T
<1> QED BY <1>5
-----------------------------------------------------------------------------
(* Sizes *)

LEMMA SizeFacts == ASSUME NEW z \in Sizes
                   PROVE  Slots(z) \in 2 .. 100 /\ Capacity(z) \in 1 .. 99
<1>1. z \in [w : Nat \ {0}, h : Nat \ {0}]
  <2>1. \A i \in 1 .. Len(SmallSizes) : SmallSizes[i] \in [w : Nat \ {0}, h : Nat \ {0}]
        BY SizeAssumption, ElementOfSeq
  <2> QED BY <2>1, SizeAssumption DEF Sizes
<1>2. Slots(z) \in Nat
  <2>1. z.w \in Nat /\ z.h \in Nat
        BY <1>1
  <2> QED BY <2>1 DEF Slots
<1>3. Slots(z) >= 2 /\ Slots(z) <= 100
      BY SizeAssumption
<1> QED BY <1>2, <1>3 DEF Capacity

\* A page that is not of the largest size has room to spare for what is expected.
LEMMA SizeForFits == ASSUME NEW e \in Int
                     PROVE  /\ SizeFor(e) \in Sizes
                            /\ SizeFor(e) # LargestSize => e < Capacity(SizeFor(e))
<1> DEFINE fits == {i \in 1 .. Len(SmallSizes) : e < Capacity(SmallSizes[i])}
<1>1. CASE fits = {}
  <2>1. SizeFor(e) = LargestSize
        BY <1>1 DEF SizeFor
  <2> QED BY <2>1 DEF Sizes
<1>2. CASE fits # {}
  <2>1. fits \in SUBSET Nat
        OBVIOUS
  <2>2. \E i \in fits : \A j \in fits : i <= j
        BY <1>2, <2>1, FirstOf
  <2>3. PICK i \in fits : SizeFor(e) = SmallSizes[i]
        BY <1>2, <2>2 DEF SizeFor
  <2> QED BY <2>3 DEF Sizes
<1> QED BY <1>1, <1>2
LEMMA HasCapacity == ASSUME NEW p, p.size \in Sizes
                     PROVE  Capacity(p.size) \in Nat /\ Capacity(p.size) >= 1
<1>1. Capacity(p.size) \in 1 .. 99
      BY SizeFacts
<1> QED BY <1>1
LEMMA HasSlots == ASSUME NEW z \in Sizes
                  PROVE  Slots(z) \in Int /\ Slots(z) <= 100
<1>1. Slots(z) \in 2 .. 100
      BY SizeFacts
<1> QED BY <1>1
-----------------------------------------------------------------------------
(* Pages *)

SlotMaps == UNION {[S -> 0 .. 255] : S \in SUBSET Cards}
FaceMaps == UNION {[0 .. n -> Faces] : n \in Nat}
PageSet == [size : Sizes, slotOf : SlotMaps, shows : FaceMaps]

\* What is true of a page whatever was drawn on it.
Good(p) ==
  /\ p \in PageSet
  /\ p.shows \in [0 .. Slots(p.size) - 1 -> Faces]
  /\ DOMAIN p.slotOf \subseteq Cards /\ IsFiniteSet(DOMAIN p.slotOf)
  /\ p.slotOf \in [DOMAIN p.slotOf -> 0 .. Capacity(p.size) - 1]
  /\ Used(p) <= Capacity(p.size)
  /\ \A i \in 0 .. Slots(p.size) - 1 : p.shows[i] = Hidden <=> i = Slots(p.size) - 1

LEMMA GoodIsPage == ASSUME NEW p, Good(p)
                    PROVE  IsPage(p) /\ p.size \in Sizes /\ Used(p) \in Nat
<1>1. p.size \in Sizes
      BY DEF Good, PageSet
<1>2. Capacity(p.size) - 1 <= 98 /\ Capacity(p.size) \in Nat
      BY <1>1, SizeFacts
<1>3. \A c \in DOMAIN p.slotOf : p.slotOf[c] \in 0 .. 255
  <2>1. p.slotOf \in [DOMAIN p.slotOf -> 0 .. Capacity(p.size) - 1]
        BY DEF Good
  <2>2. \A c \in DOMAIN p.slotOf : p.slotOf[c] \in 0 .. Capacity(p.size) - 1
        BY <2>1
  <2> QED BY <1>2, <2>2
<1>4. Used(p) \in Nat
      BY FS_CardinalityType DEF Good, Used
<1> QED BY <1>1, <1>3, <1>4 DEF Good, IsPage

LEMMA NewPageIsGood == ASSUME NEW e \in Int
                       PROVE  /\ Good(NewPage(e))
                              /\ NewPage(e).size = SizeFor(e)
                              /\ DOMAIN NewPage(e).slotOf = {}
                              /\ Used(NewPage(e)) = 0
<1> DEFINE z == SizeFor(e)
           shows == [i \in 0 .. Slots(z) - 1 |-> IF i = Slots(z) - 1 THEN Hidden ELSE Blank]
           none == [c \in {} |-> 0]
<1>1. NewPage(e) = [size |-> z, slotOf |-> none, shows |-> shows]
      BY DEF NewPage
<1>2. z \in Sizes /\ Slots(z) \in 2 .. 100 /\ Capacity(z) \in 1 .. 99
      BY SizeForFits, SizeFacts
<1>3. none \in SlotMaps /\ DOMAIN none = {}
  <2>1. none \in [{} -> 0 .. 255]
        OBVIOUS
  <2> QED BY <2>1 DEF SlotMaps
<1>4. /\ shows \in [0 .. Slots(z) - 1 -> Faces]
      /\ \A i \in 0 .. Slots(z) - 1 : shows[i] = Hidden <=> i = Slots(z) - 1
      BY FaceAssumption DEF Faces
<1>5. shows \in FaceMaps
  <2>1. Slots(z) - 1 \in Nat
        BY <1>2
  <2> QED BY <1>4, <2>1 DEF FaceMaps
<1> HIDE DEF z, shows, none
<1>6. /\ NewPage(e).size = z /\ NewPage(e).slotOf = none /\ NewPage(e).shows = shows
      /\ NewPage(e) \in PageSet
      BY <1>1, <1>2, <1>3, <1>5 DEF PageSet
<1>7. Used(NewPage(e)) = 0 /\ IsFiniteSet(DOMAIN NewPage(e).slotOf)
      BY <1>3, <1>6, FS_EmptySet DEF Used
<1>8. none \in [DOMAIN none -> 0 .. Capacity(z) - 1]
      BY DEF none
<1>9. Good(NewPage(e))
  <2>1. NewPage(e).slotOf \in [DOMAIN NewPage(e).slotOf -> 0 .. Capacity(z) - 1]
        BY <1>6, <1>8
  <2>2. DOMAIN NewPage(e).slotOf \subseteq Cards
        BY <1>3, <1>6
  <2>3. Used(NewPage(e)) <= Capacity(z)
        BY <1>2, <1>7
  <2> QED BY <1>4, <1>6, <1>7, <2>1, <2>2, <2>3 DEF Good
<1> QED BY <1>3, <1>6, <1>7, <1>9 DEF z

\* Drawing a card on a page with room leaves the hidden face alone.
LEMMA DrawnIsGood == ASSUME NEW p, Good(p), ~IsFull(p), NEW c \in Cards
                     PROVE  /\ Good(Drawn(p, c))
                            /\ Drawn(p, c).size = p.size
                            /\ Drawn(p, c).shows = [p.shows EXCEPT ![Used(p)] = c]
                            /\ Drawn(p, c).slotOf = [x \in DOMAIN p.slotOf \cup {c} |->
                                                  IF x = c THEN Used(p) ELSE p.slotOf[x]]
                            /\ DOMAIN Drawn(p, c).slotOf = DOMAIN p.slotOf \cup {c}
                            /\ Used(Drawn(p, c)) <= Used(p) + 1
                            /\ c \notin DOMAIN p.slotOf => Used(Drawn(p, c)) = Used(p) + 1
<1> DEFINE z == p.size
           d == Drawn(p, c)
           shows == [p.shows EXCEPT ![Used(p)] = c]
           slotOf == [x \in DOMAIN p.slotOf \cup {c} |->
                        IF x = c THEN Used(p) ELSE p.slotOf[x]]
<1>1. z \in Sizes /\ Used(p) \in Nat
      BY GoodIsPage
<1>2. Slots(z) \in 2 .. 100 /\ Capacity(z) \in 1 .. 99 /\ Capacity(z) = Slots(z) - 1
      BY <1>1, SizeFacts DEF Capacity
<1>3. Used(p) < Capacity(z)
      BY <1>1, <1>2 DEF IsFull
<1>4. Used(p) % Capacity(z) = Used(p)
      BY <1>1, <1>2, <1>3
<1>5. d = [p EXCEPT !.shows = shows, !.slotOf = slotOf]
      BY <1>4 DEF Drawn
<1>6. /\ shows \in [0 .. Slots(z) - 1 -> Faces]
      /\ \A i \in 0 .. Slots(z) - 1 : shows[i] = Hidden <=> i = Slots(z) - 1
  <2>1. c # Hidden /\ c \in Faces
        BY FaceAssumption DEF Faces
  <2> QED BY <1>1, <1>2, <1>3, <2>1 DEF Good
<1>7. shows \in FaceMaps
  <2>1. Slots(z) - 1 \in Nat
        BY <1>2
  <2> QED BY <1>6, <2>1 DEF FaceMaps
<1>8. slotOf \in [DOMAIN p.slotOf \cup {c} -> 0 .. Capacity(z) - 1]
  <2>1. Used(p) \in 0 .. Capacity(z) - 1
        BY <1>1, <1>2, <1>3
  <2>2. p.slotOf \in [DOMAIN p.slotOf -> 0 .. Capacity(z) - 1]
        BY DEF Good
  <2>3. \A x \in DOMAIN p.slotOf : p.slotOf[x] \in 0 .. Capacity(z) - 1
        BY <2>2
  <2> QED BY <2>1, <2>3
<1>9. slotOf \in SlotMaps
  <2>1. slotOf \in [DOMAIN p.slotOf \cup {c} -> 0 .. 255]
        BY <1>2, <1>8
  <2>2. DOMAIN p.slotOf \cup {c} \in SUBSET Cards
        BY DEF Good
  <2> QED BY <2>1, <2>2 DEF SlotMaps
<1>10. DOMAIN slotOf = DOMAIN p.slotOf \cup {c}
       OBVIOUS
<1> HIDE DEF d, shows, slotOf
<1>11. p \in PageSet
       BY DEF Good
<1>12. d.size = z /\ d.shows = shows /\ d.slotOf = slotOf /\ d \in PageSet
       BY <1>5, <1>7, <1>9, <1>11 DEF PageSet
<1>13. /\ IsFiniteSet(DOMAIN slotOf)
       /\ Cardinality(DOMAIN slotOf) <= Used(p) + 1
       /\ c \notin DOMAIN p.slotOf => Cardinality(DOMAIN slotOf) = Used(p) + 1
  <2>1. IsFiniteSet(DOMAIN p.slotOf)
        BY DEF Good
  <2>2. /\ IsFiniteSet(DOMAIN p.slotOf \cup {c})
        /\ Cardinality(DOMAIN p.slotOf \cup {c}) =
             IF c \in DOMAIN p.slotOf THEN Used(p) ELSE Used(p) + 1
        BY <2>1, FS_AddElement DEF Used
  <2> QED BY <1>1, <1>10, <2>2
<1>14. Used(d) = Cardinality(DOMAIN slotOf) /\ Cardinality(DOMAIN slotOf) \in Nat
       BY <1>12, <1>13, FS_CardinalityType DEF Used
<1>15. Used(d) <= Capacity(z)
       BY <1>1, <1>2, <1>3, <1>13, <1>14
<1>16. DOMAIN slotOf \subseteq Cards
       BY <1>10 DEF Good
<1>17. Good(d)
       BY <1>6, <1>8, <1>10, <1>12, <1>13, <1>15, <1>16 DEF Good
<1>18. DOMAIN d.slotOf = DOMAIN p.slotOf \cup {c}
       BY <1>10, <1>12
<1> QED BY <1>12, <1>13, <1>14, <1>17, <1>18 DEF d, shows, slotOf
-----------------------------------------------------------------------------
(* The invariant for any deck *)

Left == Len(listing) - Cardinality(arrived)

StateInv ==
  /\ stage \in {"layout", "saving", "described", "failed"}
  /\ listing \in Listings
  /\ arrived \subseteq 1 .. Len(listing)
  /\ saved \in 0 .. Len(pages)
  /\ DOMAIN deckIds \subseteq Cards
  /\ \A c \in DOMAIN deckIds : deckIds[c] \in 0 .. U16 - 1

PagesInv == /\ pages \in Seq(PageSet)
            /\ \A i \in 1 .. Len(pages) : Good(pages[i])
            /\ Good(current)

\* The page at work has room for what is left, unless it is of the largest size.
RoomInv == stage = "layout" /\ current.size # LargestSize
             => Used(current) + Left <= Capacity(current.size)

IInv == StateInv /\ PagesInv /\ RoomInv /\ OnlyLargestOverflow

LEMMA Counts == ASSUME StateInv
                PROVE  /\ Len(listing) \in Nat
                       /\ IsFiniteSet(1 .. Len(listing))
                       /\ Cardinality(1 .. Len(listing)) = Len(listing)
                       /\ IsFiniteSet(arrived)
                       /\ Cardinality(arrived) \in 0 .. Len(listing)
                       /\ Left \in Nat
<1>1. Len(listing) \in Nat
      BY ListingAssumption, LenProperties DEF StateInv
<1>2. IsFiniteSet(1 .. Len(listing)) /\ Cardinality(1 .. Len(listing)) = Len(listing)
      BY <1>1, FS_Interval
<1>3. IsFiniteSet(arrived) /\ Cardinality(arrived) <= Len(listing)
      BY <1>2, FS_Subset DEF StateInv
<1>4. Cardinality(arrived) \in Nat
      BY <1>3, FS_CardinalityType
<1> QED BY <1>1, <1>2, <1>3, <1>4 DEF Left

\* What one arrival does to the counts.
LEMMA Arrival == ASSUME StateInv, NEW i \in 1 .. Len(listing), Place(i)
                 PROVE  /\ i \notin arrived
                        /\ Cardinality(arrived') = Cardinality(arrived) + 1
                        /\ Left \in Nat \ {0} /\ Left' = Left - 1
                        /\ listing[i] \in Cards
<1>1. i \notin arrived /\ arrived' = arrived \cup {i} /\ UNCHANGED <<stage, listing, saved, deckIds>>
      BY DEF Place, InFlight
<1>2. Cardinality(arrived') = Cardinality(arrived) + 1
      BY <1>1, Counts, FS_AddElement
<1>3. IsFiniteSet(arrived') /\ arrived' \subseteq 1 .. Len(listing)
      BY <1>1, Counts, FS_AddElement DEF StateInv
<1>4. Cardinality(arrived') <= Len(listing)
  <2>1. IsFiniteSet(1 .. Len(listing)) /\ Cardinality(1 .. Len(listing)) = Len(listing)
        BY Counts
  <2> QED BY <1>3, <2>1, FS_Subset
<1>5. Left \in Nat \ {0} /\ Left' = Left - 1
      BY <1>1, <1>2, <1>4, Counts DEF Left
<1>6. listing[i] \in Cards
      BY ListingAssumption, ElementOfSeq DEF StateInv
<1> QED BY <1>1, <1>2, <1>5, <1>6

LEMMA Begin == Init => IInv
<1> SUFFICES ASSUME Init PROVE IInv
    OBVIOUS
<1> USE DEF Init
<1>1. StateInv
      BY DEF StateInv
<1>2. Len(listing) \in Nat /\ Cardinality(arrived) = 0 /\ Left = Len(listing)
  <2>1. Len(listing) \in Nat
        BY ListingAssumption, LenProperties
  <2> QED BY <2>1, FS_EmptySet DEF Left
<1>3. PagesInv
      BY <1>2, NewPageIsGood DEF PagesInv
<1>4. RoomInv
  <2>1. current.size = SizeFor(Len(listing)) /\ Used(current) = 0
        BY <1>2, NewPageIsGood
  <2>2. SizeFor(Len(listing)) \in Sizes
        /\ (SizeFor(Len(listing)) # LargestSize => Len(listing) < Capacity(SizeFor(Len(listing))))
        BY <1>2, SizeForFits
  <2>3. Capacity(current.size) \in Nat
        BY <2>1, <2>2, HasCapacity
  <2> QED BY <1>2, <2>1, <2>2, <2>3 DEF RoomInv
<1>5. OnlyLargestOverflow
      BY DEF OnlyLargestOverflow
<1> QED BY <1>1, <1>3, <1>4, <1>5 DEF IInv

\* A full page with a card to come is of the largest size.
LEMMA FullIsLargest == ASSUME IInv, stage = "layout", IsFull(current), Left # 0
                       PROVE  current.size = LargestSize /\ Used(current) = Capacity(LargestSize)
<1>1. Used(current) <= Capacity(current.size) /\ Used(current) \in Nat
      BY GoodIsPage DEF IInv, PagesInv, Good
<1>2. Capacity(current.size) \in Nat
  <2>1. current.size \in Sizes
        BY GoodIsPage DEF IInv, PagesInv
  <2> QED BY <2>1, HasCapacity
<1>3. Left \in Nat
      BY Counts DEF IInv
<1> QED BY <1>1, <1>2, <1>3 DEF IInv, RoomInv, IsFull

LEMMA PlaceKeeps == ASSUME IInv, NEW i \in 1 .. Len(listing), Place(i)
                    PROVE  IInv'
<1> DEFINE c == listing[i]
<1>a. /\ i \notin arrived /\ Left \in Nat \ {0} /\ Left' = Left - 1 /\ c \in Cards
      BY Arrival DEF IInv
<1>s. /\ stage = "layout" /\ stage' = "layout" /\ listing' = listing
      /\ arrived' = arrived \cup {i} /\ UNCHANGED <<saved, deckIds>>
      BY DEF Place
<1>p. pages \in Seq(PageSet) /\ (\A k \in 1 .. Len(pages) : Good(pages[k])) /\ Good(current)
      BY DEF IInv, PagesInv
<1>l. Len(pages) \in Nat
      BY <1>p, LenProperties
<1>1. CASE IsFull(current)
  <2> DEFINE n == NewPage(Left - 1)
  <2>1. pages' = Append(pages, current) /\ current' = Drawn(n, c)
        BY <1>1 DEF Place, Left
  <2>2. Good(n) /\ Used(n) = 0 /\ n.size = SizeFor(Left - 1) /\ DOMAIN n.slotOf = {}
        BY <1>a, NewPageIsGood
  <2>3. n.size \in Sizes /\ (n.size # LargestSize => Left - 1 < Capacity(n.size))
        BY <1>a, <2>2, SizeForFits
  <2> HIDE DEF n
  <2>4. Capacity(n.size) \in Nat /\ Capacity(n.size) >= 1
        BY <2>3, HasCapacity
  <2>5. ~ IsFull(n)
        BY <2>2, <2>4 DEF IsFull
  <2>6. Good(current') /\ current'.size = n.size /\ Used(current') <= 1
    <3>1. Good(Drawn(n, c)) /\ Drawn(n, c).size = n.size /\ Used(Drawn(n, c)) <= Used(n) + 1
          BY <1>a, <2>2, <2>5, DrawnIsGood
    <3>2. Used(Drawn(n, c)) <= 1
          BY <2>2, <3>1
    <3> QED BY <2>1, <3>1, <3>2
  <2>7. Used(current') \in Nat
        BY <2>6, GoodIsPage
  <2>8. current \in PageSet
        BY <1>p DEF Good
  <2>9. /\ pages' \in Seq(PageSet) /\ Len(pages') = Len(pages) + 1
        /\ \A k \in 1 .. Len(pages) : pages'[k] = pages[k]
        /\ pages'[Len(pages) + 1] = current
        BY <1>p, <2>1, <2>8, AppendProperties
  <2>10. StateInv'
        BY <1>s, <1>l, <2>9 DEF IInv, StateInv
  <2>11. PagesInv'
    <3>1. ASSUME NEW k \in 1 .. Len(pages') PROVE Good(pages'[k])
          BY <1>p, <1>l, <2>9
    <3> QED BY <2>6, <2>9, <3>1 DEF PagesInv
  <2>12. RoomInv'
    <3>1. Used(current)' = Used(current')
          OBVIOUS
    <3> QED BY <1>a, <2>3, <2>4, <2>6, <2>7 DEF RoomInv
  <2>13. OnlyLargestOverflow'
    <3>1. current.size = LargestSize /\ Used(current) = Capacity(LargestSize)
          BY <1>1, <1>a, <1>s, FullIsLargest
    <3>2. ASSUME NEW k \in 1 .. Len(pages')
          PROVE  pages'[k].size = LargestSize /\ Used(pages'[k]) = Capacity(LargestSize)
          BY <1>s, <1>l, <2>9, <3>1 DEF IInv, OnlyLargestOverflow
    <3> QED BY <3>2 DEF OnlyLargestOverflow
  <2> QED BY <2>10, <2>11, <2>12, <2>13 DEF IInv
<1>2. CASE ~ IsFull(current)
  <2>1. current' = Drawn(current, c) /\ pages' = pages
        BY <1>2 DEF Place
  <2>2. Good(current') /\ current'.size = current.size /\ Used(current') <= Used(current) + 1
        BY <1>2, <1>a, <1>p, <2>1, DrawnIsGood
  <2>3. Used(current) \in Nat /\ Used(current') \in Nat /\ Capacity(current.size) \in Nat
    <3>1. Used(current) \in Nat /\ current.size \in Sizes
          BY <1>p, GoodIsPage
    <3>2. Used(current') \in Nat
          BY <2>2, GoodIsPage
    <3> QED BY <3>1, <3>2, HasCapacity
  <2>4. StateInv'
        BY <1>s, <2>1 DEF IInv, StateInv
  <2>5. PagesInv'
        BY <1>p, <2>1, <2>2 DEF PagesInv
  <2>6. RoomInv'
        BY <1>a, <1>s, <2>2, <2>3 DEF IInv, RoomInv
  <2>7. OnlyLargestOverflow'
        BY <1>s, <2>1 DEF IInv, OnlyLargestOverflow
  <2> QED BY <2>4, <2>5, <2>6, <2>7 DEF IInv
<1> QED BY <1>1, <1>2
LEMMA FinishKeeps == ASSUME IInv, FinishLayout
                     PROVE  IInv'
<1>p. pages \in Seq(PageSet) /\ (\A k \in 1 .. Len(pages) : Good(pages[k])) /\ Good(current)
      BY DEF IInv, PagesInv
<1>l. Len(pages) \in Nat /\ saved \in 0 .. Len(pages)
      BY <1>p, LenProperties DEF IInv, StateInv
<1>s. /\ stage = "layout" /\ stage' = "saving"
      /\ UNCHANGED <<listing, arrived, current, saved, deckIds>>
      BY DEF FinishLayout
<1>1. /\ pages' \in Seq(PageSet) /\ Len(pages') \in {Len(pages), Len(pages) + 1}
      /\ \A k \in 1 .. Len(pages) : pages'[k] = pages[k]
      /\ Len(pages') # Len(pages) => pages'[Len(pages) + 1] = current
  <2>1. current \in PageSet
        BY <1>p DEF Good
  <2>2. CASE pages' = pages
        BY <1>p, <1>l, <2>2
  <2>3. CASE pages' = Append(pages, current)
        BY <1>p, <1>l, <2>1, <2>3, AppendProperties
  <2> QED BY <2>2, <2>3 DEF FinishLayout
<1>2. StateInv'
      BY <1>s, <1>l, <1>1 DEF IInv, StateInv
<1>3. PagesInv'
  <2>1. ASSUME NEW k \in 1 .. Len(pages') PROVE Good(pages'[k])
        BY <1>p, <1>l, <1>1
  <2> QED BY <1>p, <1>s, <1>1, <2>1 DEF PagesInv
<1>4. RoomInv'
      BY <1>s DEF RoomInv
<1>5. OnlyLargestOverflow'
  <2>1. ASSUME NEW k \in 1 .. Len(pages'), k < Len(pages')
        PROVE  pages'[k].size = LargestSize /\ Used(pages'[k]) = Capacity(LargestSize)
    <3>1. k \in 1 .. Len(pages) /\ pages'[k] = pages[k]
          BY <1>l, <1>1, <2>1
    <3> QED BY <1>s, <3>1 DEF IInv, OnlyLargestOverflow
  <2> QED BY <1>s, <2>1 DEF OnlyLargestOverflow
<1> QED BY <1>2, <1>3, <1>4, <1>5 DEF IInv

\* The page that decides which face a card has.
LEMMA LastPage == ASSUME PagesInv, NEW c \in UNION {DOMAIN pages[p].slotOf : p \in 1 .. Len(pages)}
                  PROVE  LET on == {p \in 1 .. Len(pages) : c \in DOMAIN pages[p].slotOf}
                         IN  (CHOOSE p \in on : \A q \in on : q <= p) \in on
<1> DEFINE on == {p \in 1 .. Len(pages) : c \in DOMAIN pages[p].slotOf}
<1>1. Len(pages) \in Nat
      BY LenProperties DEF PagesInv
<1>2. on \in SUBSET (1 .. Len(pages)) /\ on # {}
      OBVIOUS
<1>3. \E p \in on : \A q \in on : q <= p
      BY <1>1, <1>2, LastOf
<1> QED BY <1>3

LEMMA U16Is == U16 = 65536
BY DEF U16

LEMMA ModFits == ASSUME NEW x \in Int
                 PROVE  x % 65536 \in Int /\ x % 65536 >= 0 /\ x % 65536 < 65536
OBVIOUS

LEMMA DeckIdFits == ASSUME NEW p \in Int, NEW slot \in Int
                    PROVE  DeckId(p, slot) \in 0 .. U16 - 1
<1> DEFINE x == 100 * p + slot
           id == DeckId(p, slot)
<1>1. x \in Int
      OBVIOUS
<1>2. id = x % 65536
      BY DEF DeckId, U16
<1> HIDE DEF x, id
<1>3. id \in Int /\ id >= 0 /\ id < 65536
      BY <1>1, <1>2, ModFits
<1>4. id < U16 /\ U16 \in Int
      BY <1>3, U16Is
<1>5. id \in 0 .. U16 - 1
      BY <1>3, <1>4
<1> QED BY <1>5 DEF id

LEMMA DescribeKeeps == ASSUME IInv, Describe
                       PROVE  IInv'
<1>p. pages \in Seq(PageSet) /\ (\A k \in 1 .. Len(pages) : Good(pages[k]))
      BY DEF IInv, PagesInv
<1>s. stage' = "described" /\ UNCHANGED <<listing, arrived, pages, current, saved>>
      BY DEF Describe
<1>1. DOMAIN deckIds' = UNION {DOMAIN pages[p].slotOf : p \in 1 .. Len(pages)}
      BY DEF Describe
<1>2. DOMAIN deckIds' \subseteq Cards
      BY <1>p, <1>1 DEF Good
<1>3. ASSUME NEW c \in DOMAIN deckIds' PROVE deckIds'[c] \in 0 .. U16 - 1
  <2> DEFINE on == {p \in 1 .. Len(pages) : c \in DOMAIN pages[p].slotOf}
             last == CHOOSE p \in on : \A q \in on : q <= p
  <2>1. last \in on
        BY <1>1, <1>3, LastPage DEF IInv
  <2>2. deckIds'[c] = DeckId(last, pages[last].slotOf[c])
        BY <1>1, <1>3 DEF Describe
  <2>3. last \in Int /\ last \in 1 .. Len(pages) /\ c \in DOMAIN pages[last].slotOf
        BY <2>1
  <2> HIDE DEF on, last
  <2>4. pages[last].slotOf[c] \in Int
    <3>1. IsPage(pages[last])
          BY <1>p, <2>3, GoodIsPage
    <3>2. pages[last].slotOf[c] \in 0 .. 255
          BY <2>3, <3>1 DEF IsPage
    <3> QED BY <3>2
  <2> QED BY <2>2, <2>3, <2>4, DeckIdFits
<1>4. StateInv'
      BY <1>s, <1>2, <1>3 DEF IInv, StateInv
<1>5. PagesInv' /\ RoomInv' /\ OnlyLargestOverflow'
      BY <1>s DEF IInv, PagesInv, RoomInv, OnlyLargestOverflow
<1> QED BY <1>4, <1>5 DEF IInv

LEMMA StepKeeps == IInv /\ [Next]_vars => IInv'
<1> SUFFICES ASSUME IInv, [Next]_vars PROVE IInv'
    OBVIOUS
<1>1. ASSUME NEW i \in 1 .. Len(listing), Place(i) PROVE IInv'
      BY <1>1, PlaceKeeps
<1>2. CASE FinishLayout
      BY <1>2, FinishKeeps
<1>3. CASE SavePage
  <2>1. Len(pages) \in Nat
        BY LenProperties DEF IInv, PagesInv
  <2> QED BY <1>3, <2>1 DEF SavePage, IInv, StateInv, PagesInv, RoomInv, OnlyLargestOverflow
<1>4. CASE Describe
      BY <1>4, DescribeKeeps
<1>5. CASE Fail
      BY <1>5 DEF Fail, IInv, StateInv, PagesInv, RoomInv, OnlyLargestOverflow
<1>6. CASE Quiet \/ UNCHANGED vars
      BY <1>6 DEF Quiet, vars, IInv, StateInv, PagesInv, RoomInv, OnlyLargestOverflow, Left
<1> QED BY <1>1, <1>2, <1>3, <1>4, <1>5, <1>6 DEF Next

LEMMA Inductive == Spec => []IInv
BY Begin, StepKeeps, PTL DEF Spec
-----------------------------------------------------------------------------
\* The variables have their types: a page is of one of the sizes and its slots fit a u8.
THEOREM TypeCorrect == Spec => []TypeOK
<1>1. IInv => TypeOK
  <2> SUFFICES ASSUME IInv PROVE TypeOK
      OBVIOUS
  <2>1. \A i \in 1 .. Len(pages) : IsPage(pages[i])
        BY GoodIsPage DEF IInv, PagesInv
  <2>2. IsPage(current)
        BY GoodIsPage DEF IInv, PagesInv
  <2> QED BY <2>1, <2>2 DEF IInv, StateInv, TypeOK
<1> QED BY <1>1, Inductive, PTL

\* Whatever the deck and the sizes, the slot that the game shows for a hidden card never
\* shows a card of the deck (Page::draw_card_at, Page::new).
THEOREM HiddenFaceNeverCovered == Spec => []HiddenFaceStays
<1>1. IInv => HiddenFaceStays
  <2> SUFFICES ASSUME IInv, NEW p \in AllPages
               PROVE  \A i \in DOMAIN p.shows : p.shows[i] = Hidden <=> i = Slots(p.size) - 1
      BY DEF HiddenFaceStays
  <2>1. Good(p)
        BY DEF IInv, PagesInv, AllPages
  <2> QED BY <2>1 DEF Good
<1> QED BY <1>1, Inductive, PTL

\* Whatever the deck and the sizes, a page is only followed by another if it is full and
\* of the largest size (Page::new, make_pages).
THEOREM NoPageTooSmall == Spec => []OnlyLargestOverflow
<1>1. IInv => OnlyLargestOverflow
      BY DEF IInv
<1> QED BY <1>1, Inductive, PTL
-----------------------------------------------------------------------------
(* The invariant for decks that list no card twice *)

NoCardTwice == \A i, j \in 1 .. Len(listing) : listing[i] = listing[j] => i = j

\* Every card of a page is shown on a slot of its own.
Shown(p) == \A c \in DOMAIN p.slotOf : p.slotOf[c] < Used(p) /\ p.shows[p.slotOf[c]] = c

OnAPage(c) == \E p \in 1 .. Len(pages) : c \in DOMAIN pages[p].slotOf

\* There are not more pages than cards.
CountInv ==
  /\ Len(pages) <= Len(listing)
  /\ stage = "layout" => /\ Used(current) <= Cardinality(arrived)
                         /\ IF arrived = {} THEN pages = <<>>
                            ELSE Len(pages) < Cardinality(arrived)

FaceInv ==
  /\ \A p \in 1 .. Len(pages) : Shown(pages[p])
  /\ Shown(current)
  /\ stage = "layout" =>
       /\ \A c \in DOMAIN current.slotOf : \E i \in arrived : listing[i] = c
       /\ \A i \in arrived : listing[i] \in DOMAIN current.slotOf \/ OnAPage(listing[i])
  /\ stage \in {"saving", "described"} => \A i \in 1 .. Len(listing) : OnAPage(listing[i])
  /\ stage = "described" =>
       /\ \A i \in 1 .. Len(listing) : listing[i] \in DOMAIN deckIds
       /\ \A c \in DOMAIN deckIds : \E p \in 1 .. Len(pages) :
            c \in DOMAIN pages[p].slotOf /\ deckIds[c] = DeckId(p, pages[p].slotOf[c])

DistinctInv == CountInv /\ (NoCardTwice => FaceInv)

LEMMA DrawnHolds == ASSUME NEW p, Good(p), ~IsFull(p), NEW c \in Cards
                    PROVE  /\ DOMAIN Drawn(p, c).slotOf = DOMAIN p.slotOf \cup {c}
                           /\ Used(p) \in Nat /\ Used(Drawn(p, c)) \in Nat
                           /\ Used(Drawn(p, c)) <= Used(p) + 1
<1>1. Good(Drawn(p, c)) /\ Used(Drawn(p, c)) <= Used(p) + 1
      BY DrawnIsGood
<1>2. DOMAIN Drawn(p, c).slotOf = DOMAIN p.slotOf \cup {c}
      BY DrawnIsGood
<1>3. Used(p) \in Nat
      BY GoodIsPage
<1>4. Used(Drawn(p, c)) \in Nat
      BY <1>1, GoodIsPage
<1> QED BY <1>1, <1>2, <1>3, <1>4

LEMMA DrawnIsShown == ASSUME NEW p, Good(p), ~IsFull(p), Shown(p),
                             NEW c \in Cards, c \notin DOMAIN p.slotOf
                      PROVE  Shown(Drawn(p, c))
<1> DEFINE d == Drawn(p, c)
<1>1. /\ d.shows = [p.shows EXCEPT ![Used(p)] = c]
      /\ d.slotOf = [x \in DOMAIN p.slotOf \cup {c} |->
                       IF x = c THEN Used(p) ELSE p.slotOf[x]]
      /\ Used(d) = Used(p) + 1
      BY DrawnIsGood
<1>2. Used(p) \in Nat /\ Used(p) < Slots(p.size) - 1 /\ Slots(p.size) \in Int
  <2>1. Used(p) \in Nat /\ p.size \in Sizes
        BY GoodIsPage
  <2>2. Slots(p.size) \in 2 .. 100
        BY <2>1, SizeFacts
  <2> QED BY <2>1, <2>2 DEF IsFull, Capacity
<1>3. DOMAIN p.shows = 0 .. Slots(p.size) - 1
      BY DEF Good
<1> HIDE DEF d
<1>4. ASSUME NEW x \in DOMAIN d.slotOf
      PROVE  d.slotOf[x] < Used(d) /\ d.shows[d.slotOf[x]] = x
  <2>1. CASE x = c
        BY <1>1, <1>2, <1>3, <2>1
  <2>2. CASE x # c
    <3>1. x \in DOMAIN p.slotOf /\ d.slotOf[x] = p.slotOf[x]
          BY <1>1, <2>2
    <3>2. p.slotOf[x] < Used(p) /\ p.shows[p.slotOf[x]] = x /\ p.slotOf[x] \in Int
          /\ p.slotOf[x] >= 0
      <4>1. p.slotOf[x] \in 0 .. Capacity(p.size) - 1
            BY <3>1 DEF Good
      <4> QED BY <3>1, <4>1 DEF Shown
    <3> QED BY <1>1, <1>2, <1>3, <3>1, <3>2
  <2> QED BY <2>1, <2>2
<1> QED BY <1>4 DEF Shown, d

LEMMA NewPageIsShown == ASSUME NEW e \in Int
                        PROVE  Shown(NewPage(e))
<1>1. DOMAIN NewPage(e).slotOf = {}
      BY NewPageIsGood
<1> QED BY <1>1 DEF Shown

LEMMA DistinctBegin == Init => DistinctInv
<1> SUFFICES ASSUME Init PROVE DistinctInv
    OBVIOUS
<1>1. Len(listing) \in Nat
      BY Begin, Counts DEF IInv
<1>2. Shown(current) /\ DOMAIN current.slotOf = {}
      BY <1>1, NewPageIsShown, NewPageIsGood DEF Init
<1>3. pages = <<>> /\ Len(pages) = 0 /\ arrived = {} /\ stage = "layout"
      BY DEF Init
<1>4. Used(current) = 0 /\ Cardinality(arrived) = 0
      BY <1>1, <1>3, NewPageIsGood, FS_EmptySet DEF Init
<1>5. CountInv
      BY <1>1, <1>3, <1>4 DEF CountInv
<1>6. FaceInv
      BY <1>2, <1>3 DEF FaceInv
<1> QED BY <1>5, <1>6 DEF DistinctInv

LEMMA DistinctPlace == ASSUME IInv, DistinctInv, NEW i \in 1 .. Len(listing), Place(i)
                       PROVE  DistinctInv'
<1> DEFINE c == listing[i]
<1>a. /\ i \notin arrived /\ Left \in Nat \ {0} /\ c \in Cards
      /\ Cardinality(arrived') = Cardinality(arrived) + 1 /\ Left' = Left - 1
      BY Arrival DEF IInv
<1>s. /\ stage = "layout" /\ stage' = "layout" /\ listing' = listing
      /\ arrived' = arrived \cup {i} /\ UNCHANGED <<saved, deckIds>>
      BY DEF Place
<1>p. pages \in Seq(PageSet) /\ Good(current) /\ current \in PageSet
      BY DEF IInv, PagesInv, Good
<1>l. Len(pages) \in Nat /\ Cardinality(arrived) \in 0 .. Len(listing) /\ Len(listing) \in Nat
      BY <1>p, LenProperties, Counts DEF IInv
<1>g. \/ /\ IsFull(current)
         /\ current' = Drawn(NewPage(Left - 1), c)
         /\ pages' \in Seq(PageSet) /\ Len(pages') = Len(pages) + 1
         /\ \A k \in 1 .. Len(pages) : pages'[k] = pages[k]
         /\ pages'[Len(pages) + 1] = current
      \/ ~ IsFull(current) /\ current' = Drawn(current, c) /\ pages' = pages
      BY <1>p, AppendProperties DEF Place, Left
<1>f. IsFull(current) => arrived # {}
  <2>1. Used(current) \in Nat /\ current.size \in Sizes
        BY <1>p, GoodIsPage
  <2>2. Capacity(current.size) \in Nat /\ Capacity(current.size) >= 1
        BY <2>1, HasCapacity
  <2>3. arrived = {} => Cardinality(arrived) = 0
        BY FS_EmptySet
  <2> QED BY <1>s, <2>1, <2>2, <2>3 DEF DistinctInv, CountInv, IsFull
<1>n. Good(NewPage(Left - 1)) /\ Shown(NewPage(Left - 1)) /\ ~ IsFull(NewPage(Left - 1))
      /\ Used(NewPage(Left - 1)) = 0 /\ DOMAIN NewPage(Left - 1).slotOf = {}
  <2> DEFINE n == NewPage(Left - 1)
  <2>1. Good(n) /\ Shown(n) /\ Used(n) = 0 /\ DOMAIN n.slotOf = {}
        BY <1>a, NewPageIsGood, NewPageIsShown
  <2>2. Capacity(n.size) \in Nat /\ Capacity(n.size) >= 1
    <3>1. n.size \in Sizes
          BY <2>1, GoodIsPage
    <3> QED BY <3>1, HasCapacity
  <2> QED BY <2>1, <2>2 DEF IsFull
<1>1. CountInv'
  <2>1. Cardinality(arrived') <= Len(listing) /\ arrived' # {}
    <3>1. Len(listing) - Cardinality(arrived) \in Nat \ {0}
          BY <1>a DEF Left
    <3> QED BY <1>a, <1>s, <1>l, <3>1
  <2>2. Used(current') <= Cardinality(arrived')
    <3>1. CASE IsFull(current)
      <4>1. /\ Used(Drawn(NewPage(Left - 1), c)) <= Used(NewPage(Left - 1)) + 1
            /\ Used(Drawn(NewPage(Left - 1), c)) \in Nat
            BY <1>a, <1>n, DrawnHolds
      <4> QED BY <1>a, <1>g, <1>l, <1>n, <3>1, <4>1
    <3>2. CASE ~ IsFull(current)
      <4>1. Used(Drawn(current, c)) <= Used(current) + 1
            BY <1>a, <1>p, <3>2, DrawnIsGood
      <4>2. Used(current) \in Nat /\ Used(Drawn(current, c)) \in Int
            BY <1>a, <1>p, <3>2, DrawnHolds
      <4>3. Used(current) <= Cardinality(arrived)
            BY <1>s DEF DistinctInv, CountInv
      <4> QED BY <1>a, <1>g, <1>l, <3>2, <4>1, <4>2, <4>3
    <3> QED BY <3>1, <3>2
  <2>3. Len(pages') < Cardinality(arrived')
    <3>1. CASE arrived = {}
      <4>1. Len(pages) = 0 /\ ~ IsFull(current)
            BY <1>s, <1>f, <3>1 DEF DistinctInv, CountInv
      <4> QED BY <1>a, <1>g, <1>l, <4>1
    <3>2. CASE arrived # {}
      <4>1. Len(pages) < Cardinality(arrived)
            BY <1>s, <3>2 DEF DistinctInv, CountInv
      <4> QED BY <1>a, <1>g, <1>l, <4>1
    <3> QED BY <3>1, <3>2
  <2>4. Len(pages') \in Nat /\ Cardinality(arrived') \in Nat
        BY <1>a, <1>g, <1>l
  <2> QED BY <1>s, <1>l, <2>1, <2>2, <2>3, <2>4 DEF CountInv
<1>2. ASSUME NoCardTwice' PROVE FaceInv'
  <2>1. NoCardTwice /\ FaceInv
        BY <1>s, <1>2 DEF NoCardTwice, DistinctInv
  <2>2. c \notin DOMAIN current.slotOf
    <3>1. \A x \in DOMAIN current.slotOf : \E k \in arrived : listing[k] = x
          BY <1>s, <2>1 DEF FaceInv
    <3>2. arrived \subseteq 1 .. Len(listing)
          BY DEF IInv, StateInv
    <3> QED BY <1>a, <2>1, <3>1, <3>2 DEF NoCardTwice
  <2>3. /\ Shown(current')
        /\ c \in DOMAIN current'.slotOf
        /\ DOMAIN current'.slotOf \subseteq {c} \cup DOMAIN current.slotOf
        /\ \A x \in DOMAIN current.slotOf : IsFull(current) \/ x \in DOMAIN current'.slotOf
    <3>1. CASE IsFull(current)
      <4> DEFINE n == NewPage(Left - 1)
      <4>1. Shown(Drawn(n, c))
            BY <1>a, <1>n, DrawnIsShown
      <4>2. DOMAIN Drawn(n, c).slotOf = {c}
            BY <1>a, <1>n, DrawnHolds
      <4> QED BY <1>g, <3>1, <4>1, <4>2
    <3>2. CASE ~ IsFull(current)
      <4>1. Shown(Drawn(current, c))
            BY <1>a, <1>p, <2>1, <2>2, <3>2, DrawnIsShown DEF FaceInv
      <4>2. DOMAIN Drawn(current, c).slotOf = DOMAIN current.slotOf \cup {c}
            BY <1>a, <1>p, <3>2, DrawnHolds
      <4> QED BY <1>g, <3>2, <4>1, <4>2
    <3> QED BY <3>1, <3>2
  <2>4. \A p \in 1 .. Len(pages') : Shown(pages'[p])
        BY <1>g, <1>l, <2>1 DEF FaceInv
  <2>5. \A x \in DOMAIN current'.slotOf : \E k \in arrived' : listing[k] = x
        BY <1>s, <2>1, <2>3 DEF FaceInv
  <2> DEFINE After(x) == \E p \in 1 .. Len(pages') : x \in DOMAIN pages'[p].slotOf
  <2>6. \A x : OnAPage(x) => After(x)
        BY <1>g, <1>l DEF OnAPage
  <2>7. ASSUME NEW k \in arrived'
        PROVE  listing[k] \in DOMAIN current'.slotOf \/ After(listing[k])
    <3>1. CASE k = i
          BY <2>3, <3>1
    <3>2. CASE k \in arrived /\ IsFull(current)
      <4>1. listing[k] \in DOMAIN current.slotOf \/ OnAPage(listing[k])
            BY <1>s, <2>1, <3>2 DEF FaceInv
      <4>2. listing[k] \in DOMAIN current.slotOf => After(listing[k])
            BY <1>g, <1>l, <3>2 DEF OnAPage
      <4> QED BY <2>6, <4>1, <4>2
    <3>3. CASE k \in arrived /\ ~ IsFull(current)
      <4>1. listing[k] \in DOMAIN current.slotOf \/ OnAPage(listing[k])
            BY <1>s, <2>1, <3>3 DEF FaceInv
      <4> QED BY <2>3, <2>6, <3>3, <4>1
    <3> QED BY <1>s, <3>1, <3>2, <3>3
  <2>8. \A k \in arrived' : listing[k] \in DOMAIN current'.slotOf \/ After(listing[k])
        BY <1>s, <2>7
  <2> QED BY <1>s, <2>3, <2>4, <2>5, <2>8 DEF FaceInv, OnAPage
<1> QED BY <1>1, <1>2 DEF DistinctInv

LEMMA DistinctFinish == ASSUME IInv, DistinctInv, FinishLayout
                        PROVE  DistinctInv'
<1>p. pages \in Seq(PageSet) /\ Good(current) /\ current \in PageSet
      BY DEF IInv, PagesInv, Good
<1>l. /\ Len(pages) \in Nat /\ Len(listing) \in Nat
      /\ arrived = 1 .. Len(listing) /\ Cardinality(arrived) = Len(listing) /\ Len(listing) # 0
  <2>1. listing \in Seq(Cards) /\ listing # <<>>
        BY ListingAssumption DEF FinishLayout, IInv, StateInv
  <2> QED BY <1>p, <2>1, LenProperties, EmptySeq, Counts DEF FinishLayout, IInv
<1>s. /\ stage = "layout" /\ stage' = "saving"
      /\ UNCHANGED <<listing, arrived, current, saved, deckIds>>
      BY DEF FinishLayout
<1>g. /\ Len(pages') \in {Len(pages), Len(pages) + 1}
      /\ \A k \in 1 .. Len(pages) : pages'[k] = pages[k]
      /\ Len(pages') # Len(pages) => pages'[Len(pages) + 1] = current
      /\ Used(current) > 0 => Len(pages') = Len(pages) + 1
  <2>1. CASE Used(current) > 0
    <3>1. pages' = Append(pages, current)
          BY <2>1 DEF FinishLayout
    <3> QED BY <1>p, <1>l, <2>1, <3>1, AppendProperties
  <2>2. CASE ~ (Used(current) > 0)
        BY <1>l, <2>2 DEF FinishLayout
  <2> QED BY <2>1, <2>2
<1>1. CountInv'
  <2>1. Len(pages) < Cardinality(arrived)
    <3>1. arrived # {}
          BY <1>l
    <3> QED BY <1>s, <3>1 DEF DistinctInv, CountInv
  <2> QED BY <1>s, <1>l, <1>g, <2>1 DEF CountInv
<1>2. ASSUME NoCardTwice' PROVE FaceInv'
  <2>1. NoCardTwice /\ FaceInv
        BY <1>s, <1>2 DEF NoCardTwice, DistinctInv
  <2>2. \A p \in 1 .. Len(pages') : Shown(pages'[p])
        BY <1>g, <1>l, <2>1 DEF FaceInv
  <2>3. Shown(current')
        BY <1>s, <2>1 DEF FaceInv
  <2> DEFINE After(x) == \E p \in 1 .. Len(pages') : x \in DOMAIN pages'[p].slotOf
  <2>4. DOMAIN current.slotOf # {} => Used(current) > 0
    <3>1. IsFiniteSet(DOMAIN current.slotOf)
          BY <1>p DEF Good
    <3>2. Used(current) = 0 <=> DOMAIN current.slotOf = {}
          BY <3>1, FS_EmptySet DEF Used
    <3>3. Used(current) \in Nat
          BY <1>p, GoodIsPage
    <3> QED BY <3>2, <3>3
  <2>5. ASSUME NEW i \in 1 .. Len(listing) PROVE After(listing[i])
    <3>1. listing[i] \in DOMAIN current.slotOf \/ OnAPage(listing[i])
          BY <1>s, <1>l, <2>1 DEF FaceInv
    <3>2. CASE listing[i] \in DOMAIN current.slotOf
      <4>1. Len(pages') = Len(pages) + 1 /\ pages'[Len(pages) + 1] = current
            BY <1>g, <1>l, <2>4, <3>2
      <4>2. Len(pages) + 1 \in 1 .. Len(pages')
            BY <1>l, <4>1
      <4> QED BY <3>2, <4>1, <4>2
    <3>3. CASE OnAPage(listing[i])
          BY <1>g, <1>l, <3>3 DEF OnAPage
    <3> QED BY <3>1, <3>2, <3>3
  <2> QED BY <1>s, <2>2, <2>3, <2>5 DEF FaceInv, OnAPage
<1> QED BY <1>1, <1>2 DEF DistinctInv

LEMMA DistinctDescribe == ASSUME IInv, DistinctInv, Describe
                          PROVE  DistinctInv'
<1>s. stage = "saving" /\ stage' = "described" /\ UNCHANGED <<listing, arrived, pages, current, saved>>
      BY DEF Describe
<1>1. CountInv'
      BY <1>s DEF DistinctInv, CountInv
<1>2. ASSUME NoCardTwice' PROVE FaceInv'
  <2>1. NoCardTwice /\ FaceInv
        BY <1>s, <1>2 DEF NoCardTwice, DistinctInv
  <2>2. DOMAIN deckIds' = UNION {DOMAIN pages[p].slotOf : p \in 1 .. Len(pages)}
        BY DEF Describe
  <2>3. \A i \in 1 .. Len(listing) : listing[i] \in DOMAIN deckIds'
        BY <1>s, <2>1, <2>2 DEF FaceInv, OnAPage
  <2>4. ASSUME NEW c \in DOMAIN deckIds'
        PROVE  \E p \in 1 .. Len(pages) :
                 c \in DOMAIN pages[p].slotOf /\ deckIds'[c] = DeckId(p, pages[p].slotOf[c])
    <3> DEFINE on == {p \in 1 .. Len(pages) : c \in DOMAIN pages[p].slotOf}
               last == CHOOSE p \in on : \A q \in on : q <= p
    <3>1. last \in on
          BY <2>2, <2>4, LastPage DEF IInv
    <3>2. deckIds'[c] = DeckId(last, pages[last].slotOf[c])
          BY <2>2, <2>4 DEF Describe
    <3> QED BY <3>1, <3>2
  <2> QED BY <1>s, <2>1, <2>3, <2>4 DEF FaceInv, OnAPage
<1> QED BY <1>1, <1>2 DEF DistinctInv

LEMMA DistinctKept == IInv /\ DistinctInv /\ [Next]_vars => DistinctInv'
<1> SUFFICES ASSUME IInv, DistinctInv, [Next]_vars PROVE DistinctInv'
    OBVIOUS
<1>1. ASSUME NEW i \in 1 .. Len(listing), Place(i) PROVE DistinctInv'
      BY <1>1, DistinctPlace
<1>2. CASE FinishLayout
      BY <1>2, DistinctFinish
<1>3. CASE SavePage
      BY <1>3 DEF SavePage, DistinctInv, CountInv, FaceInv, NoCardTwice, OnAPage
<1>4. CASE Describe
      BY <1>4, DistinctDescribe
<1>5. CASE Fail
      BY <1>5 DEF Fail, DistinctInv, CountInv, FaceInv, NoCardTwice, OnAPage
<1>6. CASE Quiet \/ UNCHANGED vars
      BY <1>6 DEF Quiet, vars, DistinctInv, CountInv, FaceInv, NoCardTwice, OnAPage
<1> QED BY <1>1, <1>2, <1>3, <1>4, <1>5, <1>6 DEF Next

\* The game finds the page and the slot of a small enough id again.
LEMMA IdIsRead == ASSUME NEW p \in Nat, p <= 654, NEW slot \in Nat, slot < 100
                  PROVE  DeckId(p, slot) \div 100 = p /\ DeckId(p, slot) % 100 = slot
<1> DEFINE x == 100 * p + slot
<1>1. x \in Nat /\ x < 65536
      OBVIOUS
<1>2. DeckId(p, slot) = x % 65536
      BY DEF DeckId, U16
<1>3. x \div 100 = p /\ x % 100 = slot
      OBVIOUS
<1> HIDE DEF x
<1>4. x % 65536 = x
      BY <1>1
<1> QED BY <1>2, <1>3, <1>4

\* In a deck that lists no card twice and is not too large for the u16 ids, every card
\* shows its own face in the game, whatever the order in which the images come and the
\* pages they are drawn on (make_pages, LinearPile::try_from).
THEOREM EveryCardShowsItsFace ==
  Spec => [](NoCardTwice /\ Len(listing) <= 654 => CardsShowTheirFace)
<1> DEFINE Faithful == NoCardTwice /\ Len(listing) <= 654 => CardsShowTheirFace
<1>1. IInv /\ DistinctInv => Faithful
  <2> SUFFICES ASSUME IInv, DistinctInv, NoCardTwice, Len(listing) <= 654,
                      stage = "described", NEW i \in 1 .. Len(listing)
               PROVE  listing[i] \in DOMAIN deckIds /\ FaceOf(deckIds[listing[i]]) = listing[i]
      BY DEF CardsShowTheirFace
  <2> DEFINE c == listing[i]
  <2>1. FaceInv /\ Len(pages) <= Len(listing)
        BY DEF DistinctInv, CountInv
  <2>2. c \in DOMAIN deckIds
        BY <2>1 DEF FaceInv
  <2> HIDE DEF c
  <2>3. PICK p \in 1 .. Len(pages) :
          c \in DOMAIN pages[p].slotOf /\ deckIds[c] = DeckId(p, pages[p].slotOf[c])
        BY <2>1, <2>2 DEF FaceInv
  <2>4. Good(pages[p]) /\ Shown(pages[p])
        BY <2>1 DEF FaceInv, IInv, PagesInv
  <2> DEFINE slot == pages[p].slotOf[c]
             z == pages[p].size
  <2>5. Slots(z) \in Int /\ Slots(z) <= 100 /\ Capacity(z) = Slots(z) - 1
    <3>1. z \in Sizes
          BY <2>4, GoodIsPage
    <3> QED BY <3>1, HasSlots DEF Capacity
  <2>6. slot \in Nat /\ slot < Slots(z) - 1 /\ pages[p].shows[slot] = c
    <3>1. slot \in 0 .. Capacity(z) - 1
          BY <2>3, <2>4 DEF Good
    <3>2. slot < Used(pages[p]) /\ pages[p].shows[slot] = c
          BY <2>3, <2>4 DEF Shown
    <3> QED BY <2>5, <3>1, <3>2
  <2>7. DOMAIN pages[p].shows = 0 .. Slots(z) - 1
        BY <2>4 DEF Good
  <2> HIDE DEF slot, z
  <2>8. p \in Nat /\ p <= 654 /\ slot < 100 /\ slot \in 0 .. Slots(z) - 1
    <3>1. Len(pages) \in Nat /\ Len(listing) \in Nat
          BY LenProperties, Counts DEF IInv, PagesInv
    <3> QED BY <2>1, <2>5, <2>6, <3>1
  <2>9. deckIds[c] \div 100 = p /\ deckIds[c] % 100 = slot
    <3>1. DeckId(p, slot) \div 100 = p /\ DeckId(p, slot) % 100 = slot
          BY <2>6, <2>8, IdIsRead
    <3> QED BY <2>3, <3>1 DEF slot
  <2> QED BY <2>2, <2>6, <2>7, <2>8, <2>9 DEF FaceOf, c
<1>2. Spec => []DistinctInv
      BY Inductive, DistinctBegin, DistinctKept, PTL DEF Spec
<1> QED BY <1>1, <1>2, Inductive, PTL
=============================================================================
