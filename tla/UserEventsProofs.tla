--------------------------- MODULE UserEventsProofs ---------------------------
(***************************************************************************)
(* What the browser shows is true, for every number of decks, of jobs and  *)
(* of connections that break.                                              *)
(*                                                                         *)
(* The invariant looks ahead: of a deck that is not in doubt the screen is *)
(* right once all that is on its way has arrived.  Of the notifications    *)
(* about a deck only the last of each kind matters: the last "Started" or  *)
(* "Deleted" decides whether it will be shown, the last but "Parsed"       *)
(* whether it will have a link, and the last of all whether it will rest.  *)
(* Where none is on its way, the screen decides, or the list if that is    *)
(* still to come.  Notifications that will arrive before the list put      *)
(* their deck in doubt, so that the list need not be right about it.       *)
(***************************************************************************)
EXTENDS UserEvents, FiniteSetTheorems, TLAPS

All == {"Started", "Parsed", "Progress", "Rendered", "Deleted"}
Shows == {"Started", "Deleted"}
Links == {"Started", "Progress", "Rendered", "Deleted"}

\* A sequence has a message of some kinds about a deck; the last one is one of these.
Is(m, d, kinds) == m.type \in kinds /\ m.deck = d
Has(s, d, kinds) == \E i \in DOMAIN s : Is(s[i], d, kinds)
Ends(s, d, kinds, last) == \E i \in DOMAIN s :
  /\ Is(s[i], d, kinds) /\ s[i].type \in last
  /\ \A k \in DOMAIN s : Is(s[k], d, kinds) => k <= i

\* So have all notifications on their way, of which those in wire arrive first.
Coming(d, kinds) == Has(wire, d, kinds) \/ Has(channel, d, kinds)
ComesLast(d, kinds, last) ==
  IF Has(channel, d, kinds) THEN Ends(channel, d, kinds, last) ELSE Ends(wire, d, kinds, last)

\* What the screen shows of a deck, or what the list will make it show.
IsList(m) == m.type = "DeckList"
ListNext(d, k) == IsList(wire[k]) /\ \A i \in 1 .. k - 1 : ~Is(wire[i], d, All)
Shown(d, b) == /\ loaded => (d \in shown <=> b)
               /\ ~Has(wire, d, All) => \A i \in DOMAIN answer : d \in answer[i].shown <=> b
               /\ \A k \in DOMAIN wire : ListNext(d, k) => (d \in wire[k].shown <=> b)
Linked(d, b) == /\ loaded => (d \in link <=> b)
                /\ ~Has(wire, d, All) => \A i \in DOMAIN answer : d \in answer[i].link <=> b
                /\ \A k \in DOMAIN wire : ListNext(d, k) => (d \in wire[k].link <=> b)

WillShow(d, b) ==
  IF Coming(d, Shows) THEN ComesLast(d, Shows, {"Started"}) <=> b ELSE Shown(d, b)
WillLink(d, b) ==
  IF Coming(d, Links) THEN ComesLast(d, Links, {"Rendered"}) <=> b ELSE Linked(d, b)
WillRest(d) ==
  IF Coming(d, All) THEN ComesLast(d, All, {"Rendered", "Deleted"}) ELSE loaded => d \notin busy

\* A job on the deck is between a write and its message, has announced what it has still
\* to store, or has shown a bar.
Between(d) == \E j \in Jobs : deck[j] = d /\ pc[j] \in {"start", "tell"}
Storing(d) == \E j \in Jobs : deck[j] = d /\ pc[j] = "store"
Working(d) == \E j \in Jobs : /\ deck[j] = d
                              /\ \/ pc[j] \in {"save", "parsed", "finish"}
                                 \/ pc[j] = "render" /\ op[j] # "download"

Right(d) == /\ WillShow(d, d \in present)
            /\ WillLink(d, d \in json \/ Storing(d))
            /\ ~Working(d) => WillRest(d)
ScreenInv == \A d \in Decks \ doubt : ~Between(d) => Right(d)

OneJob == \A d \in Decks \ doubt : \A i, j \in Jobs : WorksOn(i, d) /\ WorksOn(j, d) => i = j
JobsInv == \A j \in Jobs : Active(j) =>
  /\ deck[j] = NoDeck => pc[j] = "write"
  /\ deck[j] # NoDeck => deck[j] \in drawn
  /\ op[j] = "download" => pc[j] \in {"render", "finish", "store"}
  /\ deck[j] \in Decks \ doubt =>
       /\ pc[j] # "tell" <=> deck[j] \in present
       /\ pc[j] \in {"start", "save", "parsed", "render", "finish"} => deck[j] \notin json
NotesInv == \A d \in Decks : Coming(d, All) => d \in drawn
ListInv == /\ loaded => ask = "answered" /\ answer = <<>>
           /\ answer # <<>> => ask = "answered"
           /\ \A k \in DOMAIN wire : IsList(wire[k]) =>
                ask = "answered" /\ ~loaded /\ answer = <<>>
           /\ \A i, k \in DOMAIN wire : IsList(wire[i]) /\ IsList(wire[k]) => i = k

IInv == TypeOK /\ OneJob /\ JobsInv /\ NotesInv /\ ListInv /\ ScreenInv

\* A list is no notification about any deck.
LEMMA Messages ==
  /\ \A m \in Notes : m.type \in All /\ m.deck \in Decks /\ ~IsList(m)
  /\ \A m \in Lists : IsList(m) /\ m.type \notin All
                      /\ m.shown \subseteq Decks /\ m.link \subseteq m.shown
  /\ Shows \subseteq All /\ Links \subseteq All /\ Shows \subseteq Links
  BY DEF Notes, Lists, All, Shows, Links, IsList

\* What a message more at the end makes of a sequence.
LEMMA AppendFacts ==
  ASSUME NEW S, NEW s \in Seq(S), NEW m \in S, NEW d, NEW kinds, NEW last
  PROVE  /\ Has(Append(s, m), d, kinds) <=> Has(s, d, kinds) \/ Is(m, d, kinds)
         /\ Ends(Append(s, m), d, kinds, last)
              <=> IF Is(m, d, kinds) THEN m.type \in last ELSE Ends(s, d, kinds, last)
<1> DEFINE t == Append(s, m)
<1>1. /\ DOMAIN t = 1 .. Len(s) + 1 /\ DOMAIN s = 1 .. Len(s) /\ Len(s) \in Nat
      /\ \A i \in 1 .. Len(s) : t[i] = s[i]
      /\ t[Len(s) + 1] = m
  OBVIOUS
<1> HIDE DEF t
<1>2. Has(t, d, kinds) <=> Has(s, d, kinds) \/ Is(m, d, kinds)
  BY <1>1 DEF Has
<1>3. CASE Is(m, d, kinds)
  <2>1. m.type \in last => Ends(t, d, kinds, last)
    BY <1>1, <1>3 DEF Ends
  <2>2. Ends(t, d, kinds, last) => m.type \in last
    BY <1>1, <1>3 DEF Ends
  <2> QED
    BY <1>2, <1>3, <2>1, <2>2 DEF t
<1>4. CASE ~Is(m, d, kinds)
  <2>1. Ends(s, d, kinds, last) => Ends(t, d, kinds, last)
    BY <1>1, <1>4 DEF Ends
  <2>2. Ends(t, d, kinds, last) => Ends(s, d, kinds, last)
    BY <1>1, <1>4 DEF Ends
  <2> QED
    BY <1>2, <1>4, <2>1, <2>2 DEF t
<1> QED
  BY <1>3, <1>4

\* What the message at the front has to say beside the rest.
LEMMA TailFacts ==
  ASSUME NEW S, NEW s \in Seq(S), s # <<>>, NEW d, NEW kinds, NEW last
  PROVE  /\ Has(s, d, kinds) <=> Has(Tail(s), d, kinds) \/ Is(Head(s), d, kinds)
         /\ Ends(s, d, kinds, last)
              <=> IF Has(Tail(s), d, kinds) THEN Ends(Tail(s), d, kinds, last)
                  ELSE Is(Head(s), d, kinds) /\ Head(s).type \in last
<1> DEFINE t == Tail(s)
<1>1. /\ DOMAIN s = 1 .. Len(s) /\ Len(s) \in Nat \ {0} /\ DOMAIN t = 1 .. Len(s) - 1
      /\ \A i \in 1 .. Len(s) - 1 : t[i] = s[i + 1]
      /\ Head(s) = s[1]
  OBVIOUS
<1>2. \A i \in DOMAIN s : i = 1 \/ (i - 1 \in DOMAIN t /\ s[i] = t[i - 1])
  BY <1>1
<1>3. \A i \in DOMAIN t : i + 1 \in DOMAIN s /\ s[i + 1] = t[i] /\ i \in Nat
  BY <1>1
<1> HIDE DEF t
<1>4. Has(s, d, kinds) <=> Has(t, d, kinds) \/ Is(s[1], d, kinds)
  BY <1>1, <1>2, <1>3 DEF Has
<1>5. CASE Has(t, d, kinds)
  <2>1. ASSUME Ends(t, d, kinds, last) PROVE Ends(s, d, kinds, last)
    <3>1. PICK i \in DOMAIN t : /\ Is(t[i], d, kinds) /\ t[i].type \in last
                                /\ \A k \in DOMAIN t : Is(t[k], d, kinds) => k <= i
      BY <2>1 DEF Ends
    <3>2. \A k \in DOMAIN s : Is(s[k], d, kinds) => k <= i + 1
      BY <1>1, <1>2, <1>3, <3>1
    <3> QED
      BY <1>3, <3>1, <3>2 DEF Ends
  <2>2. ASSUME Ends(s, d, kinds, last) PROVE Ends(t, d, kinds, last)
    <3>1. PICK i \in DOMAIN s : /\ Is(s[i], d, kinds) /\ s[i].type \in last
                                /\ \A k \in DOMAIN s : Is(s[k], d, kinds) => k <= i
      BY <2>2 DEF Ends
    <3>2. i # 1
      BY <1>1, <1>3, <1>5, <3>1 DEF Has
    <3>3. i - 1 \in DOMAIN t /\ s[i] = t[i - 1]
      BY <1>2, <3>2
    <3>4. \A k \in DOMAIN t : Is(t[k], d, kinds) => k <= i - 1
      BY <1>1, <1>3, <3>1
    <3> QED
      BY <3>1, <3>3, <3>4 DEF Ends
  <2> QED
    BY <1>1, <1>4, <1>5, <2>1, <2>2 DEF t
<1>6. CASE ~Has(t, d, kinds)
  <2>1. \A k \in DOMAIN s : Is(s[k], d, kinds) => k = 1
    BY <1>2, <1>6 DEF Has
  <2>2. 1 \in DOMAIN s
    BY <1>1
  <2>3. Ends(s, d, kinds, last) <=> Is(s[1], d, kinds) /\ s[1].type \in last
    BY <2>1, <2>2 DEF Ends
  <2> QED
    BY <1>1, <1>4, <1>6, <2>3 DEF t
<1> QED
  BY <1>5, <1>6

(* The parts of a step *)

Flight == /\ channel \in Seq(Notes)
          /\ wire \in Seq(Notes \cup Lists)
          /\ answer \in Seq(Lists) /\ Len(answer) <= 1

\* A step of job j leaves the other jobs alone.
OnlyJob(j) ==
  \A i \in Jobs \ {j} : pc'[i] = pc[i] /\ op'[i] = op[i] /\ deck'[i] = deck[i]

\* On the decks that it has nothing to do with, nobody else does anything either.
LEMMA OtherDecks ==
  ASSUME NEW j \in Jobs, OnlyJob(j), NEW d, deck[j] # d \/ pc[j] = "idle", deck'[j] # d
  PROVE  /\ Between(d)' <=> Between(d)
         /\ Storing(d)' <=> Storing(d)
         /\ Working(d)' <=> Working(d)
  BY DEF OnlyJob, Between, Storing, Working

\* The only job on a deck decides how the deck stands.
LEMMA ItsDeck ==
  ASSUME NEW j \in Jobs, NEW d, WorksOn(j, d), \A i \in Jobs : WorksOn(i, d) => i = j
  PROVE  /\ Between(d) <=> pc[j] \in {"start", "tell"}
         /\ Storing(d) <=> pc[j] = "store"
         /\ Working(d) <=> \/ pc[j] \in {"save", "parsed", "finish"}
                           \/ pc[j] = "render" /\ op[j] # "download"
<1>1. \A i \in Jobs : pc[i] \in {"start", "tell", "store", "save", "parsed", "finish", "render"}
                        => Active(i)
  BY DEF Active
<1> QED
  BY <1>1 DEF WorksOn, Between, Storing, Working

LEMMA ItsDeckThen ==
  ASSUME NEW j \in Jobs, NEW d, WorksOn(j, d)', \A i \in Jobs : WorksOn(i, d)' => i = j
  PROVE  /\ Between(d)' <=> pc'[j] \in {"start", "tell"}
         /\ Storing(d)' <=> pc'[j] = "store"
         /\ Working(d)' <=> \/ pc'[j] \in {"save", "parsed", "finish"}
                            \/ pc'[j] = "render" /\ op'[j] # "download"
<1>1. \A i \in Jobs : pc'[i] \in {"start", "tell", "store", "save", "parsed", "finish", "render"}
                        => Active(i)'
  BY DEF Active
<1> QED
  BY <1>1 DEF WorksOn, Between, Storing, Working

\* Nobody does anything on a quiet deck.
LEMMA QuietDeck ==
  ASSUME NEW d, Quiet(d)
  PROVE  ~Between(d) /\ ~Storing(d) /\ ~Working(d)
<1>1. \A i \in Jobs : pc[i] \in {"start", "tell", "store", "save", "parsed", "finish", "render"}
                        => Active(i)
  BY DEF Active
<1> QED
  BY <1>1 DEF Quiet, WorksOn, Between, Storing, Working

\* A notification that is published arrives last.
LEMMA Published ==
  ASSUME Flight, NEW n \in Notes, channel' = Append(channel, n), wire' = wire,
         NEW d, NEW kinds, NEW last
  PROVE  /\ Coming(d, kinds)' <=> Coming(d, kinds) \/ Is(n, d, kinds)
         /\ ComesLast(d, kinds, last)'
              <=> IF Is(n, d, kinds) THEN n.type \in last ELSE ComesLast(d, kinds, last)
<1>1. /\ Has(channel', d, kinds) <=> Has(channel, d, kinds) \/ Is(n, d, kinds)
      /\ Ends(channel', d, kinds, last)
           <=> IF Is(n, d, kinds) THEN n.type \in last ELSE Ends(channel, d, kinds, last)
  BY AppendFacts DEF Flight
<1>2. ~Has(channel, d, kinds) => ~Ends(channel, d, kinds, last)
  BY DEF Has, Ends
<1> QED
  BY <1>1, <1>2 DEF Coming, ComesLast

\* The websocket takes over the next notification: the order stays.
LEMMA Forwarded ==
  ASSUME Flight, channel # <<>>, wire' = Append(wire, Head(channel)), channel' = Tail(channel),
         NEW d, NEW kinds, NEW last
  PROVE  /\ Coming(d, kinds)' <=> Coming(d, kinds)
         /\ ComesLast(d, kinds, last)' <=> ComesLast(d, kinds, last)
<1>1. Head(channel) \in Notes \cup Lists
  BY DEF Flight
<1>2. /\ Has(channel, d, kinds) <=> Has(channel', d, kinds) \/ Is(Head(channel), d, kinds)
      /\ Ends(channel, d, kinds, last)
           <=> IF Has(channel', d, kinds) THEN Ends(channel', d, kinds, last)
               ELSE Is(Head(channel), d, kinds) /\ Head(channel).type \in last
  BY TailFacts DEF Flight
<1>3. /\ Has(wire', d, kinds) <=> Has(wire, d, kinds) \/ Is(Head(channel), d, kinds)
      /\ Ends(wire', d, kinds, last)
           <=> IF Is(Head(channel), d, kinds) THEN Head(channel).type \in last
               ELSE Ends(wire, d, kinds, last)
  BY <1>1, AppendFacts DEF Flight
<1> QED
  BY <1>2, <1>3 DEF Coming, ComesLast

\* So it does when the list is put on the websocket.
LEMMA Answered ==
  ASSUME Flight, NEW m \in Lists, wire' = Append(wire, m), channel' = channel,
         NEW d, NEW kinds \in {All, Shows, Links}, NEW last
  PROVE  /\ Coming(d, kinds)' <=> Coming(d, kinds)
         /\ ComesLast(d, kinds, last)' <=> ComesLast(d, kinds, last)
<1>1. ~Is(m, d, kinds)
  BY DEF Lists, Is, All, Shows, Links
<1>2. /\ Has(wire', d, kinds) <=> Has(wire, d, kinds)
      /\ Ends(wire', d, kinds, last) <=> Ends(wire, d, kinds, last)
  <2>1. m \in Notes \cup Lists /\ wire \in Seq(Notes \cup Lists)
    BY DEF Flight
  <2>2. /\ Has(Append(wire, m), d, kinds) <=> Has(wire, d, kinds) \/ Is(m, d, kinds)
        /\ Ends(Append(wire, m), d, kinds, last)
             <=> IF Is(m, d, kinds) THEN m.type \in last ELSE Ends(wire, d, kinds, last)
    BY <2>1, AppendFacts
  <2> QED
    BY <1>1, <2>2
<1> QED
  BY <1>2 DEF Coming, ComesLast

\* The first message of the websocket goes.
LEMMA Delivers ==
  ASSUME Flight, wire # <<>>, wire' = Tail(wire), channel' = channel,
         NEW d, NEW kinds, NEW last
  PROVE  /\ Coming(d, kinds) <=> Coming(d, kinds)' \/ Is(Head(wire), d, kinds)
         /\ ComesLast(d, kinds, last)
              <=> IF Coming(d, kinds)' THEN ComesLast(d, kinds, last)'
                  ELSE Is(Head(wire), d, kinds) /\ Head(wire).type \in last
<1>1. /\ Has(wire, d, kinds) <=> Has(wire', d, kinds) \/ Is(Head(wire), d, kinds)
      /\ Ends(wire, d, kinds, last)
           <=> IF Has(wire', d, kinds) THEN Ends(wire', d, kinds, last)
               ELSE Is(Head(wire), d, kinds) /\ Head(wire).type \in last
  BY TailFacts DEF Flight
<1> QED
  BY <1>1 DEF Coming, ComesLast

\* What Redis has not handed over is lost: a deck that it was not about notices nothing.
LEMMA Cut ==
  ASSUME Flight, NEW n \in 0 .. Len(channel), channel' = SubSeq(channel, 1, n), wire' = wire,
         NEW d \in Decks \ DecksIn(SubSeq(channel, n + 1, Len(channel))),
         NEW kinds \in {All, Shows, Links}, NEW last
  PROVE  /\ Coming(d, kinds)' <=> Coming(d, kinds)
         /\ ComesLast(d, kinds, last)' <=> ComesLast(d, kinds, last)
<1>1. /\ DOMAIN channel = 1 .. Len(channel) /\ Len(channel) \in Nat
      /\ DOMAIN channel' = 1 .. n /\ \A i \in 1 .. n : channel'[i] = channel[i]
  BY DEF Flight
<1>2. \A i \in n + 1 .. Len(channel) : ~Is(channel[i], d, kinds)
  <2> SUFFICES ASSUME NEW i \in n + 1 .. Len(channel), Is(channel[i], d, kinds) PROVE FALSE
    OBVIOUS
  <2>1. /\ i - n \in DOMAIN SubSeq(channel, n + 1, Len(channel))
        /\ SubSeq(channel, n + 1, Len(channel))[i - n] = channel[i]
    BY <1>1 DEF Flight
  <2>2. channel[i].type # "DeckList" /\ channel[i].deck = d
    BY DEF Is, All, Shows, Links
  <2> QED
    BY <2>1, <2>2 DEF DecksIn, About
<1>3. Has(channel', d, kinds) <=> Has(channel, d, kinds)
  BY <1>1, <1>2 DEF Has
<1>4. Ends(channel', d, kinds, last) <=> Ends(channel, d, kinds, last)
  <2>1. ASSUME Ends(channel, d, kinds, last) PROVE Ends(channel', d, kinds, last)
    <3>1. PICK i \in 1 .. Len(channel) :
            /\ Is(channel[i], d, kinds) /\ channel[i].type \in last
            /\ \A k \in DOMAIN channel : Is(channel[k], d, kinds) => k <= i
      BY <1>1, <2>1 DEF Ends
    <3>2. i \in 1 .. n
      BY <1>1, <1>2, <3>1
    <3>3. \A k \in DOMAIN channel' : Is(channel'[k], d, kinds) => k <= i
      <4> SUFFICES ASSUME NEW k \in 1 .. n, Is(channel[k], d, kinds) PROVE k <= i
        BY <1>1
      <4>1. k \in DOMAIN channel
        BY <1>1
      <4> QED
        BY <3>1, <4>1
    <3> QED
      BY <1>1, <3>1, <3>2, <3>3 DEF Ends
  <2>2. ASSUME Ends(channel', d, kinds, last) PROVE Ends(channel, d, kinds, last)
    <3>1. PICK i \in 1 .. n : /\ Is(channel[i], d, kinds) /\ channel[i].type \in last
                              /\ \A k \in 1 .. n : Is(channel[k], d, kinds) => k <= i
      BY <1>1, <2>2 DEF Ends
    <3>2. \A k \in DOMAIN channel : Is(channel[k], d, kinds) => k <= i
      BY <1>1, <1>2, <3>1
    <3> QED
      BY <1>1, <3>1, <3>2 DEF Ends
  <2> QED
    BY <2>1, <2>2
<1> QED
  BY <1>3, <1>4 DEF Coming, ComesLast

(* What every step keeps but for the screen *)

\* In the beginning no message is on its way.
LEMMA InitIInv == Init => IInv
<1> SUFFICES ASSUME Init PROVE IInv
  OBVIOUS
<1> USE NoDeckAssumption, BoundsAssumption DEF Init
<1>1. TypeOK
  <2>1. loaded \in BOOLEAN
    OBVIOUS
  <2>2. channel \in Seq(Notes) /\ answer \in Seq(Lists) /\ Len(answer) <= 1
      /\ wire \in Seq(Notes \cup Lists)
    OBVIOUS
  <2> QED
    BY <2>1, <2>2 DEF TypeOK
<1>2. \A j \in Jobs : ~Active(j)
  BY DEF Active
<1>3. \A d, kinds : ~Has(wire, d, kinds) /\ ~Has(channel, d, kinds)
  BY DEF Has
<1>4. \A d \in Decks : ~Storing(d)
  BY DEF Storing
<1>5. \A d \in Decks : Right(d)
  BY <1>3, <1>4 DEF Right, WillShow, WillLink, WillRest, Coming, Shown, Linked, ListNext
<1>6. NotesInv /\ ListInv
  BY <1>3 DEF NotesInv, ListInv, Coming
<1> QED
  BY <1>1, <1>2, <1>5, <1>6 DEF IInv, OneJob, JobsInv, WorksOn, ScreenInv

\* A connection breaks within the bounds.
LEMMA BreaksTypes == TypeOK /\ MayBreak => breaks + 1 \in 0 .. MaxBreaks
<1> SUFFICES ASSUME TypeOK, MayBreak PROVE breaks + 1 \in 0 .. MaxBreaks
  OBVIOUS
<1>1. IsFiniteSet(Started)
  <2>1. IsFiniteSet(1 .. MaxJobs)
    BY FS_Interval, BoundsAssumption
  <2>2. Started \subseteq 1 .. MaxJobs
    BY DEF Started, Jobs
  <2> QED
    BY <2>1, <2>2, FS_Subset
<1>2. Cardinality(Started) \in Nat
  BY <1>1, FS_CardinalityType
<1> QED
  BY <1>2, BoundsAssumption DEF TypeOK, MayBreak

\* A notification goes to the channel, or its deck is in doubt.
LEMMA PublishTypes ==
  ASSUME TypeOK, NEW type \in All, NEW d \in Decks, Publish(type, d)
  PROVE  channel' \in Seq(Notes) /\ doubt' \subseteq Decks
<1>1. [type |-> type, deck |-> d] \in Notes
  BY DEF Notes, All
<1>2. channel \in Seq(Notes) /\ doubt \subseteq Decks
  BY DEF TypeOK
<1>3. CASE sub = "on"
  BY <1>1, <1>2, <1>3 DEF Publish
<1>4. CASE sub # "on"
  BY <1>2, <1>4 DEF Publish
<1> QED
  BY <1>3, <1>4

\* A job is about a deck once it has written.
LEMMA JobsDeck ==
  ASSUME TypeOK, JobsInv, NEW j \in Jobs, Active(j), pc[j] # "write"
  PROVE  deck[j] \in Decks /\ deck[j] \in drawn
  BY DEF TypeOK, JobsInv

\* Messages do not touch the tables, nor the other jobs.
LEMMA TellTypes ==
  ASSUME TypeOK, JobsInv, NEW j \in Jobs, NEW from, NEW type \in All,
         NEW to \in {"save", "render", "finish", "store", "done"},
         from \in {"start", "parsed", "render", "finish", "tell"}, Tell(j, from, type, to)
  PROVE  TypeOK'
<1>1. deck[j] \in Decks
  BY JobsDeck DEF Tell, Goto, Active
<1>2. channel' \in Seq(Notes) /\ doubt' \subseteq Decks
  BY <1>1, PublishTypes DEF Tell
<1>3. loaded' \in BOOLEAN
  BY DEF Tell, screen, TypeOK
<1> QED
  BY <1>2, <1>3 DEF Tell, Goto, tables, screen, TypeOK

\* No step leaves the types.
LEMMA TypesStep == TypeOK /\ JobsInv /\ [Next]_vars => TypeOK'
<1> SUFFICES ASSUME TypeOK, JobsInv, [Next]_vars PROVE TypeOK'
  OBVIOUS
<1> USE NoDeckAssumption, BoundsAssumption DEF tables, jobs, screen, connection
<1>1. ASSUME NEW j \in Jobs, Start(j) PROVE TypeOK'
  <2>1. loaded' \in BOOLEAN
    BY <1>1 DEF TypeOK, Start, StartImport, StartDownload, StartDelete, TakeUp
  <2>2. \A d \in present \cup listed \cup {NoDeck} : d \in Decks \cup {NoDeck}
    BY DEF TypeOK
  <2>3. doubt' \subseteq Decks
    BY <1>1, <2>2 DEF TypeOK, Start, StartImport, StartDownload, StartDelete, TakeUp
  <2> QED
    BY <1>1, <2>1, <2>2, <2>3
    DEF TypeOK, Start, StartImport, StartDownload, StartDelete, TakeUp, Goto
<1>2. ASSUME NEW j \in Jobs, Work(j) PROVE TypeOK'
  <2> USE DEF All
  <2>1. CASE TellStarted(j) \/ TellParsed(j) \/ TellProgress(j) \/ TellRendered(j) \/ TellDeleted(j)
    BY <2>1, TellTypes DEF TellStarted, TellParsed, TellProgress, TellRendered, TellDeleted
  <2>2. CASE ~ \/ TellStarted(j) \/ TellParsed(j) \/ TellProgress(j)
               \/ TellRendered(j) \/ TellDeleted(j)
    <3>1. loaded' \in BOOLEAN
      BY <1>2, <2>2 DEF TypeOK, Work, Write, Save, Store, Drop, Fails
    <3>2. CASE Write(j)
      BY <3>1, <3>2 DEF TypeOK, Write, Goto
    <3>3. CASE Save(j)
      BY <3>1, <3>3, JobsDeck DEF TypeOK, Save, Goto, Active
    <3>4. CASE Store(j)
      BY <3>1, <3>4 DEF TypeOK, Store, Goto
    <3>5. CASE Drop(j)
      <4>1. deck[j] \notin present' /\ present' \subseteq present
        BY <3>5 DEF Drop
      <4>2. listed' \subseteq present' /\ json' \subseteq present'
        BY <3>5 DEF TypeOK, Drop
      <4> QED
        BY <3>1, <3>5, <4>1, <4>2 DEF TypeOK, Drop, Goto
    <3>6. CASE Fails(j)
      <4>1. doubt' \subseteq Decks
        BY <3>6, JobsDeck DEF TypeOK, Fails, Active
      <4> QED
        BY <3>1, <3>6, <4>1 DEF TypeOK, Fails
    <3> QED
      BY <1>2, <2>2, <3>2, <3>3, <3>4, <3>5, <3>6 DEF Work
  <2> QED
    BY <2>1, <2>2
<1>3. CASE Serve
  <2>1. loaded' \in BOOLEAN
    BY <1>3 DEF TypeOK, Serve, Subscribe, Take, ReadList, ReadFails
  <2>2. CASE ReadList
    <3>1. [type |-> "DeckList", shown |-> present, link |-> json] \in Lists
      BY DEF TypeOK, Lists
    <3>2. answer' \in Seq(Lists) /\ Len(answer') <= 1
      BY <2>2, <3>1 DEF ReadList
    <3>3. doubt' \subseteq Decks
      BY <2>2, JobsDeck DEF TypeOK, ReadList, Active
    <3> QED
      BY <2>1, <2>2, <3>2, <3>3 DEF TypeOK, ReadList
  <2> QED
    BY <1>3, <2>1, <2>2 DEF TypeOK, Serve, Subscribe, Take, ReadFails
<1>4. CASE ForwardAnswer \/ ForwardNote
  <2>1. loaded' \in BOOLEAN
    BY <1>4 DEF TypeOK, ForwardAnswer, ForwardNote
  <2>2. wire' \in Seq(Notes \cup Lists) /\ answer' \in Seq(Lists) /\ Len(answer') <= 1
      /\ channel' \in Seq(Notes)
    <3>1. CASE ForwardAnswer
      <4>1. Head(answer) \in Notes \cup Lists
        BY <3>1 DEF TypeOK, ForwardAnswer
      <4> QED
        BY <3>1, <4>1 DEF TypeOK, ForwardAnswer
    <3>2. CASE ForwardNote
      <4>1. Head(channel) \in Notes \cup Lists /\ Tail(channel) \in Seq(Notes)
        BY <3>2 DEF TypeOK, ForwardNote
      <4> QED
        BY <3>2, <4>1 DEF TypeOK, ForwardNote
    <3> QED
      BY <1>4, <3>1, <3>2
  <2> QED
    BY <1>4, <2>1, <2>2 DEF TypeOK, ForwardAnswer, ForwardNote
<1>5. CASE RedisDisconnects
  <2>1. loaded' \in BOOLEAN
    BY <1>5 DEF TypeOK, RedisDisconnects
  <2>2. channel' \in Seq(Notes) /\ doubt' \subseteq Decks
    BY <1>5 DEF TypeOK, RedisDisconnects, DecksIn
  <2>3. breaks' \in 0 .. MaxBreaks
    BY <1>5, BreaksTypes DEF RedisDisconnects
  <2> QED
    BY <1>5, <2>1, <2>2, <2>3 DEF TypeOK, RedisDisconnects
<1>6. CASE Open
  <2>1. loaded' \in BOOLEAN
    BY <1>6 DEF TypeOK, Open
  <2> QED
    BY <1>6, <2>1 DEF TypeOK, Open
<1>7. CASE Close \/ Reload
  <2>1. loaded' \in BOOLEAN
    BY <1>7 DEF TypeOK, Close, Reload
  <2>2. breaks' \in 0 .. MaxBreaks
    BY <1>7, BreaksTypes DEF Close, Reload, Disconnect
  <2>3. doubt' \subseteq Decks
    BY <1>7 DEF TypeOK, Close, Reload, Disconnect, DecksIn
  <2>4. ask' \in {"pending", "sent", "taken", "answered", "lost"}
    BY <1>7 DEF TypeOK, Close, Reload
  <2>5. shown' \subseteq Decks /\ busy' \subseteq shown' /\ link' \subseteq shown'
    BY <1>7 DEF TypeOK, Close, Reload
  <2>6. /\ channel' = <<>> /\ answer' = <<>> /\ wire' = <<>> /\ sub' = "none"
        /\ socket' = "connecting" /\ UNCHANGED <<present, listed, json, drawn, pc, op, deck>>
    BY <1>7 DEF Close, Reload, Disconnect
  <2> QED
    BY <2>1, <2>2, <2>3, <2>4, <2>5, <2>6 DEF TypeOK
<1>8. CASE Deliver
  <2>1. wire' \in Seq(Notes \cup Lists) /\ Head(wire) \in Notes \cup Lists
    BY <1>8 DEF TypeOK, Deliver
  <2>2. loaded' \in BOOLEAN
    BY <1>8 DEF TypeOK, Deliver, Ignore, OnDeckList
  <2>3. doubt' \subseteq Decks
    BY <1>8, <2>1, Messages DEF TypeOK, Deliver, Ignore, IsList
  <2>4. shown' \subseteq Decks /\ busy' \subseteq shown' /\ link' \subseteq shown'
    <3> DEFINE m == Head(wire)
    <3>1. CASE OnDeckList(m)
      <4>1. m.shown \subseteq Decks /\ m.link \subseteq m.shown
        BY <2>1, <3>1, Messages DEF OnDeckList, IsList, All
      <4> QED
        BY <3>1, <4>1 DEF OnDeckList
    <3>2. CASE UNCHANGED screen
      BY <3>2 DEF TypeOK
    <3>3. ASSUME m.type # "DeckList",
                 OnDeleted(m) \/ OnStarted(m) \/ OnParsed(m) \/ OnProgress(m) \/ OnRendered(m)
          PROVE  shown' \subseteq Decks /\ busy' \subseteq shown' /\ link' \subseteq shown'
      <4>1. m.deck \in Decks
        BY <2>1, <3>3, Messages DEF IsList
      <4> HIDE DEF m
      <4> QED
        BY <3>3, <4>1 DEF TypeOK, OnDeleted, OnStarted, OnParsed, OnProgress, OnRendered
    <3>4. OnDeleted(m) \/ OnStarted(m) \/ OnParsed(m) \/ OnProgress(m) \/ OnRendered(m)
            => m.type # "DeckList"
      BY DEF OnDeleted, OnStarted, OnParsed, OnProgress, OnRendered
    <3> QED
      BY <1>8, <3>1, <3>2, <3>3, <3>4 DEF Deliver, Ignore
  <2> QED
    BY <1>8, <2>1, <2>2, <2>3, <2>4 DEF TypeOK, Deliver
<1>9. CASE UNCHANGED vars
  <2>1. loaded' \in BOOLEAN
    BY <1>9 DEF TypeOK, vars
  <2> QED
    BY <1>9, <2>1 DEF TypeOK, vars
<1> QED
  BY <1>1, <1>2, <1>3, <1>4, <1>5, <1>6, <1>7, <1>8, <1>9 DEF Next

\* The step of a job is one of that job only, and does not touch what is beyond Redis.
LEMMA JobSteps ==
  ASSUME TypeOK, NEW j \in Jobs, Start(j) \/ Work(j)
  PROVE  /\ OnlyJob(j) /\ doubt \subseteq doubt' /\ drawn \subseteq drawn'
         /\ UNCHANGED <<screen, sub, answer, wire, socket, ask, breaks>>
<1> USE DEF tables, connection, Goto
<1>0. DOMAIN pc = Jobs /\ DOMAIN op = Jobs /\ DOMAIN deck = Jobs
  BY DEF TypeOK
<1>1. CASE Start(j)
  BY <1>0, <1>1 DEF OnlyJob, Start, StartImport, StartDownload, StartDelete, TakeUp
<1>2. CASE Work(j)
  BY <1>0, <1>2 DEF OnlyJob, Work, Write, Save, Store, Drop, Fails, Tell, Publish, TellStarted,
     TellParsed, TellProgress, TellRendered, TellDeleted
<1> QED
  BY <1>1, <1>2

\* The other steps leave jobs and tables alone, and only the list removes doubts.
LEMMA OtherSteps ==
  ASSUME TypeOK, Next, \A j \in Jobs : ~Start(j) /\ ~Work(j)
  PROVE  /\ UNCHANGED <<tables, jobs>>
         /\ ReadList \/ doubt \subseteq doubt'
<1> USE DEF tables, jobs
<1>1. CASE Serve \/ ForwardAnswer \/ ForwardNote \/ Open
  BY <1>1 DEF Serve, Subscribe, Take, ReadFails, ReadList, ForwardAnswer, ForwardNote, Open
<1>2. CASE RedisDisconnects \/ Close \/ Reload
  BY <1>2 DEF RedisDisconnects, Close, Reload, Disconnect
<1>3. CASE Deliver
  BY <1>3 DEF Deliver, Ignore
<1> QED
  BY <1>1, <1>2, <1>3 DEF Next

\* A deck that a job takes up while another works on it is in doubt.
LEMMA OneJobStep == TypeOK /\ OneJob /\ JobsInv /\ [Next]_vars => OneJob'
<1> SUFFICES ASSUME TypeOK, OneJob, JobsInv, [Next]_vars, NEW d \in Decks \ doubt',
                    NEW i \in Jobs, NEW k \in Jobs, WorksOn(i, d)', WorksOn(k, d)'
             PROVE  i = k
  BY DEF OneJob
<1> USE DEF WorksOn, Active
<1>1. ASSUME NEW j \in Jobs, Start(j) \/ Work(j) PROVE i = k
  <2>1. OnlyJob(j) /\ d \notin doubt
    BY <1>1, JobSteps
  <2>2. CASE ~WorksOn(j, d) /\ WorksOn(j, d)'
    <3>1. \A x \in Jobs : ~WorksOn(x, d)
      <4>1. CASE Start(j)
        <5>1. PICK e \in present \cup listed \cup {NoDeck} :
                /\ deck' = [deck EXCEPT ![j] = e]
                /\ doubt' = IF e # NoDeck /\ ~Quiet(e) THEN doubt \cup {e} ELSE doubt
          BY <4>1 DEF Start, StartImport, StartDownload, StartDelete, TakeUp
        <5>2. e = d
          BY <2>2, <5>1 DEF TypeOK
        <5> QED
          BY <5>1, <5>2, NoDeckAssumption DEF Quiet
      <4>2. CASE Work(j)
        <5>1. Write(j)
          BY <2>2, <4>2 DEF TypeOK, Work, Write, Save, Store, Drop, Fails, Tell, Goto, TellStarted,
             TellParsed, TellProgress, TellRendered, TellDeleted
        <5>2. d \notin drawn
          BY <2>2, <5>1 DEF TypeOK, Write, Goto
        <5> QED
          BY <5>2, NoDeckAssumption DEF JobsInv
      <4> QED
        BY <1>1, <4>1, <4>2
    <3> QED
      BY <2>1, <3>1 DEF OnlyJob
  <2>3. CASE WorksOn(j, d) \/ ~WorksOn(j, d)'
    BY <2>1, <2>3 DEF OnlyJob, OneJob
  <2> QED
    BY <2>2, <2>3
<1>2. ASSUME Next, \A j \in Jobs : ~Start(j) /\ ~Work(j) PROVE i = k
  <2>1. WorksOn(i, d) /\ WorksOn(k, d) /\ (ReadList \/ doubt \subseteq doubt')
    BY <1>2, OtherSteps DEF jobs
  <2>2. d \notin doubt
    BY <2>1 DEF ReadList, Quiet
  <2> QED
    BY <2>1, <2>2 DEF OneJob
<1>3. CASE UNCHANGED vars
  BY <1>3 DEF vars, jobs, OneJob
<1> QED
  BY <1>1, <1>2, <1>3

\* The tables fit the jobs.
LEMMA JobsStep == TypeOK /\ OneJob /\ JobsInv /\ [Next]_vars => JobsInv'
<1> SUFFICES ASSUME TypeOK, OneJob, JobsInv, [Next]_vars PROVE JobsInv'
  OBVIOUS
<1> USE NoDeckAssumption
<1>1. ASSUME NEW j \in Jobs, Start(j) PROVE JobsInv'
  <2>1. PICK e \in present \cup {NoDeck} :
          /\ pc[j] = "idle" /\ deck' = [deck EXCEPT ![j] = e]
          /\ \E to, o : /\ pc' = [pc EXCEPT ![j] = to] /\ op' = [op EXCEPT ![j] = o]
                        /\ \/ to = "write" /\ o = "import"
                           \/ to = "render" /\ o = "download" /\ e \in present /\ e \notin json
                           \/ to = "drop" /\ o = "delete" /\ e \in present
    BY <1>1 DEF TypeOK, Start, StartImport, StartDownload, StartDelete, TakeUp, Goto
  <2>2. UNCHANGED tables /\ doubt \subseteq doubt'
    BY <1>1, JobSteps DEF Start, StartImport, StartDownload, StartDelete, TakeUp
  <2> QED
    BY <2>1, <2>2 DEF TypeOK, JobsInv, Active, tables
<1>2. ASSUME NEW j \in Jobs, Work(j) PROVE JobsInv'
  <2>0. doubt \subseteq doubt'
    BY <1>2, JobSteps
  <2> USE DEF TypeOK, JobsInv, Active, Goto, tables
  <2>1. CASE Write(j)
    <3>1. CASE deck[j] # NoDeck
      BY <2>0, <2>1, <3>1 DEF Write
    <3>2. CASE deck[j] = NoDeck
      <4>1. PICK d \in Decks \ drawn : /\ deck' = [deck EXCEPT ![j] = d]
                                       /\ present' = present \cup {d}
                                       /\ drawn' = drawn \cup {d}
        BY <2>1, <3>2 DEF Write
      <4>2. json' = json /\ pc' = [pc EXCEPT ![j] = "start"] /\ pc[j] = "write" /\ op' = op
        BY <2>1, <3>2 DEF Write
      <4>3. d \in Decks /\ d \notin json /\ d \notin present /\ d # NoDeck
        BY <4>1
      <4>4. \A i \in Jobs : i # j /\ Active(i) =>
              deck[i] # d /\ deck'[i] = deck[i] /\ pc'[i] = pc[i]
        BY <4>1, <4>2
      <4>5. op[j] # "download" /\ deck'[j] = d /\ pc'[j] = "start"
        BY <4>1, <4>2
      <4> QED
        BY <2>0, <4>1, <4>2, <4>3, <4>4, <4>5
    <3> QED
      BY <3>1, <3>2
  <2>2. CASE Save(j)
    BY <2>0, <2>2 DEF Save
  <2>3. CASE Store(j) \/ Drop(j)
    <3>1. deck[j] \in Decks
      BY <2>3, JobsDeck DEF Store, Drop
    <3>2. deck[j] \notin doubt => \A i \in Jobs : Active(i) /\ deck[i] = deck[j] => i = j
      BY <2>3, <3>1 DEF OneJob, WorksOn, Store, Drop
    <3>3. CASE Store(j)
      BY <2>0, <3>2, <3>3 DEF Store
    <3>4. CASE Drop(j)
      BY <2>0, <3>2, <3>4 DEF Drop
    <3> QED
      BY <2>3, <3>3, <3>4
  <2>4. CASE Fails(j)
    BY <2>0, <2>4 DEF Fails
  <2>5. CASE TellStarted(j) \/ TellParsed(j) \/ TellProgress(j) \/ TellRendered(j) \/ TellDeleted(j)
    BY <2>0, <2>5 DEF Tell, TellStarted, TellParsed, TellProgress, TellRendered, TellDeleted
  <2> QED
    BY <1>2, <2>1, <2>2, <2>3, <2>4, <2>5 DEF Work
<1>3. ASSUME Next, \A j \in Jobs : ~Start(j) /\ ~Work(j) PROVE JobsInv'
  <2>1. UNCHANGED <<tables, jobs>> /\ (ReadList \/ doubt \subseteq doubt')
    BY <1>3, OtherSteps
  <2>2. \A j \in Jobs : Active(j) /\ deck[j] \in Decks \ doubt' => deck[j] \notin doubt
    BY <2>1 DEF ReadList, Quiet, WorksOn
  <2> QED
    BY <2>1, <2>2 DEF JobsInv, Active, tables, jobs
<1>4. CASE UNCHANGED vars
  BY <1>4 DEF vars, JobsInv, Active, tables, jobs
<1> QED
  BY <1>1, <1>2, <1>3, <1>4 DEF Next

\* All notifications are about decks that there have been, and the list is alone on its
\* way: it is asked for once.
LEMMA NotesStep == TypeOK /\ JobsInv /\ NotesInv /\ [Next]_vars => NotesInv'
<1> SUFFICES ASSUME TypeOK, JobsInv, NotesInv, [Next]_vars, NEW d \in Decks, Coming(d, All)'
             PROVE  d \in drawn'
  BY DEF NotesInv
<1>0. Flight
  BY DEF TypeOK, Flight
<1>1. CASE UNCHANGED <<wire, channel>> /\ drawn \subseteq drawn'
  BY <1>1 DEF NotesInv, Coming
<1>2. ASSUME NEW j \in Jobs, Start(j) \/ Work(j) PROVE d \in drawn'
  <2>1. drawn \subseteq drawn' /\ wire' = wire
    BY <1>2, JobSteps
  <2>2. CASE channel' = channel
    BY <1>1, <2>1, <2>2
  <2>3. CASE channel' # channel
    <3>1. /\ deck[j] \in Decks /\ deck[j] \in drawn
          /\ \E n \in Notes : channel' = Append(channel, n) /\ n.deck = deck[j]
      <4>1. PICK type \in All :
              /\ Publish(type, deck[j])
              /\ pc[j] \in {"start", "parsed", "render", "finish", "tell"}
        BY <1>2, <2>3 DEF Start, Work, Write, Save, Store, Drop, Fails, Tell, Goto, TellStarted,
           TellParsed, TellProgress, TellRendered, TellDeleted, StartImport, StartDownload,
           StartDelete, TakeUp, connection, All
      <4>2. deck[j] \in Decks /\ deck[j] \in drawn
        BY <4>1, JobsDeck DEF Active
      <4>3. [type |-> type, deck |-> deck[j]] \in Notes
        BY <4>1, <4>2 DEF Notes, All
      <4> QED
        BY <2>3, <4>1, <4>2, <4>3 DEF Publish
    <3>2. PICK n \in Notes : channel' = Append(channel, n) /\ n.deck = deck[j]
      BY <3>1
    <3>3. Coming(d, All) \/ Is(n, d, All)
      BY <1>0, <2>1, <3>2, Published
    <3> QED
      BY <2>1, <3>1, <3>2, <3>3 DEF NotesInv, Is
  <2> QED
    BY <2>2, <2>3
<1>3. ASSUME Next, \A j \in Jobs : ~Start(j) /\ ~Work(j) PROVE d \in drawn'
  <2>0. drawn' = drawn
    BY <1>3, OtherSteps DEF tables
  <2>1. CASE Serve \/ Open
    BY <1>1, <2>0, <2>1 DEF Serve, Subscribe, Take, ReadList, ReadFails, Open
  <2>2. CASE ForwardNote
    BY <1>0, <2>0, <2>2, Forwarded DEF ForwardNote, NotesInv
  <2>3. CASE ForwardAnswer
    <3>1. Head(answer) \in Lists
      BY <2>3 DEF ForwardAnswer, TypeOK
    <3> QED
      BY <1>0, <2>0, <2>3, <3>1, Answered DEF ForwardAnswer, NotesInv
  <2>4. CASE RedisDisconnects
    <3>1. PICK n \in 0 .. Len(channel) : channel' = SubSeq(channel, 1, n)
      BY <2>4 DEF RedisDisconnects
    <3>2. \A i \in DOMAIN channel' : i \in DOMAIN channel /\ channel'[i] = channel[i]
      BY <1>0, <3>1 DEF Flight
    <3>3. Coming(d, All)
      BY <2>4, <3>2 DEF RedisDisconnects, Coming, Has
    <3> QED
      BY <2>0, <3>3 DEF NotesInv
  <2>5. CASE Close \/ Reload
    BY <2>5 DEF Close, Reload, Disconnect, Coming, Has
  <2>6. CASE Deliver
    BY <1>0, <2>0, <2>6, Delivers DEF Deliver, NotesInv
  <2> QED
    BY <1>3, <2>1, <2>2, <2>3, <2>4, <2>5, <2>6 DEF Next
<1>4. CASE UNCHANGED vars
  BY <1>1, <1>4 DEF vars, tables, connection
<1> QED
  BY <1>2, <1>3, <1>4

\* The list is alone on its way, and the browser has asked for it once.
LEMMA ListStep == TypeOK /\ ListInv /\ [Next]_vars => ListInv'
<1> SUFFICES ASSUME TypeOK, ListInv, [Next]_vars PROVE ListInv'
  OBVIOUS
<1> USE DEF ListInv, screen, connection
<1>0. Flight
  BY DEF TypeOK, Flight
<1>1. CASE UNCHANGED <<loaded, ask, answer, wire>>
  BY <1>1
<1>2. ASSUME NEW j \in Jobs, Start(j) \/ Work(j) PROVE ListInv'
  BY <1>1, <1>2, JobSteps
<1>3. CASE Serve
  <2>1. CASE ReadList
    BY <2>1 DEF ReadList
  <2>2. CASE Take \/ ReadFails
    BY <2>2 DEF Take, ReadFails
  <2>3. CASE Subscribe
    BY <1>1, <2>3 DEF Subscribe
  <2> QED
    BY <1>3, <2>1, <2>2, <2>3 DEF Serve
<1>4. CASE ForwardAnswer
  <2>1. /\ wire' = Append(wire, Head(answer)) /\ answer' = <<>> /\ ask = "answered" /\ ~loaded
        /\ UNCHANGED <<ask, loaded>>
        /\ \A k \in DOMAIN wire : ~IsList(wire[k])
    BY <1>4 DEF ForwardAnswer
  <2>2. /\ DOMAIN wire' = 1 .. Len(wire) + 1 /\ DOMAIN wire = 1 .. Len(wire) /\ Len(wire) \in Nat
        /\ \A k \in 1 .. Len(wire) : wire'[k] = wire[k]
    BY <1>0, <2>1 DEF Flight
  <2>3. \A k \in DOMAIN wire' : IsList(wire'[k]) => k = Len(wire) + 1
    BY <2>1, <2>2
  <2> QED
    BY <2>1, <2>3
<1>5. CASE ForwardNote
  <2>1. /\ wire' = Append(wire, Head(channel)) /\ ~IsList(Head(channel))
        /\ UNCHANGED <<ask, loaded, answer>>
    BY <1>0, <1>5, Messages DEF ForwardNote, Flight
  <2>2. /\ DOMAIN wire' = 1 .. Len(wire) + 1 /\ DOMAIN wire = 1 .. Len(wire) /\ Len(wire) \in Nat
        /\ \A k \in 1 .. Len(wire) : wire'[k] = wire[k]
        /\ wire'[Len(wire) + 1] = Head(channel)
    BY <1>0, <2>1 DEF Flight
  <2>3. \A k \in DOMAIN wire' : IsList(wire'[k]) => k \in DOMAIN wire /\ IsList(wire[k])
    BY <2>1, <2>2
  <2> QED
    BY <2>1, <2>3
<1>6. CASE RedisDisconnects
  BY <1>1, <1>6 DEF RedisDisconnects
<1>7. CASE Open
  BY <1>7 DEF Open
<1>8. CASE Close \/ Reload
  BY <1>8 DEF Close, Reload, Disconnect
<1>9. CASE Deliver
  <2>1. /\ wire' = Tail(wire) /\ UNCHANGED <<ask, answer>>
        /\ \/ IsList(wire[1]) /\ loaded'
           \/ loaded' = loaded
    <3>1. wire # <<>> /\ Head(wire) = wire[1]
      BY <1>0, <1>9 DEF Deliver, Flight
    <3> QED
      BY <1>9, <3>1 DEF Deliver, OnDeckList, Ignore, IsList
  <2>2. /\ DOMAIN wire = 1 .. Len(wire) /\ Len(wire) \in Nat \ {0}
        /\ DOMAIN wire' = 1 .. Len(wire) - 1
        /\ \A k \in 1 .. Len(wire) - 1 : wire'[k] = wire[k + 1]
    BY <1>0, <1>9, <2>1 DEF Flight, Deliver
  <2>3. \A k \in DOMAIN wire' : k + 1 \in DOMAIN wire /\ wire'[k] = wire[k + 1] /\ k \in Nat \ {0}
    BY <2>2
  <2>4. 1 \in DOMAIN wire
    BY <2>2
  <2>5. CASE IsList(wire[1]) /\ loaded'
    <3>1. \A k \in DOMAIN wire' : ~IsList(wire'[k])
      BY <2>3, <2>4, <2>5
    <3>2. ask = "answered" /\ answer = <<>>
      BY <2>4, <2>5
    <3> QED
      BY <2>1, <3>1, <3>2
  <2>6. CASE loaded' = loaded
    BY <2>1, <2>3, <2>6
  <2> QED
    BY <2>1, <2>5, <2>6
<1>10. CASE UNCHANGED vars
  BY <1>1, <1>10 DEF vars
<1> QED
  BY <1>2, <1>3, <1>4, <1>5, <1>6, <1>7, <1>8, <1>9, <1>10 DEF Next

(* The screen *)

\* What is on its way, and what the screen and the list say, is the same as before.
SameFlight(d) == \A kinds \in {All, Shows, Links} : \A last :
  /\ Coming(d, kinds)' <=> Coming(d, kinds)
  /\ ComesLast(d, kinds, last)' <=> ComesLast(d, kinds, last)
SameTables(d) == /\ d \in present' <=> d \in present
                 /\ (d \in json' \/ Storing(d)') <=> (d \in json \/ Storing(d))
                 /\ Working(d) => Working(d)'

\* So a deck that is right stays right when neither it nor the messages about it change.
LEMMA Untouched ==
  ASSUME NEW d, Right(d), SameFlight(d), SameTables(d), UNCHANGED <<wire, answer, screen>>
  PROVE  Right(d)'
<1> USE DEF screen
<1>1. /\ Shown(d, d \in present)' <=> Shown(d, d \in present)
      /\ Linked(d, d \in json \/ Storing(d))' <=> Linked(d, d \in json \/ Storing(d))
  BY DEF Shown, Linked, SameTables, ListNext
<1>2. WillShow(d, d \in present)'
  BY <1>1 DEF Right, WillShow, SameFlight, SameTables
<1>3. WillLink(d, d \in json \/ Storing(d))'
  BY <1>1 DEF Right, WillLink, SameFlight, SameTables
<1>4. ~Working(d)' => WillRest(d)'
  BY DEF Right, WillRest, SameFlight, SameTables
<1> QED
  BY <1>2, <1>3, <1>4 DEF Right

\* Where the channel stays, too, nothing on the way has changed.
LEMMA Unmoved ==
  ASSUME NEW d, UNCHANGED <<channel, wire>>
  PROVE  SameFlight(d)
  BY DEF SameFlight, Coming, ComesLast

\* The jobs that say nothing.
LEMMA ScreenSilent ==
  ASSUME IInv, OneJob', JobsInv', NEW j \in Jobs, NEW d \in Decks \ doubt', ~Between(d)',
         \/ Start(j)
         \/ Write(j) \/ Save(j) \/ Store(j) \/ Drop(j) \/ Fails(j)
  PROVE  Right(d)'
<1> USE NoDeckAssumption DEF IInv, tables, jobs, screen, connection, Goto
<1>1. /\ OnlyJob(j) /\ d \notin doubt
      /\ UNCHANGED <<channel, wire, answer, loaded, shown, busy, link>>
  BY JobSteps DEF Work, Start, StartImport, StartDownload, StartDelete, TakeUp, Write, Save, Store,
     Drop, Fails
<1>2. SameFlight(d)
  BY <1>1, Unmoved
<1>3. ASSUME ~Between(d), SameTables(d) PROVE Right(d)'
  BY <1>1, <1>2, <1>3, Untouched DEF ScreenInv
<1>4. ASSUME deck[j] # d \/ pc[j] = "idle", deck'[j] # d, d \in present' <=> d \in present,
             d \in json' <=> d \in json
      PROVE  Right(d)'
  BY <1>1, <1>3, <1>4, OtherDecks DEF SameTables
<1>5. WorksOn(j, d) => \A i \in Jobs : WorksOn(i, d) => i = j
  BY <1>1 DEF OneJob
<1>6. WorksOn(j, d)' => \A i \in Jobs : WorksOn(i, d)' => i = j
  BY DEF OneJob
<1>7. CASE Start(j)
  <2>1. PICK e \in present \cup {NoDeck} :
          /\ pc[j] = "idle" /\ deck' = [deck EXCEPT ![j] = e]
          /\ \E to, o : /\ pc' = [pc EXCEPT ![j] = to] /\ op' = [op EXCEPT ![j] = o]
                        /\ to \in {"write", "drop"} \/ (to = "render" /\ o = "download")
          /\ e # NoDeck /\ ~Quiet(e) => e \in doubt'
          /\ UNCHANGED <<present, json>>
    BY <1>7 DEF TypeOK, Start, StartImport, StartDownload, StartDelete, TakeUp
  <2>2. DOMAIN pc = Jobs /\ DOMAIN op = Jobs /\ DOMAIN deck = Jobs
    BY DEF TypeOK
  <2>3. CASE e # d
    BY <1>4, <2>1, <2>2, <2>3
  <2>4. CASE e = d
    <3>1. Quiet(d)
      BY <2>1, <2>4
    <3>2. ~Between(d) /\ ~Storing(d) /\ ~Working(d)
      BY <3>1, QuietDeck
    <3>3. WorksOn(j, d)' /\ pc'[j] # "store"
      <4>0. PICK to \in {"write", "drop", "render"} : pc' = [pc EXCEPT ![j] = to]
        BY <1>7 DEF Start, StartImport, StartDownload, StartDelete, TakeUp
      <4>1. pc'[j] \in {"write", "drop", "render"} /\ deck'[j] = d
        BY <2>1, <2>2, <2>4, <4>0
      <4> QED
        BY <4>1 DEF WorksOn, Active
    <3>4. ~Storing(d)'
      BY <1>6, <3>3, ItsDeckThen
    <3> QED
      BY <1>3, <2>1, <3>2, <3>4 DEF SameTables
  <2> QED
    BY <2>3, <2>4
<1>8. CASE Write(j)
  <2>1. DOMAIN pc = Jobs /\ DOMAIN deck = Jobs /\ pc'[j] = "start" /\ pc[j] = "write"
    BY <1>8 DEF TypeOK, Write
  <2>2. deck'[j] # d
    BY <2>1 DEF Between
  <2>3. deck[j] # d
    BY <1>8, <2>1, <2>2 DEF Write
  <2>4. (d \in present' <=> d \in present) /\ (d \in json' <=> d \in json)
    BY <1>8, <2>1, <2>2, <2>3 DEF Write
  <2> QED
    BY <1>4, <2>2, <2>3, <2>4
<1>9. CASE Save(j) \/ Store(j) \/ Drop(j) \/ Fails(j)
  <2>1. DOMAIN pc = Jobs /\ deck' = deck /\ op' = op
    BY <1>9 DEF TypeOK, Save, Store, Drop, Fails
  <2>2. CASE deck[j] # d
    BY <1>4, <1>9, <2>1, <2>2 DEF Save, Store, Drop, Fails
  <2>3. CASE deck[j] = d
    <3>1. WorksOn(j, d)
      BY <1>9, <2>3 DEF Save, Store, Drop, Fails, WorksOn, Active
    <3>2. /\ Between(d) <=> pc[j] \in {"start", "tell"}
          /\ Storing(d) <=> pc[j] = "store"
          /\ Working(d) <=> \/ pc[j] \in {"save", "parsed", "finish"}
                            \/ pc[j] = "render" /\ op[j] # "download"
      BY <1>5, <3>1, ItsDeck
    <3>3. \A i \in Jobs \ {j} : ~(deck[i] = d /\ Active(i))
      BY <1>5, <3>1 DEF WorksOn
    <3>4. ~Storing(d)' \/ pc'[j] = "store"
      BY <1>1, <2>1, <3>3 DEF OnlyJob, Storing, Active
    <3>5. CASE Save(j)
      <4>1. pc[j] = "save" /\ pc'[j] = "parsed" /\ UNCHANGED <<present, json>>
        BY <2>1, <3>5 DEF Save
      <4>2. Working(d)'
        BY <2>1, <2>3, <4>1 DEF Working
      <4> QED
        BY <1>3, <3>2, <3>4, <4>1, <4>2 DEF SameTables
    <3>6. CASE Store(j)
      <4>1. /\ pc[j] = "store" /\ pc'[j] = "done"
            /\ present' = present /\ json' = json \cup ({d} \cap present)
        BY <2>1, <2>3, <3>6 DEF Store
      <4>2. d \in present
        BY <1>1, <2>3, <3>1, <4>1 DEF JobsInv, WorksOn
      <4> QED
        BY <1>3, <3>2, <4>1, <4>2 DEF SameTables
    <3>7. CASE Drop(j)
      <4>1. pc'[j] = "tell"
        BY <2>1, <3>7 DEF Drop
      <4> QED
        BY <2>1, <2>3, <4>1 DEF Between
    <3>8. CASE Fails(j)
      <4>1. pc[j] \in {"write", "drop"} /\ pc'[j] = "failed" /\ UNCHANGED <<present, json>>
        BY <2>1, <2>3, <3>8 DEF Fails
      <4> QED
        BY <1>3, <3>2, <3>4, <4>1 DEF SameTables
    <3> QED
      BY <1>9, <3>5, <3>6, <3>7, <3>8
  <2> QED
    BY <2>2, <2>3
<1> QED
  BY <1>7, <1>8, <1>9

\* A job tells how it stands: of its deck the message decides, of the others nothing
\* changes.  Where nobody listens, the deck is in doubt.
LEMMA ScreenTold ==
  ASSUME IInv, OneJob', JobsInv', NEW j \in Jobs, NEW d \in Decks \ doubt', ~Between(d)',
         \/ TellStarted(j) \/ TellParsed(j) \/ TellProgress(j) \/ TellRendered(j) \/ TellDeleted(j)
  PROVE  Right(d)'
<1> USE NoDeckAssumption DEF IInv, tables, screen, Goto
<1>0. Flight
  BY DEF TypeOK, Flight
<1>1. PICK type \in All, from \in {"start", "parsed", "render", "finish", "tell"},
           to \in {"save", "render", "finish", "store", "done"} :
        /\ Tell(j, from, type, to)
        /\ \/ from = "start" /\ type = "Started" /\ to = "save"
           \/ from = "parsed" /\ type = "Parsed" /\ to = "render"
           \/ from = "render" /\ type = "Progress" /\ to = "finish"
           \/ from = "finish" /\ type = "Rendered" /\ to = "store"
           \/ from = "tell" /\ type = "Deleted" /\ to = "done"
  BY DEF TellStarted, TellParsed, TellProgress, TellRendered, TellDeleted, All
<1>2. /\ OnlyJob(j) /\ d \notin doubt
      /\ UNCHANGED <<wire, answer, loaded, shown, busy, link, present, json, op, deck>>
      /\ pc[j] = from /\ pc'[j] = to /\ Active(j)
  <2>1. d \notin doubt
    BY <1>1 DEF Tell, Publish
  <2>2. pc[j] = from /\ pc'[j] = to /\ \A i \in Jobs \ {j} : pc'[i] = pc[i]
    BY <1>1 DEF Tell, TypeOK
  <2> QED
    BY <1>1, <2>1, <2>2 DEF Tell, OnlyJob, Active
<1>3. deck[j] \in Decks
  BY <1>1, <1>2, JobsDeck
<1>4. CASE deck[j] # d
  <2>1. SameTables(d) /\ ~Between(d)
    BY <1>2, <1>4, OtherDecks DEF SameTables
  <2>2. SameFlight(d)
    <3>1. CASE sub = "on"
      <4>1. PICK n \in Notes : channel' = Append(channel, n) /\ n.deck # d
        <5>1. [type |-> type, deck |-> deck[j]] \in Notes
          BY <1>3 DEF Notes, All
        <5> QED
          BY <1>1, <1>4, <3>1, <5>1 DEF Tell, Publish
      <4>2. \A kinds : ~Is(n, d, kinds)
        BY <4>1 DEF Is
      <4> QED
        BY <1>0, <1>2, <4>1, <4>2, Published DEF SameFlight
    <3>2. CASE sub # "on"
      BY <1>1, <1>2, <3>2, Unmoved DEF Tell, Publish
    <3> QED
      BY <3>1, <3>2
  <2> QED
    BY <1>2, <2>1, <2>2, Untouched DEF ScreenInv
<1>5. CASE deck[j] = d
  <2>1. sub = "on"
    BY <1>1, <1>5 DEF Tell, Publish
  <2> DEFINE n == [type |-> type, deck |-> d]
  <2>2. n \in Notes /\ n.type = type /\ n.deck = d /\ channel' = Append(channel, n)
    BY <1>1, <1>3, <1>5, <2>1 DEF Tell, Publish, Notes, All
  <2> HIDE DEF n
  <2>3. \A kinds, last :
          /\ Coming(d, kinds)' <=> Coming(d, kinds) \/ type \in kinds
          /\ ComesLast(d, kinds, last)'
               <=> IF type \in kinds THEN type \in last ELSE ComesLast(d, kinds, last)
    BY <1>0, <1>2, <2>2, Published DEF Is
  <2>4. /\ Between(d) <=> from \in {"start", "tell"}
        /\ Storing(d) <=> from = "store"
    BY <1>2, <1>5, ItsDeck DEF OneJob, WorksOn
  <2>5. from # "start" /\ from # "tell" => Right(d)
    BY <1>2, <2>4 DEF ScreenInv
  <2>6. /\ from # "tell" <=> d \in present
        /\ from \in {"start", "parsed", "render", "finish"} => d \notin json
    BY <1>2, <1>5 DEF JobsInv
  <2>7. /\ Storing(d)' <=> to = "store"
        /\ to \in {"save", "finish"} => Working(d)'
        /\ from = "parsed" => Working(d)'
    <3>1. from = "parsed" => op[j] # "download"
      BY <1>2, <1>5 DEF JobsInv
    <3>2. \A i \in Jobs \ {j} : ~(deck[i] = d /\ Active(i))
      BY <1>2, <1>5 DEF OneJob, WorksOn
    <3> QED
      BY <1>1, <1>2, <1>5, <3>1, <3>2 DEF Storing, Working, OnlyJob, Active
  <2>8. d \notin json \/ from # "tell"
    BY <2>6 DEF TypeOK
  <2>9. WillShow(d, d \in present)'
    <3>1. CASE type \in Shows
      BY <1>1, <1>2, <2>3, <2>6, <3>1 DEF WillShow, Shows
    <3>2. CASE type \notin Shows
      <4>1. WillShow(d, d \in present) /\ d \in present
        BY <1>1, <2>5, <2>6, <3>2 DEF Right, Shows
      <4>2. Shown(d, d \in present)' <=> Shown(d, d \in present)
        BY <1>2 DEF Shown, ListNext
      <4> QED
        BY <1>2, <2>3, <3>2, <4>1, <4>2 DEF WillShow
    <3> QED
      BY <3>1, <3>2
  <2>10. WillLink(d, d \in json \/ Storing(d))'
    <3>1. CASE type \in Links
      BY <1>1, <1>2, <2>3, <2>6, <2>7, <2>8, <3>1 DEF WillLink, Links
    <3>2. CASE type \notin Links
      <4>1. WillLink(d, d \in json \/ Storing(d)) /\ ~Storing(d) /\ ~Storing(d)'
        BY <1>1, <2>4, <2>5, <2>7, <3>2 DEF Right, Links
      <4>2. Linked(d, d \in json \/ Storing(d))' <=> Linked(d, d \in json \/ Storing(d))
        BY <1>2, <4>1 DEF Linked, ListNext
      <4> QED
        BY <1>2, <2>3, <3>2, <4>1, <4>2 DEF WillLink
    <3> QED
      BY <3>1, <3>2
  <2>11. ~Working(d)' => WillRest(d)'
    BY <1>1, <2>3, <2>7 DEF WillRest, All
  <2> QED
    BY <2>9, <2>10, <2>11 DEF Right
<1> QED
  BY <1>4, <1>5

\* The list is read: it knows all but what is announced and not yet stored.
LEMMA ScreenRead ==
  ASSUME IInv, NEW d \in Decks \ doubt', ~Between(d)', ReadList
  PROVE  Right(d)'
<1> USE DEF IInv, tables, jobs, screen
<1>1. /\ UNCHANGED <<channel, wire, loaded, shown, busy, link, present, json, pc, op, deck>>
      /\ answer' = <<[type |-> "DeckList", shown |-> present, link |-> json]>>
      /\ ask = "taken"
  BY DEF ReadList
<1>2. ~loaded /\ \A k \in DOMAIN wire : ~IsList(wire[k])
  BY <1>1 DEF ListInv
<1>3. ~Between(d) /\ ~Storing(d) /\ ~Storing(d)' /\ SameFlight(d) /\ (Working(d)' <=> Working(d))
  BY <1>1, Unmoved DEF ReadList, Storing, Between, Working
<1>4. Shown(d, d \in present)'
  BY <1>1, <1>2 DEF Shown, ListNext
<1>5. Linked(d, d \in json \/ Storing(d))'
  BY <1>1, <1>2, <1>3 DEF Linked, ListNext
<1>6. CASE d \in doubt
  <2>1. Quiet(d) /\ Delivered(d)
    BY <1>6 DEF ReadList
  <2>2. \A kinds \in {All, Shows, Links} : ~Coming(d, kinds)
    BY <2>1 DEF Delivered, About, Coming, Has, Is, All, Shows, Links
  <2>3. \A kinds \in {All, Shows, Links} : ~Coming(d, kinds)'
    BY <1>3, <2>2 DEF SameFlight
  <2> QED
    BY <1>1, <1>2, <1>4, <1>5, <2>3 DEF Right, WillShow, WillLink, WillRest
<1>7. CASE d \notin doubt
  <2>1. Right(d)
    BY <1>3, <1>7 DEF ScreenInv
  <2>2. WillShow(d, d \in present)'
    BY <1>1, <1>3, <1>4, <2>1 DEF Right, WillShow, SameFlight
  <2>3. WillLink(d, d \in json \/ Storing(d))'
    BY <1>1, <1>3, <1>5, <2>1 DEF Right, WillLink, SameFlight
  <2>4. ~Working(d)' => WillRest(d)'
    BY <1>1, <1>2, <1>3, <2>1 DEF Right, WillRest, SameFlight
  <2> QED
    BY <2>2, <2>3, <2>4 DEF Right
<1> QED
  BY <1>6, <1>7

\* The list is put on the websocket, behind what was there.
LEMMA ScreenAnswer ==
  ASSUME IInv, NEW d \in Decks \ doubt', ~Between(d)', ForwardAnswer
  PROVE  Right(d)'
<1> USE DEF IInv, tables, jobs, screen
<1>0. Flight
  BY DEF TypeOK, Flight
<1>1. /\ UNCHANGED <<channel, loaded, shown, busy, link, present, json, pc, op, deck, doubt>>
      /\ wire' = Append(wire, answer[1]) /\ answer' = <<>>
      /\ answer[1] \in Lists /\ 1 \in DOMAIN answer
  BY <1>0 DEF ForwardAnswer, Flight
<1>2. ~loaded /\ \A k \in DOMAIN wire : ~IsList(wire[k])
  BY <1>1 DEF ListInv
<1>3. /\ Right(d) /\ SameFlight(d) /\ (Storing(d)' <=> Storing(d)) /\ (Working(d)' <=> Working(d))
  BY <1>0, <1>1, Answered DEF ScreenInv, SameFlight, Storing, Between, Working
<1>4. /\ DOMAIN wire' = 1 .. Len(wire) + 1 /\ DOMAIN wire = 1 .. Len(wire) /\ Len(wire) \in Nat
      /\ \A k \in 1 .. Len(wire) : wire'[k] = wire[k]
      /\ wire'[Len(wire) + 1] = answer[1]
  BY <1>0, <1>1 DEF Flight
<1>5. ASSUME NEW k \in DOMAIN wire', ListNext(d, k)'
      PROVE  wire'[k] = answer[1] /\ ~Has(wire, d, All)
  <2>1. k = Len(wire) + 1
    BY <1>2, <1>4, <1>5 DEF ListNext
  <2>2. \A i \in 1 .. Len(wire) : ~Is(wire[i], d, All)
    BY <1>4, <1>5, <2>1 DEF ListNext
  <2> QED
    BY <1>4, <2>1, <2>2 DEF Has
<1>6. Shown(d, d \in present) => Shown(d, d \in present)'
  BY <1>1, <1>2, <1>5 DEF Shown
<1>7. Linked(d, d \in json \/ Storing(d)) => Linked(d, d \in json \/ Storing(d))'
  BY <1>1, <1>2, <1>3, <1>5 DEF Linked
<1>8. WillShow(d, d \in present)'
  BY <1>1, <1>3, <1>6 DEF Right, WillShow, SameFlight
<1>9. WillLink(d, d \in json \/ Storing(d))'
  BY <1>1, <1>3, <1>7 DEF Right, WillLink, SameFlight
<1>10. ~Working(d)' => WillRest(d)'
  BY <1>1, <1>2, <1>3 DEF Right, WillRest, SameFlight
<1> QED
  BY <1>8, <1>9, <1>10 DEF Right

\* A notification is put on the websocket, behind what was there; when the list is not
\* there yet, the notification is ahead of it.
LEMMA ScreenForward ==
  ASSUME IInv, NEW d \in Decks \ doubt', ~Between(d)', ForwardNote
  PROVE  Right(d)'
<1> USE DEF IInv, tables, jobs, screen
<1>0. Flight
  BY DEF TypeOK, Flight
<1>1. /\ UNCHANGED <<answer, loaded, shown, busy, link, present, json, pc, op, deck, doubt>>
      /\ wire' = Append(wire, Head(channel)) /\ Head(channel) \in Notes
  BY <1>0 DEF ForwardNote, Flight
<1>3. /\ Right(d) /\ SameFlight(d) /\ (Storing(d)' <=> Storing(d)) /\ (Working(d)' <=> Working(d))
  BY <1>0, <1>1, Forwarded DEF ScreenInv, SameFlight, Storing, Between, Working, ForwardNote
<1>4. /\ DOMAIN wire' = 1 .. Len(wire) + 1 /\ DOMAIN wire = 1 .. Len(wire) /\ Len(wire) \in Nat
      /\ \A k \in 1 .. Len(wire) : wire'[k] = wire[k]
      /\ wire'[Len(wire) + 1] = Head(channel)
  BY <1>0, <1>1 DEF Flight
<1>5. ASSUME NEW k \in DOMAIN wire', ListNext(d, k)'
      PROVE  k \in DOMAIN wire /\ ListNext(d, k) /\ wire'[k] = wire[k]
  <2>1. ~IsList(Head(channel))
    BY <1>1, Messages
  <2>2. k \in 1 .. Len(wire)
    BY <1>4, <1>5, <2>1 DEF ListNext
  <2> QED
    BY <1>4, <1>5, <2>2 DEF ListNext
<1>6. ~Has(wire', d, All) => ~Has(wire, d, All)
  BY <1>4 DEF Has
<1>7. Shown(d, d \in present) => Shown(d, d \in present)'
  BY <1>1, <1>5, <1>6 DEF Shown
<1>8. Linked(d, d \in json \/ Storing(d)) => Linked(d, d \in json \/ Storing(d))'
  BY <1>1, <1>3, <1>5, <1>6 DEF Linked
<1>9. WillShow(d, d \in present)'
  BY <1>1, <1>3, <1>7 DEF Right, WillShow, SameFlight
<1>10. WillLink(d, d \in json \/ Storing(d))'
  BY <1>1, <1>3, <1>8 DEF Right, WillLink, SameFlight
<1>11. ~Working(d)' => WillRest(d)'
  BY <1>1, <1>3 DEF Right, WillRest, SameFlight
<1> QED
  BY <1>9, <1>10, <1>11 DEF Right

\* A connection breaks: what is lost puts its decks in doubt.
LEMMA ScreenBreaks ==
  ASSUME IInv, NEW d \in Decks \ doubt', ~Between(d)', RedisDisconnects \/ Close \/ Reload
  PROVE  Right(d)'
<1> USE DEF IInv, tables, jobs, screen
<1>0. Flight
  BY DEF TypeOK, Flight
<1>1. UNCHANGED <<present, json, pc, op, deck>> /\ d \notin doubt
  BY DEF RedisDisconnects, Close, Reload, Disconnect
<1>2. /\ Right(d) /\ (Storing(d)' <=> Storing(d)) /\ (Working(d)' <=> Working(d)) /\ SameTables(d)
  BY <1>1 DEF ScreenInv, Storing, Between, Working, SameTables
<1>3. CASE RedisDisconnects
  <2>1. PICK n \in 0 .. Len(channel) :
          /\ channel' = SubSeq(channel, 1, n)
          /\ d \notin DecksIn(SubSeq(channel, n + 1, Len(channel)))
    BY <1>3 DEF RedisDisconnects
  <2>2. wire' = wire
    BY <1>3 DEF RedisDisconnects
  <2>3. SameFlight(d)
    BY <1>0, <2>1, <2>2, Cut DEF SameFlight
  <2> QED
    BY <1>2, <1>3, <2>3, Untouched DEF RedisDisconnects
<1>4. CASE Close \/ Reload
  <2>1. /\ d \notin DecksIn(channel) /\ d \notin DecksIn(wire)
        /\ channel' = <<>> /\ wire' = <<>> /\ answer' = <<>>
    BY <1>4 DEF Close, Reload, Disconnect
  <2>2. \A kinds \in {All, Shows, Links} : ~Coming(d, kinds)
    BY <2>1 DEF DecksIn, About, Coming, Has, Is, All, Shows, Links
  <2>3. \A kinds : ~Coming(d, kinds)'
    BY <2>1 DEF Coming, Has
  <2>4. Shown(d, d \in present) => Shown(d, d \in present)'
    BY <1>1, <1>4, <2>1 DEF Shown, Close, Reload
  <2>5. Linked(d, d \in json \/ Storing(d)) => Linked(d, d \in json \/ Storing(d))'
    BY <1>1, <1>2, <1>4, <2>1 DEF Linked, Close, Reload
  <2>6. ~Working(d)' => WillRest(d)'
    BY <1>2, <1>4, <2>2, <2>3 DEF Right, WillRest, Close, Reload
  <2> QED
    BY <1>2, <2>2, <2>3, <2>4, <2>5, <2>6 DEF Right, WillShow, WillLink
<1> QED
  BY <1>3, <1>4


\* A message that is not about a deck passes its place on the screen by.
LEMMA Passes ==
  ASSUME Flight, wire # <<>>, wire' = Tail(wire), channel' = channel, answer' = answer,
         NEW d, ~Is(Head(wire), d, All)
  PROVE  /\ SameFlight(d)
         /\ ~Has(wire', d, All) => ~Has(wire, d, All)
         /\ \A k \in DOMAIN wire' : ListNext(d, k)' =>
              k + 1 \in DOMAIN wire /\ ListNext(d, k + 1) /\ wire'[k] = wire[k + 1]
<1>1. \A kinds \in {All, Shows, Links} : ~Is(Head(wire), d, kinds)
  BY DEF Is, All, Shows, Links
<1>2. \A kinds, last : ~Coming(d, kinds)' => ~ComesLast(d, kinds, last)'
  BY DEF Coming, ComesLast, Has, Ends
<1>3. SameFlight(d)
  <2> SUFFICES ASSUME NEW kinds \in {All, Shows, Links}, NEW last
               PROVE  /\ Coming(d, kinds)' <=> Coming(d, kinds)
                      /\ ComesLast(d, kinds, last)' <=> ComesLast(d, kinds, last)
    BY DEF SameFlight
  <2>1. /\ Coming(d, kinds) <=> Coming(d, kinds)' \/ Is(Head(wire), d, kinds)
        /\ ComesLast(d, kinds, last)
             <=> IF Coming(d, kinds)' THEN ComesLast(d, kinds, last)'
                 ELSE Is(Head(wire), d, kinds) /\ Head(wire).type \in last
    BY Delivers
  <2> QED
    BY <1>1, <1>2, <2>1
<1>4. ~Has(wire', d, All) => ~Has(wire, d, All)
  BY TailFacts DEF Flight
<1>5. /\ DOMAIN wire = 1 .. Len(wire) /\ Len(wire) \in Nat \ {0}
      /\ DOMAIN wire' = 1 .. Len(wire) - 1 /\ Head(wire) = wire[1]
      /\ \A k \in 1 .. Len(wire) - 1 : wire'[k] = wire[k + 1]
  BY DEF Flight
<1>6. ASSUME NEW k \in DOMAIN wire', ListNext(d, k)'
      PROVE  k + 1 \in DOMAIN wire /\ ListNext(d, k + 1) /\ wire'[k] = wire[k + 1]
  <2>1. k \in 1 .. Len(wire) - 1 /\ k + 1 \in DOMAIN wire /\ wire'[k] = wire[k + 1]
    BY <1>5, <1>6
  <2>2. IsList(wire[k + 1]) /\ \A i \in 1 .. k - 1 : ~Is(wire'[i], d, All)
    BY <1>6, <2>1 DEF ListNext, IsList
  <2>3. ASSUME NEW i \in 1 .. (k + 1) - 1 PROVE ~Is(wire[i], d, All)
    <3>1. CASE i = 1
      BY <1>5, <3>1
    <3>2. CASE i # 1
      <4>1. i - 1 \in 1 .. k - 1 /\ wire'[i - 1] = wire[i]
        BY <1>5, <2>1, <3>2
      <4> QED
        BY <2>2, <4>1
    <3> QED
      BY <3>1, <3>2
  <2> QED
    BY <2>1, <2>2, <2>3 DEF ListNext
<1> QED
  BY <1>3, <1>4, <1>6

\* The browser handles a message: the list tells it of every deck, a notification of its
\* own, and one that it cannot handle yet puts its deck in doubt.
LEMMA ScreenDeliver ==
  ASSUME IInv, NEW d \in Decks \ doubt', ~Between(d)', Deliver
  PROVE  Right(d)'
<1> USE DEF IInv, tables, jobs, screen
<1> DEFINE m == Head(wire)
<1>0. Flight
  BY DEF TypeOK, Flight
<1>1. /\ UNCHANGED <<channel, answer, present, json, pc, op, deck>> /\ d \notin doubt
      /\ wire # <<>> /\ wire' = Tail(wire)
  BY DEF Deliver, Ignore
<1>2. /\ Right(d) /\ (Storing(d)' <=> Storing(d)) /\ (Working(d)' <=> Working(d))
  BY <1>1 DEF ScreenInv, Storing, Between, Working
<1>3. m \in Notes \cup Lists /\ m = wire[1] /\ 1 \in DOMAIN wire
  BY <1>0, <1>1 DEF Flight
<1>4. \/ OnDeckList(m)
      \/ ~loaded /\ m.type # "DeckList" /\ UNCHANGED screen /\ doubt' = doubt \cup {m.deck}
      \/ /\ loaded /\ loaded' = loaded
         /\ OnDeleted(m) \/ OnStarted(m) \/ OnParsed(m) \/ OnProgress(m) \/ OnRendered(m)
  BY DEF Deliver, Ignore
<1> HIDE DEF m
<1>5. ASSUME ~Is(m, d, All), loaded' = loaded, d \in shown' <=> d \in shown,
             d \in link' <=> d \in link, d \in busy' <=> d \in busy
      PROVE  Right(d)'
  <2>1. /\ SameFlight(d)
        /\ ~Has(wire', d, All) => ~Has(wire, d, All)
        /\ \A k \in DOMAIN wire' : ListNext(d, k)' =>
             k + 1 \in DOMAIN wire /\ ListNext(d, k + 1) /\ wire'[k] = wire[k + 1]
    BY <1>0, <1>1, <1>5, Passes DEF m
  <2>2. Shown(d, d \in present) => Shown(d, d \in present)'
    BY <1>1, <1>5, <2>1 DEF Shown
  <2>3. Linked(d, d \in json \/ Storing(d)) => Linked(d, d \in json \/ Storing(d))'
    BY <1>1, <1>2, <1>5, <2>1 DEF Linked
  <2>4. WillShow(d, d \in present)'
    BY <1>1, <1>2, <2>1, <2>2 DEF Right, WillShow, SameFlight
  <2>5. WillLink(d, d \in json \/ Storing(d))'
    BY <1>1, <1>2, <2>1, <2>3 DEF Right, WillLink, SameFlight
  <2>6. ~Working(d)' => WillRest(d)'
    BY <1>2, <1>5, <2>1 DEF Right, WillRest, SameFlight
  <2> QED
    BY <2>4, <2>5, <2>6 DEF Right
<1>6. CASE OnDeckList(m)
  <2>1. /\ m \in Lists /\ IsList(wire[1]) /\ ~Is(m, d, All)
        /\ loaded' /\ shown' = m.shown /\ link' = m.link /\ busy' = {}
    BY <1>3, <1>6 DEF OnDeckList, IsList, Is, All, Notes
  <2>2. SameFlight(d)
    BY <1>0, <1>1, <2>1, Passes DEF m
  <2>3. answer' = <<>> /\ \A k \in DOMAIN wire' : ~IsList(wire'[k])
    <3>1. /\ DOMAIN wire = 1 .. Len(wire) /\ Len(wire) \in Nat \ {0}
          /\ DOMAIN wire' = 1 .. Len(wire) - 1
          /\ \A k \in 1 .. Len(wire) - 1 : wire'[k] = wire[k + 1]
      BY <1>0, <1>1 DEF Flight
    <3>2. \A k \in DOMAIN wire' : k + 1 \in DOMAIN wire /\ k + 1 # 1 /\ wire'[k] = wire[k + 1]
      BY <3>1
    <3> QED
      BY <1>1, <1>3, <2>1, <3>2 DEF ListInv
  <2>4. ListNext(d, 1)
    BY <2>1 DEF ListNext
  <2>5. Shown(d, d \in present) => Shown(d, d \in present)'
    BY <1>1, <1>3, <2>1, <2>3, <2>4 DEF Shown, ListNext
  <2>6. Linked(d, d \in json \/ Storing(d)) => Linked(d, d \in json \/ Storing(d))'
    BY <1>1, <1>2, <1>3, <2>1, <2>3, <2>4 DEF Linked, ListNext
  <2>7. WillShow(d, d \in present)'
    BY <1>1, <1>2, <2>2, <2>5 DEF Right, WillShow, SameFlight
  <2>8. WillLink(d, d \in json \/ Storing(d))'
    BY <1>1, <1>2, <2>2, <2>6 DEF Right, WillLink, SameFlight
  <2>9. ~Working(d)' => WillRest(d)'
    BY <1>2, <2>1, <2>2 DEF Right, WillRest, SameFlight
  <2> QED
    BY <2>7, <2>8, <2>9 DEF Right
<1>7. CASE ~loaded /\ UNCHANGED screen /\ doubt' = doubt \cup {m.deck}
  BY <1>5, <1>7 DEF Is
<1>8. CASE /\ loaded /\ loaded' = loaded
           /\ OnDeleted(m) \/ OnStarted(m) \/ OnParsed(m) \/ OnProgress(m) \/ OnRendered(m)
  <2> USE DEF OnDeleted, OnStarted, OnParsed, OnProgress, OnRendered
  <2>1. CASE m.deck # d
    BY <1>5, <1>8, <2>1 DEF Is
  <2>2. CASE m.deck = d
    <3>0. m.type \in All
      BY <1>8 DEF All
    <3>1. /\ Shown(d, d \in present) <=> (d \in shown <=> d \in present)
          /\ Linked(d, d \in json \/ Storing(d)) <=> (d \in link <=> d \in json \/ Storing(d))
      BY <1>8 DEF ListInv, Shown, Linked, ListNext
    <3>2. answer' = <<>> /\ \A k \in DOMAIN wire' : ~IsList(wire'[k])
      <4>1. \A k \in DOMAIN wire' : k + 1 \in DOMAIN wire /\ wire'[k] = wire[k + 1]
        BY <1>0, <1>1 DEF Flight
      <4> QED
        BY <1>1, <1>8, <4>1 DEF ListInv
    <3>3. /\ Shown(d, d \in present)' <=> (d \in shown' <=> d \in present)
          /\ Linked(d, d \in json \/ Storing(d))' <=> (d \in link' <=> d \in json \/ Storing(d))
      <4>1. loaded' /\ DOMAIN answer' = {} /\ \A k \in DOMAIN wire' : ~ListNext(d, k)'
        BY <1>8, <3>2 DEF ListNext
      <4>2. Shown(d, d \in present)' <=> (d \in shown' <=> d \in present)
        BY <1>1, <4>1 DEF Shown
      <4>3. Linked(d, d \in json \/ Storing(d))' <=> (d \in link' <=> d \in json \/ Storing(d))
        BY <1>1, <1>2, <4>1 DEF Linked
      <4> QED
        BY <4>2, <4>3
    <3>4. ASSUME NEW kinds, NEW last
          PROVE  /\ Coming(d, kinds) <=> Coming(d, kinds)' \/ m.type \in kinds
                 /\ ComesLast(d, kinds, last)
                      <=> IF Coming(d, kinds)' THEN ComesLast(d, kinds, last)'
                          ELSE m.type \in kinds /\ m.type \in last
      BY <1>0, <1>1, <2>2, Delivers DEF Is, m
    <3>5. WillShow(d, d \in present)'
      <4>1. CASE Coming(d, Shows)'
        BY <1>1, <1>2, <3>4, <4>1 DEF Right, WillShow
      <4>2. CASE ~Coming(d, Shows)'
        <5>1. CASE m.type \in Shows
          <6>1. m.type = "Started" <=> d \in present
            BY <1>2, <3>4, <4>2, <5>1 DEF Right, WillShow
          <6> QED
            BY <1>8, <2>2, <3>3, <4>2, <5>1, <6>1 DEF WillShow, Shows
        <5>2. CASE m.type \notin Shows
          <6>1. d \in shown <=> d \in present
            BY <1>2, <3>1, <3>4, <4>2, <5>2 DEF Right, WillShow
          <6>2. shown' = shown
            BY <1>8, <5>2 DEF Shows
          <6> QED
            BY <3>3, <4>2, <6>1, <6>2 DEF WillShow
        <5> QED
          BY <5>1, <5>2
      <4> QED
        BY <4>1, <4>2
    <3>6. WillLink(d, d \in json \/ Storing(d))'
      <4>1. CASE Coming(d, Links)'
        BY <1>1, <1>2, <3>4, <4>1 DEF Right, WillLink
      <4>2. CASE ~Coming(d, Links)'
        <5>1. CASE m.type \in Links
          <6>1. m.type = "Rendered" <=> d \in json \/ Storing(d)
            BY <1>2, <3>4, <4>2, <5>1 DEF Right, WillLink
          <6>2. CASE m.type # "Rendered"
            BY <1>8, <2>2, <3>3, <4>2, <5>1, <6>1, <6>2 DEF WillLink, Links
          <6>3. CASE m.type = "Rendered"
            <7>1. d \in present
              <8>1. CASE d \in json
                BY <8>1 DEF TypeOK
              <8>2. CASE Storing(d)
                BY <1>1, <8>2 DEF Storing, JobsInv, Active
              <8> QED
                BY <6>1, <6>3, <8>1, <8>2
            <7>2. ~Coming(d, Shows)
              <8>1. ~Coming(d, Shows)'
                BY <4>2 DEF Coming, Has, Is, Shows, Links
              <8> QED
                BY <3>4, <6>3, <8>1 DEF Shows
            <7>3. d \in shown
              BY <1>2, <3>1, <7>1, <7>2 DEF Right, WillShow
            <7>4. d \in link'
              BY <1>8, <2>2, <6>3, <7>3
            <7> QED
              BY <3>3, <4>2, <6>1, <6>3, <7>4, <1>1, <1>2 DEF WillLink
          <6> QED
            BY <6>2, <6>3
        <5>2. CASE m.type \notin Links
          <6>1. d \in link <=> d \in json \/ Storing(d)
            BY <1>2, <3>1, <3>4, <4>2, <5>2 DEF Right, WillLink
          <6>2. link' = link
            BY <1>8, <5>2 DEF Links
          <6> QED
            BY <3>3, <4>2, <6>1, <6>2 DEF WillLink
        <5> QED
          BY <5>1, <5>2
      <4> QED
        BY <4>1, <4>2
    <3>7. ~Working(d)' => WillRest(d)'
      <4> SUFFICES ASSUME ~Working(d)' PROVE WillRest(d)'
        OBVIOUS
      <4>1. WillRest(d)
        BY <1>2 DEF Right
      <4>2. CASE Coming(d, All)'
        BY <3>4, <4>1, <4>2 DEF WillRest
      <4>3. CASE ~Coming(d, All)'
        <5>1. m.type \in {"Rendered", "Deleted"}
          BY <3>0, <3>4, <4>1, <4>3 DEF WillRest
        <5>2. d \notin busy'
          BY <1>8, <2>2, <5>1
        <5> QED
          BY <4>3, <5>2 DEF WillRest
      <4> QED
        BY <4>2, <4>3
    <3> QED
      BY <3>5, <3>6, <3>7 DEF Right
  <2> QED
    BY <2>1, <2>2
<1> QED
  BY <1>4, <1>6, <1>7, <1>8

\* A step leaves every deck right that is not in doubt, nor between a write and its message.
LEMMA ScreenStep == IInv /\ OneJob' /\ JobsInv' /\ [Next]_vars => ScreenInv'
<1> SUFFICES ASSUME IInv, OneJob', JobsInv', [Next]_vars, NEW d \in Decks \ doubt', ~Between(d)'
             PROVE  Right(d)'
  BY DEF ScreenInv
<1>1. ASSUME NEW j \in Jobs, Start(j) \/ Work(j) PROVE Right(d)'
  BY <1>1, ScreenSilent, ScreenTold DEF Work
<1>2. CASE UNCHANGED <<tables, jobs, screen, channel, wire, answer, doubt>>
  <2>1. SameTables(d) /\ (Between(d)' <=> Between(d))
    BY <1>2 DEF tables, jobs, SameTables, Storing, Working, Between
  <2>2. SameFlight(d)
    BY <1>2, Unmoved
  <2>3. Right(d)
    BY <1>2, <2>1 DEF IInv, ScreenInv
  <2> QED
    BY <1>2, <2>1, <2>2, <2>3, Untouched
<1>3. CASE Subscribe \/ Take \/ ReadFails \/ Open
  BY <1>2, <1>3 DEF Subscribe, Take, ReadFails, Open
<1>4. CASE UNCHANGED vars
  BY <1>2, <1>4 DEF vars, connection
<1> QED
  BY <1>1, <1>3, <1>4, ScreenRead, ScreenAnswer, ScreenForward, ScreenBreaks, ScreenDeliver
     DEF Next, Serve

LEMMA Invariance == Spec => []IInv
<1>1. IInv /\ [Next]_vars => IInv'
  BY TypesStep, OneJobStep, JobsStep, NotesStep, ListStep, ScreenStep DEF IInv
<1> QED
  BY <1>1, InitIInv, PTL DEF Spec

(* What holds in every state *)

\* The tables, the requests, what is on its way and the page of the browser have the
\* types of the code in every state (deck.rs, notify.rs, ws.rs, deck_list.rs).
THEOREM TypeCorrect == Spec => []TypeOK
<1>1. IInv => TypeOK
  BY DEF IInv
<1> QED
  BY <1>1, Invariance, PTL

\* When all has been delivered, the last messages no longer decide.
LEMMA AllArrived ==
  ASSUME NEW d, Delivered(d), NEW kinds \in {All, Shows, Links}
  PROVE  ~Coming(d, kinds)
  BY DEF Delivered, About, Coming, Has, Is, All, Shows, Links

\* A deck that is not in doubt and about which nothing is going on is shown exactly if
\* it exists, at rest, and with a link exactly if its JSON is stored, however its
\* notifications and the list crossed (DeckList::update, handle_connection).
THEOREM ScreenHolds == Spec => []ScreenIsTrue
<1>1. IInv => ScreenIsTrue
  <2> SUFFICES ASSUME IInv, NEW d \in Decks \ doubt, loaded, Quiet(d), Delivered(d)
               PROVE  /\ d \in shown <=> d \in present
                      /\ d \notin busy
                      /\ d \in link <=> d \in json
    BY DEF ScreenIsTrue
  <2>1. ~Between(d) /\ ~Storing(d) /\ ~Working(d)
    BY QuietDeck
  <2>2. ~Coming(d, Shows) /\ ~Coming(d, Links) /\ ~Coming(d, All)
    BY AllArrived
  <2>3. Right(d)
    BY <2>1 DEF IInv, ScreenInv
  <2>4. d \in shown <=> d \in present
    BY <2>2, <2>3 DEF Right, WillShow, Shown
  <2>5. d \in link <=> d \in json
    BY <2>1, <2>2, <2>3 DEF Right, WillLink, Linked
  <2>6. d \notin busy
    BY <2>1, <2>2, <2>3 DEF Right, WillRest
  <2> QED
    BY <2>4, <2>5, <2>6
<1> QED
  BY <1>1, Invariance, PTL

\* A link on the page leads to a stored JSON, also while jobs run, but for a deck in
\* doubt and the moments between a write and its message (render_deck, Deck::render).
THEOREM LinksHold == Spec => []LinksLead
<1>1. IInv => LinksLead
  <2> SUFFICES ASSUME IInv, NEW d \in link \ doubt, loaded, Delivered(d), ~Between(d)
               PROVE  d \in json \/ Storing(d)
    BY DEF LinksLead, Between, Storing
  <2>1. d \in Decks
    BY DEF IInv, TypeOK
  <2>2. ~Coming(d, Links)
    BY AllArrived
  <2>3. WillLink(d, d \in json \/ Storing(d))
    BY <2>1 DEF IInv, ScreenInv, Right
  <2> QED
    BY <2>2, <2>3 DEF WillLink, Linked
<1> QED
  BY <1>1, Invariance, PTL
=============================================================================
