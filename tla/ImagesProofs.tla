---------------------------- MODULE ImagesProofs ----------------------------
(* Proofs about Images, for any number of curators, documents, pictures and *)
(* requests and under every fault.                                          *)
EXTENDS Images, SequenceTheorems, TLAPS

-----------------------------------------------------------------------------
(* What holds at every step of a request.                                   *)

Steps == {"idle", "prepare", "save", "unlink", "rmdir", "check", "rename", "write",
          "rmtree", "commit"}
Uploading == {"prepare", "save"}
OnePicture == {"unlink", "rmdir"}
TwoNames == {"check", "rename"}
OnPictures == Uploading \cup OnePicture \cup TwoNames

RequestType ==
    [at : Steps, slug : Slugs \cup {Bad}, names : Seq(Names \cup Slugs \cup {Bad}),
     nr : 0 .. MaxRequests, seen : SUBSET Names, saved : Seq(Names), read : Seq(Slugs)]

Shape(l) ==
    /\ l.at \in OnPictures => l.slug \in Slugs
    /\ l.at \in Uploading =>
           /\ l.nr > 0 /\ l.names \in Seq(Names \cup {Bad})
           /\ Len(l.saved) <= Len(l.names)
           /\ \A i \in 1 .. Len(l.saved) : l.saved[i] = l.names[i]
    /\ l.at = "prepare" => l.saved = <<>>
    /\ l.at \in OnePicture => Len(l.names) = 1 /\ l.names[1] \in Names
    /\ l.at \in TwoNames => Len(l.names) = 2 /\ l.names[1] \in Names /\ l.names[2] \in Names
    /\ l.at = "write" =>
           /\ l.names \in Seq(Slugs) /\ Len(l.names) \in {1, 2}
           /\ Len(l.read) + (IF Len(l.names) = 1 THEN 1 ELSE 0) <= MaxDocs

Typed == TypeOK /\ local \in [Curators -> RequestType] /\ \A c \in Curators : Shape(local[c])

\* Two requests that are about one file are noticed.
Met == \A c, d \in Curators : c # d => Touched(local[c]) \cap Touched(local[d]) \subseteq crowded

\* What an upload has saved is there, and it knows of it.
SavedThere(c) ==
    At(c, "save") => \A n \in Range(local[c].saved) :
        /\ n \in local[c].seen
        /\ \/ <<local[c].slug, n>> \in crowded
           \/ /\ <<local[c].slug, n>> \in DOMAIN disk
              /\ disk[<<local[c].slug, n>>] = <<local[c].nr, n>>

\* The listing that an upload goes by still tells what it would overwrite.
ListingHolds(c) ==
    At(c, "save") => \A n \in Names \cap Range(local[c].names) :
        <<local[c].slug, n>> \in DOMAIN disk \ crowded => n \in local[c].seen

\* The name that rename_image has looked for is still free.
TargetFree(c) == At(c, "rename") => Target(c) \notin DOMAIN disk \ crowded

Sound(c) == SavedThere(c) /\ ListingHolds(c) /\ TargetFree(c)

\* While nobody loses documents, pictures and requests are about documents that
\* are there, or were.
Reachable ==
    Column \notin crowded =>
        /\ \A p \in DOMAIN disk : p[1] \in Range(docs) \cup renamed
        /\ \A c \in Curators :
               /\ local[c].at \in OnPictures => local[c].slug \in Range(docs) \cup renamed
               /\ At(c, "write") => local[c].read = docs

\* Once rmtree has run, only crowded files are written.
Going ==
    /\ ~exists \/ (\E c \in Curators : At(c, "commit")) => DOMAIN disk \subseteq crowded
    /\ ~exists => \A c \in Curators : At(c, "write") \/ Touched(local[c]) \subseteq crowded

IInv == /\ Typed /\ Met /\ Stored
        /\ (\A c \in Curators : Sound(c))
        /\ Reachable /\ Going

-----------------------------------------------------------------------------
(* The operators the model is built from.                                   *)

LEMMA RangeOfAppend ==
    ASSUME NEW S, NEW q \in Seq(S), NEW x \in S
    PROVE  Range(Append(q, x)) = Range(q) \cup {x}
<1>1. /\ DOMAIN Append(q, x) = 1 .. (Len(q) + 1) /\ DOMAIN q = 1 .. Len(q)
      /\ Append(q, x)[Len(q) + 1] = x
      /\ \A i \in 1 .. Len(q) : Append(q, x)[i] = q[i]
  OBVIOUS
<1>2. \A i \in 1 .. (Len(q) + 1) : i \in 1 .. Len(q) \/ i = Len(q) + 1 OBVIOUS
<1>3. Len(q) + 1 \in 1 .. (Len(q) + 1) /\ \A i \in 1 .. Len(q) : i \in 1 .. (Len(q) + 1) OBVIOUS
<1> QED BY <1>1, <1>2, <1>3, Zenon DEF Range

LEMMA PrefixGrows ==
    ASSUME NEW S, NEW T, NEW q \in Seq(S), NEW r \in Seq(T), NEW x \in S,
           Len(q) < Len(r), \A i \in 1 .. Len(q) : q[i] = r[i], x = r[Len(q) + 1]
    PROVE  /\ Len(Append(q, x)) <= Len(r)
           /\ \A i \in 1 .. Len(Append(q, x)) : Append(q, x)[i] = r[i]
<1>1. Len(Append(q, x)) = Len(q) + 1 /\ Append(q, x)[Len(q) + 1] = x OBVIOUS
<1>2. \A i \in 1 .. Len(q) : Append(q, x)[i] = q[i] OBVIOUS
<1>3. \A i \in 1 .. (Len(q) + 1) : i \in 1 .. Len(q) \/ i = Len(q) + 1 OBVIOUS
<1> QED BY <1>1, <1>2, <1>3

\* What a request touches, by the step it is at.
LEMMA TouchedBy ==
    ASSUME NEW l
    PROVE  /\ l.at = "idle" => Touched(l) = {}
           /\ l.at = "write" => Touched(l) = {Column}
           /\ l.at \in {"rmtree", "commit"} => Touched(l) = Paths
           /\ l.at \in OnPictures => Touched(l) = {l.slug} \X (Range(l.names) \ {Bad})
BY DEF Touched, OnPictures, Uploading, OnePicture, TwoNames

LEMMA IdleIsIdle == Idle.at = "idle" /\ Idle \in RequestType /\ Shape(Idle) /\ Touched(Idle) = {}
<1>1. <<>> \in Seq(Names \cup Slugs \cup {Bad}) /\ <<>> \in Seq(Names) /\ <<>> \in Seq(Slugs)
  OBVIOUS
<1>2. Idle \in RequestType /\ Idle.at = "idle"
  BY <1>1, BoundsAssumption DEF Idle, RequestType, Steps
<1>3. Shape(Idle)
  BY <1>2 DEF Shape, OnPictures, Uploading, OnePicture, TwoNames
<1> QED BY <1>2, <1>3, TouchedBy

\* The files of a request on pictures are below its slug.
LEMMA TouchesPaths ==
    ASSUME NEW l \in RequestType, Shape(l), l.at \in OnPictures
    PROVE  Touched(l) \subseteq Paths
<1>1. Range(l.names) \ {Bad} \subseteq Names
  <2>1. CASE l.at \in Uploading
    BY <2>1 DEF Shape, Range, RequestType
  <2>2. CASE l.at \in OnePicture \cup TwoNames
    BY <2>2 DEF Shape, Range, RequestType
  <2> QED BY <2>1, <2>2 DEF OnPictures
<1> QED BY <1>1, TouchedBy DEF Shape, Paths

LEMMA SourceTouched ==
    ASSUME Typed, NEW c \in Curators, local[c].at \in OnePicture \cup TwoNames
    PROVE  /\ Source(c) \in Touched(local[c]) /\ Source(c) \in Paths
           /\ local[c].at \in TwoNames => Target(c) \in Touched(local[c]) /\ Target(c) \in Paths
<1>1. local[c] \in RequestType /\ Shape(local[c]) /\ local[c].at \in OnPictures
  BY DEF Typed, OnPictures
<1>2. Touched(local[c]) = {local[c].slug} \X (Range(local[c].names) \ {Bad})
  BY <1>1, TouchedBy
<1>3. local[c].names[1] \in Range(local[c].names) /\ local[c].names[1] # Bad
      /\ local[c].names[1] \in Names
  BY <1>1, BadAssumption DEF Shape, Range, RequestType
<1>4. local[c].at \in TwoNames =>
          local[c].names[2] \in Range(local[c].names) /\ local[c].names[2] # Bad
          /\ local[c].names[2] \in Names
  BY <1>1, BadAssumption DEF Shape, Range, RequestType
<1> QED BY <1>1, <1>2, <1>3, <1>4 DEF Source, Target, Shape, Paths

LEMMA UpcomingTouched ==
    ASSUME Typed, NEW c \in Curators, Saving(c), Acceptable(c)
    PROVE  /\ <<local[c].slug, Upcoming(c)>> \in Touched(local[c])
           /\ Upcoming(c) \in Names \cap Range(local[c].names)
           /\ local[c].slug \in Slugs
<1>1. local[c] \in RequestType /\ Shape(local[c]) /\ local[c].at \in OnPictures
  BY DEF Typed, OnPictures, Saving, At, Uploading
<1>2. Upcoming(c) \in Range(local[c].names) /\ Upcoming(c) \in Names \cup {Bad}
  BY <1>1 DEF Saving, At, Upcoming, Shape, Range, RequestType, Uploading
<1> QED BY <1>1, <1>2, TouchedBy DEF Acceptable, Shape

-----------------------------------------------------------------------------
(* A step of a request.  It only changes files that the request touches,    *)
(* so what holds of the others holds on.                                    *)

\* The request of c goes on as l, or is answered.
Goes(c, l) ==
    /\ local[c].at \in OnPictures
    /\ local' = [local EXCEPT ![c] = l]
    /\ l \in RequestType /\ Shape(l)
    /\ l.at = "idle" \/ (l.at \in OnPictures /\ l.slug = local[c].slug)
    /\ Touched(l) \subseteq Touched(local[c])
    /\ UNCHANGED <<row, crowded, renamed>>

\* Only files that c touches have changed.
Within(c) ==
    \A p : p \notin Touched(local[c]) =>
               /\ p \in DOMAIN disk' <=> p \in DOMAIN disk
               /\ p \in DOMAIN disk => disk'[p] = disk[p]

LEMMA MetKept ==
    ASSUME IInv, NEW c \in Curators, NEW l, local' = [local EXCEPT ![c] = l],
           Touched(l) \subseteq Touched(local[c]), crowded \subseteq crowded'
    PROVE  Met'
<1> SUFFICES ASSUME NEW d \in Curators, NEW e \in Curators, d # e
             PROVE  Touched(local'[d]) \cap Touched(local'[e]) \subseteq crowded'
  BY DEF Met
<1>1. Touched(local'[d]) \subseteq Touched(local[d]) /\ Touched(local'[e]) \subseteq Touched(local[e])
  BY DEF IInv, Typed
<1> QED BY <1>1 DEF IInv, Met

LEMMA OthersSound ==
    ASSUME IInv, NEW c \in Curators, NEW l, Goes(c, l), Within(c),
           NEW d \in Curators, d # c
    PROVE  Sound(d)'
<1>1. local'[d] = local[d] /\ local[d] \in RequestType /\ Shape(local[d])
  BY DEF IInv, Typed, Goes
<1>2. \A p \in Touched(local[d]) \ crowded : p \notin Touched(local[c])
  BY DEF IInv, Met
<1>3. \A p \in Touched(local[d]) \ crowded :
          /\ p \in DOMAIN disk' <=> p \in DOMAIN disk
          /\ p \in DOMAIN disk => disk'[p] = disk[p]
  BY <1>2 DEF Within
<1>4. crowded' = crowded BY DEF Goes
<1>5. Sound(d) BY DEF IInv
<1>6. ASSUME At(d, "save"), NEW n \in Range(local[d].names), n \in Names
      PROVE  <<local[d].slug, n>> \in Touched(local[d])
  BY <1>1, <1>6, TouchedBy, BadAssumption DEF At, OnPictures, Uploading
<1>7. SavedThere(d)'
  <2> SUFFICES ASSUME At(d, "save"), NEW n \in Range(local[d].saved)
               PROVE  /\ n \in local[d].seen
                      /\ \/ <<local[d].slug, n>> \in crowded
                         \/ /\ <<local[d].slug, n>> \in DOMAIN disk'
                            /\ disk'[<<local[d].slug, n>>] = <<local[d].nr, n>>
    BY <1>1, <1>4 DEF SavedThere, At
  <2>1. n \in Range(local[d].names) /\ n \in Names
    BY <1>1 DEF At, Shape, Uploading, Range, RequestType
  <2> QED BY <2>1, <1>3, <1>5, <1>6 DEF Sound, SavedThere
<1>8. ListingHolds(d)'
  <2> SUFFICES ASSUME At(d, "save"), NEW n \in Names \cap Range(local[d].names),
                      <<local[d].slug, n>> \in DOMAIN disk' \ crowded
               PROVE  n \in local[d].seen
    BY <1>1, <1>4 DEF ListingHolds, At
  <2> QED BY <1>3, <1>5, <1>6 DEF Sound, ListingHolds
<1>9. TargetFree(d)'
  <2> SUFFICES ASSUME At(d, "rename") PROVE Target(d) \notin DOMAIN disk' \ crowded
    BY <1>1, <1>4 DEF TargetFree, At, Target
  <2>1. Target(d) \in Touched(local[d])
    BY SourceTouched DEF IInv, At, TwoNames
  <2> QED BY <2>1, <1>3, <1>5 DEF Sound, TargetFree
<1> QED BY <1>7, <1>8, <1>9 DEF Sound

LEMMA ReachableKept ==
    ASSUME IInv, NEW c \in Curators, NEW l, Goes(c, l), Within(c)
    PROVE  Reachable'
<1> SUFFICES ASSUME Column \notin crowded
             PROVE  /\ \A p \in DOMAIN disk' : p[1] \in Range(docs) \cup renamed
                    /\ \A d \in Curators :
                           /\ local'[d].at \in OnPictures => local'[d].slug \in Range(docs) \cup renamed
                           /\ local'[d].at = "write" => local'[d].read = docs
  BY DEF Reachable, Goes, At, row
<1>1. Reachable /\ local[c].slug \in Range(docs) \cup renamed BY DEF IInv, Reachable, Goes
<1>2. ASSUME NEW p \in DOMAIN disk' PROVE p[1] \in Range(docs) \cup renamed
  <2>1. CASE p \in Touched(local[c]) BY <1>1, <2>1, TouchedBy DEF Goes
  <2>2. CASE p \notin Touched(local[c]) BY <1>1, <2>2 DEF Within, Reachable
  <2> QED BY <2>1, <2>2
<1>3. ASSUME NEW d \in Curators
      PROVE  /\ local'[d].at \in OnPictures => local'[d].slug \in Range(docs) \cup renamed
             /\ local'[d].at = "write" => local'[d].read = docs
  BY <1>1 DEF Reachable, Goes, IInv, Typed, At, OnPictures, Uploading, OnePicture, TwoNames
<1> QED BY <1>2, <1>3

LEMMA GoingKept ==
    ASSUME IInv, NEW c \in Curators, NEW l, Goes(c, l), Within(c)
    PROVE  Going'
<1>1. \A d \in Curators : d # c => local'[d] = local[d] BY DEF Goes, IInv, Typed
<1>2. local'[c] = l BY DEF Goes, IInv, Typed
<1>3. l.at # "commit" /\ l.at # "write" /\ local[c].at # "write"
  BY DEF Goes, OnPictures, Uploading, OnePicture, TwoNames
<1>4. exists' = exists /\ crowded' = crowded BY DEF Goes, row
<1>5. ASSUME ~exists \/ \E d \in Curators : At(d, "commit")'
      PROVE  DOMAIN disk' \subseteq crowded
  <2>1. DOMAIN disk \subseteq crowded
    BY <1>1, <1>2, <1>3, <1>5 DEF IInv, Going, At
  <2>2. Touched(local[c]) \subseteq crowded
    <3>1. CASE ~exists BY <1>3, <3>1 DEF IInv, Going, At
    <3>2. CASE \E d \in Curators : At(d, "commit")'
      <4>1. PICK d \in Curators : d # c /\ local[d].at = "commit"
        BY <1>1, <1>2, <1>3, <3>2 DEF At
      <4>2. Touched(local[d]) = Paths BY <4>1, TouchedBy
      <4>3. Touched(local[c]) \subseteq Paths BY TouchesPaths DEF IInv, Typed, Goes
      <4> QED BY <4>1, <4>2, <4>3 DEF IInv, Met
    <3> QED BY <1>5, <3>1, <3>2
  <2> QED BY <2>1, <2>2 DEF Within
<1>6. ASSUME ~exists, NEW d \in Curators
      PROVE  local'[d].at = "write" \/ Touched(local'[d]) \subseteq crowded
  BY <1>1, <1>2, <1>3, <1>6 DEF IInv, Going, At, Goes
<1> QED BY <1>4, <1>5, <1>6 DEF Going, At

LEMMA StepOnPictures ==
    ASSUME IInv, NEW c \in Curators, NEW l, Goes(c, l), Within(c),
           TypeOK', Stored', Sound(c)'
    PROVE  IInv'
<1>1. Typed' BY DEF Typed, IInv, Goes
<1>2. Met' BY MetKept DEF Goes
<1>3. \A d \in Curators : Sound(d)' BY OthersSound
<1> QED BY <1>1, <1>2, <1>3, ReachableKept, GoingKept DEF IInv

-----------------------------------------------------------------------------
(* The steps of the requests on pictures.                                   *)

LEMMA Answered ==
    ASSUME IInv, NEW c \in Curators, Answer(c), local[c].at \in OnPictures,
           UNCHANGED <<row, crowded, renamed>>
    PROVE  Goes(c, Idle) /\ Sound(c)'
<1>1. local'[c] = Idle BY DEF IInv, Typed, Answer
<1>2. Goes(c, Idle) BY IdleIsIdle DEF Answer, Goes
<1>3. Sound(c)'
  BY <1>1, IdleIsIdle DEF Sound, SavedThere, ListingHolds, TargetFree, At
<1> QED BY <1>2, <1>3

\* A request that is answered and leaves everything as it is.
LEMMA JustAnswered ==
    ASSUME IInv, NEW c \in Curators, Answer(c), local[c].at \in OnPictures,
           UNCHANGED <<row, disk, told, requests, crowded, renamed>>,
           dirs' \subseteq Slugs, DOMAIN disk \subseteq dirs' \X Names
    PROVE  IInv'
<1>1. Goes(c, Idle) /\ Sound(c)' BY Answered
<1>2. Within(c) BY DEF Within
<1>3. TypeOK' BY DEF IInv, Typed, TypeOK, row
<1>4. Stored' BY DEF IInv, Stored
<1> QED BY <1>1, <1>2, <1>3, <1>4, StepOnPictures

LEMMA PrepareStep == ASSUME IInv, NEW c \in Curators, Prepare(c) PROVE IInv'
<1> DEFINE l == [local[c] EXCEPT !.at = "save", !.seen = NamesIn(local[c].slug)]
<1>1. local[c] \in RequestType /\ Shape(local[c]) /\ local[c].at = "prepare"
  BY DEF IInv, Typed, Prepare, At
<1>2. NamesIn(local[c].slug) \subseteq Names BY DEF IInv, Typed, TypeOK, NamesIn
<1>3. l \in RequestType /\ l.at = "save" /\ l.slug = local[c].slug /\ l.saved = <<>>
      /\ l.names = local[c].names /\ l.seen = NamesIn(local[c].slug) /\ l.nr = local[c].nr
  BY <1>1, <1>2 DEF RequestType, Steps, Shape
<1>4. Shape(l)
  BY <1>1, <1>3 DEF Shape, OnPictures, Uploading, OnePicture, TwoNames
<1>5. local' = [local EXCEPT ![c] = l] /\ local'[c] = l
  BY DEF Prepare, IInv, Typed
<1>6. Touched(l) = Touched(local[c])
  BY <1>1, <1>3, TouchedBy DEF OnPictures, Uploading
<1> HIDE DEF l
<1>7. Goes(c, l)
  BY <1>1, <1>3, <1>4, <1>5, <1>6 DEF Goes, OnPictures, Uploading, Prepare
<1>8. Within(c) BY DEF Within, Prepare
<1>9. TypeOK'
  BY <1>1 DEF IInv, Typed, TypeOK, Prepare, row, Shape, OnPictures, Uploading
<1>10. Stored' BY DEF IInv, Stored, Prepare
<1>11. Sound(c)'
  <2>1. SavedThere(c)' BY <1>3, <1>5 DEF SavedThere, Range
  <2>2. ListingHolds(c)'
    BY <1>3, <1>5 DEF ListingHolds, NamesIn, Prepare
  <2>3. TargetFree(c)' BY <1>3, <1>5 DEF TargetFree, At
  <2> QED BY <2>1, <2>2, <2>3 DEF Sound
<1> QED BY <1>7, <1>8, <1>9, <1>10, <1>11, StepOnPictures

\* What an upload may write is not there, unless another request is about it.
LEMMA NothingOverwritten ==
    ASSUME IInv, NEW c \in Curators, Saving(c), Acceptable(c)
    PROVE  <<local[c].slug, Upcoming(c)>> \notin DOMAIN disk \ crowded
BY UpcomingTouched DEF IInv, Sound, ListingHolds, Saving, At, Acceptable

LEMMA SaveStep == ASSUME IInv, NEW c \in Curators, Save(c) PROVE IInv'
<1> DEFINE n == Upcoming(c)
           p == <<local[c].slug, n>>
           l == [local[c] EXCEPT !.saved = Append(@, n), !.seen = @ \cup {n}]
<1>1. local[c] \in RequestType /\ Shape(local[c]) /\ local[c].at = "save" /\ Saving(c) /\ Acceptable(c)
  BY DEF IInv, Typed, Save, Saving, At
<1>2. p \in Touched(local[c]) /\ n \in Names /\ local[c].slug \in Slugs
  BY <1>1, UpcomingTouched DEF IInv
<1>3. /\ l \in RequestType /\ l.at = "save" /\ l.slug = local[c].slug /\ l.nr = local[c].nr
      /\ l.names = local[c].names /\ l.seen = local[c].seen \cup {n}
      /\ l.saved = Append(local[c].saved, n)
  <2>1. Append(local[c].saved, n) \in Seq(Names) /\ local[c].seen \cup {n} \in SUBSET Names
    BY <1>1, <1>2 DEF RequestType
  <2> QED BY <1>1, <2>1 DEF RequestType
<1>4. Shape(l)
  <2>1. Len(l.saved) <= Len(l.names) /\ \A i \in 1 .. Len(l.saved) : l.saved[i] = l.names[i]
    <3>1. /\ local[c].saved \in Seq(Names) /\ local[c].names \in Seq(Names \cup {Bad})
          /\ Len(local[c].saved) < Len(local[c].names)
          /\ \A i \in 1 .. Len(local[c].saved) : local[c].saved[i] = local[c].names[i]
          /\ n = local[c].names[Len(local[c].saved) + 1]
      BY <1>1 DEF Shape, Uploading, Saving, Upcoming, RequestType
    <3> HIDE DEF n, l
    <3> QED BY <1>2, <1>3, <3>1, PrefixGrows
  <2> QED BY <1>1, <1>3, <2>1 DEF Shape, OnPictures, Uploading, OnePicture, TwoNames
<1>5. local' = [local EXCEPT ![c] = l] /\ local'[c] = l
  BY DEF Save, IInv, Typed
<1>6. Touched(l) = Touched(local[c])
  BY <1>1, <1>3, TouchedBy DEF OnPictures, Uploading
<1>7. Range(l.saved) = Range(local[c].saved) \cup {n}
  BY <1>1, <1>2, <1>3, RangeOfAppend DEF RequestType
<1>8. disk' = Put(disk, p, <<local[c].nr, n>>) BY DEF Save
<1>9. p \notin DOMAIN disk \ crowded BY <1>1, NothingOverwritten
<1>10. crowded' = crowded /\ told' = told /\ local[c].slug \in dirs BY DEF Save
<1>11. n \notin Range(local[c].saved)
  BY <1>1 DEF IInv, Sound, SavedThere, At, Acceptable
<1>12. <<local[c].nr, n>> \in Pictures
  BY <1>1, <1>2 DEF Pictures, RequestType, Shape, Uploading
<1>13. p \in dirs \X Names BY <1>2, <1>10
<1>14. UNCHANGED <<row, dirs, requests, renamed>> BY DEF Save
<1> HIDE DEF l, p, n
<1>15. Goes(c, l)
  BY <1>1, <1>3, <1>4, <1>5, <1>6, <1>10, <1>14 DEF Goes, OnPictures, Uploading
<1>16. DOMAIN disk' = DOMAIN disk \cup {p} /\ disk'[p] = <<local[c].nr, n>>
       /\ \A q \in DOMAIN disk \ {p} : disk'[q] = disk[q]
  BY <1>8 DEF Put
<1>17. Within(c) BY <1>2, <1>8, <1>16 DEF Within, Put
<1>18. TypeOK'
  <2>1. DOMAIN disk' \subseteq dirs \X Names /\ Range(disk') \subseteq Pictures
    BY <1>12, <1>13, <1>16 DEF IInv, Typed, TypeOK, Range
  <2> QED BY <2>1, <1>10, <1>14 DEF IInv, Typed, TypeOK, row
<1>19. Stored' BY <1>9, <1>10, <1>16 DEF IInv, Stored
<1>20. Sound(c)'
  <2>1. SavedThere(c)'
    <3> SUFFICES ASSUME NEW m \in Range(l.saved)
                 PROVE  /\ m \in l.seen
                        /\ \/ <<l.slug, m>> \in crowded
                           \/ <<l.slug, m>> \in DOMAIN disk' /\ disk'[<<l.slug, m>>] = <<l.nr, m>>
      BY <1>5, <1>10 DEF SavedThere
    <3>1. CASE m = n BY <3>1, <1>3, <1>16 DEF p
    <3>2. CASE m # n
      BY <3>2, <1>1, <1>3, <1>7, <1>16 DEF IInv, Sound, SavedThere, At, p
    <3> QED BY <3>1, <3>2
  <2>2. ListingHolds(c)'
    BY <1>1, <1>3, <1>5, <1>10, <1>16 DEF IInv, Sound, ListingHolds, At, p
  <2>3. TargetFree(c)' BY <1>3, <1>5 DEF TargetFree, At
  <2> QED BY <2>1, <2>2, <2>3 DEF Sound
<1> QED BY <1>15, <1>17, <1>18, <1>19, <1>20, StepOnPictures

\* The request of c ends while it writes a file, which is cut short.
LEMMA CutShortStep ==
    ASSUME IInv, NEW c \in Curators, Saving(c), Acceptable(c), local[c].slug \in dirs,
           CutShort(c), Answer(c), UNCHANGED <<row, dirs, requests, told, crowded, renamed>>
    PROVE  IInv'
<1> DEFINE p == <<local[c].slug, Upcoming(c)>>
<1>1. local[c].at \in OnPictures BY DEF Saving, At, OnPictures, Uploading
<1>2. p \in Touched(local[c]) /\ p \in dirs \X Names BY UpcomingTouched DEF IInv
<1>3. p \notin DOMAIN disk \ crowded BY NothingOverwritten
<1>4. disk' = Put(disk, p, Torn) BY DEF CutShort
<1> HIDE DEF p
<1>5. DOMAIN disk' = DOMAIN disk \cup {p} /\ disk'[p] = Torn
      /\ \A q \in DOMAIN disk \ {p} : disk'[q] = disk[q]
  BY <1>4 DEF Put
<1>6. Goes(c, Idle) /\ Sound(c)' BY <1>1, Answered
<1>7. Within(c) BY <1>2, <1>4, <1>5 DEF Within, Put
<1>8. TypeOK'
  <2>1. DOMAIN disk' \subseteq dirs \X Names /\ Range(disk') \subseteq Pictures
    BY <1>2, <1>5 DEF IInv, Typed, TypeOK, Range, Pictures
  <2> QED BY <2>1 DEF IInv, Typed, TypeOK, row
<1>9. Stored' BY <1>3, <1>5 DEF IInv, Stored
<1> QED BY <1>6, <1>7, <1>8, <1>9, StepOnPictures

LEMMA UploadedStep == ASSUME IInv, NEW c \in Curators, Uploaded(c) PROVE IInv'
<1> DEFINE stored == {local[c].slug} \X Range(local[c].saved)
<1>1. local[c] \in RequestType /\ Shape(local[c]) /\ At(c, "save")
  BY DEF IInv, Typed, Uploaded
<1>2. local[c].at \in OnPictures BY <1>1 DEF At, OnPictures, Uploading
<1>3. Goes(c, Idle) /\ Sound(c)' BY <1>2, Answered DEF Uploaded
<1>4. Within(c) BY DEF Within, Uploaded, files
<1>5. /\ DOMAIN told' = DOMAIN told \cup stored
      /\ \A p \in stored : told'[p] = <<local[c].nr, p[2]>>
      /\ \A p \in DOMAIN told \ stored : told'[p] = told[p]
      /\ UNCHANGED <<row, files, requests, crowded, renamed>>
  BY DEF Uploaded
<1>6. \A p \in stored : p \in Paths /\ <<local[c].nr, p[2]>> \in Pictures
  BY <1>1 DEF Shape, OnPictures, Uploading, At, Range, RequestType, Paths, Pictures
<1>7. \A p \in stored \ crowded : p \in DOMAIN disk /\ disk[p] = <<local[c].nr, p[2]>>
  BY <1>1 DEF IInv, Sound, SavedThere
<1> HIDE DEF stored
<1>8. TypeOK'
  <2>1. DOMAIN told' \subseteq Paths /\ Range(told') \subseteq Pictures
    <3>1. DOMAIN told \subseteq Paths /\ \A p \in DOMAIN told : told[p] \in Pictures
      BY DEF IInv, Typed, TypeOK, Range
    <3>2. \A p \in DOMAIN told' : p \in Paths /\ told'[p] \in Pictures
      BY <3>1, <1>5, <1>6
    <3> QED BY <3>2 DEF Range
  <2> QED BY <2>1, <1>5 DEF IInv, Typed, TypeOK, row, files
<1>9. Stored' BY <1>5, <1>7 DEF IInv, Stored, files
<1> QED BY <1>3, <1>4, <1>8, <1>9, StepOnPictures

LEMMA UnlinkStep == ASSUME IInv, NEW c \in Curators, Unlink(c) PROVE IInv'
<1> DEFINE p == Source(c)
           l == [local[c] EXCEPT !.at = "rmdir"]
<1>1. local[c] \in RequestType /\ Shape(local[c]) /\ local[c].at = "unlink"
  BY DEF IInv, Typed, Unlink, At
<1>2. l \in RequestType /\ l.at = "rmdir" /\ l.slug = local[c].slug /\ l.names = local[c].names
  BY <1>1 DEF RequestType, Steps
<1>3. Shape(l) BY <1>1, <1>2 DEF Shape, OnPictures, Uploading, OnePicture, TwoNames
<1>4. local' = [local EXCEPT ![c] = l] /\ local'[c] = l BY DEF Unlink, IInv, Typed
<1>5. Touched(l) = Touched(local[c])
  BY <1>1, <1>2, TouchedBy DEF OnPictures, OnePicture
<1>6. Goes(c, l)
  BY <1>1, <1>2, <1>3, <1>4, <1>5 DEF Goes, OnPictures, OnePicture, Unlink
<1>7. p \in Touched(local[c]) BY <1>1, SourceTouched DEF IInv, OnePicture
<1>8. /\ disk' = Restrict(disk, DOMAIN disk \ {p}) /\ told' = Restrict(told, DOMAIN told \ {p})
      /\ UNCHANGED <<row, dirs, requests, crowded, renamed>>
  BY DEF Unlink, Source
<1> HIDE DEF p, l
<1>9. /\ DOMAIN disk' = DOMAIN disk \ {p} /\ \A q \in DOMAIN disk' : disk'[q] = disk[q]
  BY <1>8 DEF Restrict
<1>10. /\ DOMAIN told' = DOMAIN told \ {p} /\ \A q \in DOMAIN told' : told'[q] = told[q]
  BY <1>8 DEF Restrict
<1>11. Within(c) BY <1>7, <1>9 DEF Within
<1>12. TypeOK'
  <2>1. Range(told') \subseteq Range(told) /\ Range(disk') \subseteq Range(disk)
    BY <1>9, <1>10 DEF Range
  <2> QED BY <2>1, <1>8, <1>9, <1>10 DEF IInv, Typed, TypeOK, row
<1>13. Stored' BY <1>8, <1>9, <1>10 DEF IInv, Stored
<1>14. Sound(c)' BY <1>2, <1>4 DEF Sound, SavedThere, ListingHolds, TargetFree, At
<1> QED BY <1>6, <1>11, <1>12, <1>13, <1>14, StepOnPictures

LEMMA RmdirStep == ASSUME IInv, NEW c \in Curators, Rmdir(c) PROVE IInv'
<1>1. DOMAIN disk \subseteq dirs' \X Names
  <2> SUFFICES ASSUME NEW p \in DOMAIN disk PROVE p \in dirs' \X Names OBVIOUS
  <2>1. p \in dirs \X Names BY DEF IInv, Typed, TypeOK
  <2>2. p[2] \in NamesIn(p[1]) BY DEF NamesIn
  <2> QED BY <2>1, <2>2 DEF Rmdir
<1>2. local[c].at \in OnPictures BY DEF Rmdir, At, OnPictures, OnePicture
<1>3. dirs' \subseteq Slugs BY DEF Rmdir, IInv, Typed, TypeOK
<1> QED BY <1>1, <1>2, <1>3, JustAnswered DEF Rmdir

LEMMA CheckStep == ASSUME IInv, NEW c \in Curators, Check(c) PROVE IInv'
<1> DEFINE l == [local[c] EXCEPT !.at = "rename"]
<1>1. local[c] \in RequestType /\ Shape(local[c]) /\ local[c].at = "check"
  BY DEF IInv, Typed, Check, At
<1>2. l \in RequestType /\ l.at = "rename" /\ l.slug = local[c].slug /\ l.names = local[c].names
  BY <1>1 DEF RequestType, Steps
<1>3. Shape(l) BY <1>1, <1>2 DEF Shape, OnPictures, Uploading, OnePicture, TwoNames
<1>4. local' = [local EXCEPT ![c] = l] /\ local'[c] = l BY DEF Check, IInv, Typed
<1>5. Touched(l) = Touched(local[c])
  BY <1>1, <1>2, TouchedBy DEF OnPictures, TwoNames
<1>6. Goes(c, l)
  BY <1>1, <1>2, <1>3, <1>4, <1>5 DEF Goes, OnPictures, TwoNames, Check
<1> HIDE DEF l
<1>7. Within(c) BY DEF Within, Check, files
<1>8. TypeOK' BY DEF IInv, Typed, TypeOK, Check, row, files
<1>9. Stored' BY DEF IInv, Stored, Check, files
<1>10. Sound(c)'
  BY <1>2, <1>4 DEF Sound, SavedThere, ListingHolds, TargetFree, At, Check, Refused, Target, files
<1> QED BY <1>6, <1>7, <1>8, <1>9, <1>10, StepOnPictures

LEMMA RenameStep == ASSUME IInv, NEW c \in Curators, Rename(c) PROVE IInv'
<1> DEFINE old == Source(c)
           new == Target(c)
           x == disk[old]
<1>1. local[c].at = "rename" BY DEF Rename, At
<1>2. Goes(c, Idle) /\ Sound(c)'
  BY <1>1, Answered DEF Rename, OnPictures, TwoNames
<1>3. old \in Touched(local[c]) /\ new \in Touched(local[c]) /\ new \in Paths
  BY <1>1, SourceTouched DEF IInv, TwoNames
<1>4. old \in DOMAIN disk /\ new[1] = old[1] BY DEF Rename, Source, Target
<1>5. /\ disk' = Put(Restrict(disk, DOMAIN disk \ {old}), new, x)
      /\ told' = Put(Restrict(told, (DOMAIN disk \ {old}) \cap DOMAIN told), new, x)
      /\ UNCHANGED <<row, dirs, requests, crowded, renamed>>
  BY DEF Rename
<1> HIDE DEF old, new, x
<1>6. /\ DOMAIN disk' = (DOMAIN disk \ {old}) \cup {new} /\ disk'[new] = x
      /\ \A q \in DOMAIN disk \ {old, new} : disk'[q] = disk[q]
  BY <1>5 DEF Put, Restrict
<1>7. /\ DOMAIN told' = ((DOMAIN disk \ {old}) \cap DOMAIN told) \cup {new} /\ told'[new] = x
      /\ \A q \in DOMAIN told' \ {new} : told'[q] = told[q]
  BY <1>5 DEF Put, Restrict
<1>8. Within(c) BY <1>3, <1>6 DEF Within
<1>9. x \in Pictures BY <1>4 DEF x, IInv, Typed, TypeOK, Range
<1>10. TypeOK'
  <2>1. new \in dirs \X Names BY <1>3, <1>4 DEF IInv, Typed, TypeOK, Paths
  <2>2. Range(disk') \subseteq Pictures /\ Range(told') \subseteq Pictures
    BY <1>6, <1>7, <1>9 DEF Range, IInv, Typed, TypeOK
  <2> QED BY <2>1, <2>2, <1>3, <1>5, <1>6, <1>7 DEF IInv, Typed, TypeOK, row
<1>11. Stored' BY <1>5, <1>6, <1>7 DEF IInv, Stored
<1> QED BY <1>2, <1>8, <1>10, <1>11, StepOnPictures

LEMMA UploadStep ==
    ASSUME IInv, NEW c \in Curators,
           Prepare(c) \/ Save(c) \/ SaveRefused(c) \/ SaveFails(c) \/ Uploaded(c)
    PROVE  IInv'
<1>1. CASE SaveRefused(c)
  BY <1>1, JustAnswered
     DEF SaveRefused, Saving, At, OnPictures, Uploading, files, IInv, Typed, TypeOK
<1>2. CASE SaveFails(c)
  <2>1. CASE CutShort(c) BY <1>2, <2>1, CutShortStep DEF SaveFails
  <2>2. CASE UNCHANGED disk
    BY <1>2, <2>2, JustAnswered
       DEF SaveFails, Saving, At, OnPictures, Uploading, IInv, Typed, TypeOK
  <2> QED BY <1>2, <2>1, <2>2 DEF SaveFails
<1> QED BY <1>1, <1>2, PrepareStep, SaveStep, UploadedStep

LEMMA NotThereStep == ASSUME IInv, NEW c \in Curators, NotThere(c) PROVE IInv'
<1>1. local[c].at \in OnPictures BY DEF NotThere, At, OnPictures, OnePicture, TwoNames
<1> QED BY <1>1, JustAnswered DEF NotThere, files, IInv, Typed, TypeOK

-----------------------------------------------------------------------------
(* The beginning of a request.                                              *)

LEMMA BeginStep ==
    ASSUME IInv, NEW c \in Curators, NEW step \in RequestType, Begin(c, step),
           step.at \in {"prepare", "unlink", "check", "write", "rmtree"},
           Shape([step EXCEPT !.nr = requests + 1]),
           step.at \in OnPictures => step.slug \in Range(docs),
           step.at = "write" => step.read = docs,
           UNCHANGED <<row, files, told, renamed>>
    PROVE  IInv'
<1> DEFINE l == [step EXCEPT !.nr = requests + 1]
<1>1. requests \in 0 .. MaxRequests /\ requests < MaxRequests BY DEF IInv, Typed, TypeOK, Begin
<1>2. requests + 1 \in 0 .. MaxRequests BY <1>1, BoundsAssumption
<1>3. /\ l \in RequestType /\ l.at = step.at /\ l.slug = step.slug /\ l.names = step.names
      /\ l.read = step.read
  BY <1>2 DEF RequestType
<1>4. local' = [local EXCEPT ![c] = l] /\ local'[c] = l /\ local[c] = Idle /\ exists
      /\ requests' = requests + 1
  BY DEF Begin, IInv, Typed
<1>5. \A d \in Curators : d # c => local'[d] = local[d] BY <1>4 DEF IInv, Typed
<1>6. Touched(l) = Touched(step) /\ Touched(l) \subseteq Paths \cup {Column}
  BY <1>3, TouchedBy, TouchesPaths DEF OnPictures, Uploading, OnePicture, TwoNames
<1>7. /\ crowded \subseteq crowded' /\ crowded' \subseteq crowded \cup Touched(l)
      /\ \A d \in Curators : Touched(l) \cap Touched(local[d]) \subseteq crowded'
  BY <1>6 DEF Begin
<1>8. Shape(l) OBVIOUS
<1> HIDE DEF l
<1>9. l.at \notin {"save", "rename", "commit"} BY <1>3
<1>10. UNCHANGED <<exists, docs, dirs, disk>> BY DEF row, files
<1>11. Typed'
  <2>1. TypeOK' BY <1>2, <1>4, <1>6, <1>7, <1>10 DEF IInv, Typed, TypeOK
  <2> QED BY <2>1, <1>3, <1>4, <1>5, <1>8 DEF IInv, Typed
<1>12. Met'
  <2> SUFFICES ASSUME NEW d \in Curators, NEW e \in Curators, d # e
               PROVE  Touched(local'[d]) \cap Touched(local'[e]) \subseteq crowded'
    BY DEF Met
  <2>1. CASE d = c BY <2>1, <1>4, <1>5, <1>7
  <2>2. CASE e = c BY <2>2, <1>4, <1>5, <1>7
  <2>3. CASE d # c /\ e # c BY <2>3, <1>5, <1>7 DEF IInv, Met
  <2> QED BY <2>1, <2>2, <2>3
<1>13. Stored' BY <1>7, <1>10 DEF IInv, Stored
<1>14. ASSUME NEW d \in Curators PROVE Sound(d)'
  <2>1. CASE d = c BY <2>1, <1>4, <1>9 DEF Sound, SavedThere, ListingHolds, TargetFree, At
  <2>2. CASE d # c
    BY <2>2, <1>5, <1>7, <1>10
       DEF IInv, Sound, SavedThere, ListingHolds, TargetFree, At, Target
  <2> QED BY <2>1, <2>2
<1>15. Reachable'
  <2> SUFFICES ASSUME Column \notin crowded'
               PROVE  /\ \A p \in DOMAIN disk : p[1] \in Range(docs) \cup renamed
                      /\ \A d \in Curators :
                             /\ local'[d].at \in OnPictures => local'[d].slug \in Range(docs) \cup renamed
                             /\ local'[d].at = "write" => local'[d].read = docs
    BY <1>10 DEF Reachable, At
  <2>1. Column \notin crowded BY <1>7
  <2>2. ASSUME NEW d \in Curators
        PROVE  /\ local'[d].at \in OnPictures => local'[d].slug \in Range(docs) \cup renamed
               /\ local'[d].at = "write" => local'[d].read = docs
    <3>1. CASE d = c BY <3>1, <1>3, <1>4
    <3>2. CASE d # c BY <3>2, <2>1, <1>5 DEF IInv, Reachable, At
    <3> QED BY <3>1, <3>2
  <2> QED BY <2>1, <2>2 DEF IInv, Reachable
<1>16. Going'
  <2>1. ASSUME NEW d \in Curators, At(d, "commit")' PROVE DOMAIN disk' \subseteq crowded'
    <3>1. d # c /\ At(d, "commit") BY <2>1, <1>4, <1>5, <1>9 DEF At
    <3> QED BY <3>1, <1>7, <1>10 DEF IInv, Going
  <2> QED BY <2>1, <1>4, <1>10 DEF Going
<1> QED BY <1>11, <1>12, <1>13, <1>14, <1>15, <1>16 DEF IInv

\* What the handlers ask for, as Begin and Shape see it.
LEMMA RequestTyped ==
    ASSUME NEW at \in Steps, NEW slug \in Slugs \cup {Bad},
           NEW names \in Seq(Names \cup Slugs \cup {Bad})
    PROVE  /\ Request(at, slug, names) \in RequestType
           /\ Request(at, slug, names).at = at
           /\ Request(at, slug, names).slug = slug
           /\ Request(at, slug, names).names = names
           /\ Request(at, slug, names).saved = <<>>
BY IdleIsIdle DEF Request, RequestType, Idle

LEMMA ShortSequences ==
    ASSUME NEW S, NEW x \in S, NEW y \in S
    PROVE  /\ <<>> \in Seq(S) /\ <<x>> \in Seq(S) /\ <<x, y>> \in Seq(S)
           /\ Len(<<x>>) = 1 /\ <<x>>[1] = x
           /\ Len(<<x, y>>) = 2 /\ <<x, y>>[1] = x /\ <<x, y>>[2] = y
OBVIOUS

LEMMA BeginWrite ==
    ASSUME IInv, NEW c \in Curators, NEW names \in Seq(Slugs), Len(names) \in {1, 2},
           Begin(c, [Request("write", Bad, names) EXCEPT !.read = docs]),
           Len(docs) + (IF Len(names) = 1 THEN 1 ELSE 0) <= MaxDocs,
           UNCHANGED <<row, files, told, renamed>>
    PROVE  IInv'
<1> DEFINE asked == Request("write", Bad, names)
           step == [asked EXCEPT !.read = docs]
<1>1. names \in Seq(Names \cup Slugs \cup {Bad}) OBVIOUS
<1>2. "write" \in Steps BY DEF Steps
<1>3. asked \in RequestType /\ asked.at = "write" /\ asked.names = names
  BY <1>1, <1>2, RequestTyped
<1> HIDE DEF asked
<1>4. docs \in Seq(Slugs) BY DEF IInv, Typed, TypeOK
<1>5. step \in RequestType /\ step.at = "write" /\ step.names = names /\ step.read = docs
  BY <1>3, <1>4 DEF RequestType
<1>6. Begin(c, step) BY DEF asked
<1> HIDE DEF step
<1>7. Shape([step EXCEPT !.nr = requests + 1])
  BY <1>5 DEF Shape, RequestType, OnPictures, Uploading, OnePicture, TwoNames
<1>8. step.at \notin OnPictures BY <1>5 DEF OnPictures, Uploading, OnePicture, TwoNames
<1> QED BY <1>5, <1>6, <1>7, <1>8, BeginStep

LEMMA BeginsStep ==
    ASSUME IInv, NEW c \in Curators,
           BeginUpload(c) \/ BeginDelete(c) \/ BeginRename(c) \/ BeginAdd(c) \/ BeginReplace(c)
               \/ BeginDiscard(c)
    PROVE  IInv'
<1> USE DEF OnPictures, Uploading, OnePicture, TwoNames
<1>1. requests \in Nat /\ Range(docs) \subseteq Slugs /\ docs \in Seq(Slugs) /\ Len(docs) <= MaxDocs
  BY DEF IInv, Typed, TypeOK, Range
<1>2. CASE BeginUpload(c)
  <2>1. PICK s \in Range(docs), names \in Uploads : Begin(c, Request("prepare", s, names))
    BY <1>2 DEF BeginUpload
  <2>2. names \in Seq(Names \cup {Bad}) /\ names \in Seq(Names \cup Slugs \cup {Bad})
    BY UploadsAssumption
  <2> DEFINE step == Request("prepare", s, names)
  <2>3. /\ step \in RequestType
        /\ step.at = "prepare" /\ step.slug = s /\ step.names = names /\ step.saved = <<>>
    BY <1>1, <2>2, RequestTyped DEF Steps
  <2> HIDE DEF step
  <2>4. Shape([step EXCEPT !.nr = requests + 1])
    BY <1>1, <2>2, <2>3 DEF Shape, RequestType
  <2>5. Begin(c, step) BY <2>1 DEF step
  <2> QED BY <1>2, <2>3, <2>4, <2>5, BeginStep DEF BeginUpload
<1>3. CASE BeginDelete(c)
  <2>1. PICK s \in Range(docs), n \in Names : Begin(c, Request("unlink", s, <<n>>))
    BY <1>3 DEF BeginDelete
  <2> DEFINE names == <<n>>
             step == Request("unlink", s, names)
  <2>2. n \in Names \cup Slugs \cup {Bad}
    OBVIOUS
  <2>3. names \in Seq(Names \cup Slugs \cup {Bad}) /\ Len(names) = 1 /\ names[1] = n
    BY <2>2, ShortSequences
  <2>4. Begin(c, step) BY <2>1
  <2> HIDE DEF names
  <2>5. step \in RequestType /\ step.at = "unlink" /\ step.slug = s /\ step.names = names
    BY <1>1, <2>3, RequestTyped DEF Steps
  <2> HIDE DEF step
  <2>6. Shape([step EXCEPT !.nr = requests + 1])
    BY <1>1, <2>3, <2>5 DEF Shape, RequestType
  <2> QED BY <1>3, <2>4, <2>5, <2>6, BeginStep DEF BeginDelete
<1>4. CASE BeginRename(c)
  <2>1. PICK s \in Range(docs), old \in Names, new \in Names : Begin(c, Request("check", s, <<old, new>>))
    BY <1>4 DEF BeginRename
  <2> DEFINE names == <<old, new>>
             step == Request("check", s, names)
  <2>2. old \in Names \cup Slugs \cup {Bad} /\ new \in Names \cup Slugs \cup {Bad}
    OBVIOUS
  <2>3. names \in Seq(Names \cup Slugs \cup {Bad}) /\ Len(names) = 2 /\ names[1] = old /\ names[2] = new
    BY <2>2, ShortSequences
  <2>4. Begin(c, step) BY <2>1
  <2> HIDE DEF names
  <2>5. step \in RequestType /\ step.at = "check" /\ step.slug = s /\ step.names = names
    BY <1>1, <2>3, RequestTyped DEF Steps
  <2> HIDE DEF step
  <2>6. Shape([step EXCEPT !.nr = requests + 1])
    BY <1>1, <2>3, <2>5 DEF Shape, RequestType
  <2> QED BY <1>4, <2>4, <2>5, <2>6, BeginStep DEF BeginRename
<1>5. CASE BeginAdd(c)
  <2>1. PICK s \in Slugs : Begin(c, [Request("write", Bad, <<s>>) EXCEPT !.read = docs])
    BY <1>5 DEF BeginAdd
  <2> DEFINE names == <<s>>
  <2>2. names \in Seq(Slugs) /\ Len(names) = 1
    BY ShortSequences
  <2>3. Begin(c, [Request("write", Bad, names) EXCEPT !.read = docs]) BY <2>1
  <2> HIDE DEF names
  <2>4. Len(docs) + (IF Len(names) = 1 THEN 1 ELSE 0) <= MaxDocs
    BY <1>1, <2>2, <1>5, BoundsAssumption DEF BeginAdd
  <2> QED BY <1>5, <2>2, <2>3, <2>4, BeginWrite DEF BeginAdd
<1>6. CASE BeginReplace(c)
  <2>1. PICK s \in Slugs, t \in Slugs : Begin(c, [Request("write", Bad, <<t, s>>) EXCEPT !.read = docs])
    BY <1>6 DEF BeginReplace
  <2> DEFINE names == <<t, s>>
  <2>2. names \in Seq(Slugs) /\ Len(names) = 2
    BY ShortSequences
  <2>3. Begin(c, [Request("write", Bad, names) EXCEPT !.read = docs]) BY <2>1
  <2> HIDE DEF names
  <2>4. Len(docs) + (IF Len(names) = 1 THEN 1 ELSE 0) <= MaxDocs
    BY <1>1, <2>2, <1>6, BoundsAssumption DEF BeginReplace
  <2> QED BY <1>6, <2>2, <2>3, <2>4, BeginWrite DEF BeginReplace
<1>7. CASE BeginDiscard(c)
  <2> DEFINE names == <<>>
             step == Request("rmtree", Bad, names)
  <2>1. Begin(c, step) BY <1>7 DEF BeginDiscard
  <2>2. Bad \in Names \cup Slugs \cup {Bad} OBVIOUS
  <2>3. names \in Seq(Names \cup Slugs \cup {Bad}) BY <2>2, ShortSequences
  <2> HIDE DEF names
  <2>4. step \in RequestType /\ step.at = "rmtree"
    BY <2>3, RequestTyped DEF Steps
  <2> HIDE DEF step
  <2>5. Shape([step EXCEPT !.nr = requests + 1])
    BY <2>4 DEF Shape, RequestType
  <2> QED BY <1>7, <2>1, <2>4, <2>5, BeginStep DEF BeginDiscard
<1> QED BY <1>2, <1>3, <1>4, <1>5, <1>6, <1>7

-----------------------------------------------------------------------------
(* The documents, the deletion of the release, and the requests that die.   *)

\* No document is lost by a change of the documents but the one whose slug is
\* given up.
LEMMA EditedKeeps ==
    ASSUME NEW read \in Seq(Slugs), NEW names \in Seq(Slugs), Len(names) \in {1, 2},
           NEW new \in Edited(read, names)
    PROVE  /\ new \in Seq(Slugs)
           /\ Len(new) = Len(read) + (IF Len(names) = 1 THEN 1 ELSE 0)
           /\ Range(read) \subseteq Range(new) \cup Range(Tail(names))
           /\ Range(Tail(names)) \subseteq Slugs
<1>1. names[1] \in Slugs OBVIOUS
<1>2. Range(Tail(names)) \subseteq Slugs
  <2>1. Tail(names) \in Seq(Slugs) OBVIOUS
  <2> QED BY <2>1 DEF Range
<1>3. CASE Len(names) = 1
  <2>1. new = Append(read, names[1]) BY <1>3 DEF Edited
  <2>2. Range(new) = Range(read) \cup {names[1]} BY <1>1, <2>1, RangeOfAppend
  <2>3. new \in Seq(Slugs) /\ Len(new) = Len(read) + 1 BY <1>1, <2>1
  <2> QED BY <1>2, <1>3, <2>2, <2>3
<1>4. CASE Len(names) = 2
  <2>1. PICK i \in DOMAIN read : read[i] = names[2] /\ new = [read EXCEPT ![i] = names[1]]
    BY <1>4 DEF Edited, ReplaceAt
  <2>2. new \in Seq(Slugs) /\ Len(new) = Len(read) BY <1>1, <2>1
  <2>3. names[2] \in Range(Tail(names))
    <3>1. Len(Tail(names)) = 1 /\ Tail(names)[1] = names[2] /\ Tail(names) \in Seq(Slugs) BY <1>4
    <3>2. 1 \in DOMAIN Tail(names)
      <4> DEFINE t == Tail(names)
      <4>1. t \in Seq(Slugs) /\ Len(t) = 1 BY <3>1
      <4> HIDE DEF t
      <4>2. 1 \in DOMAIN t BY <4>1
      <4> QED BY <4>2 DEF t
    <3> QED BY <3>1, <3>2 DEF Range
  <2>4. ASSUME NEW k \in DOMAIN read PROVE read[k] \in Range(new) \cup Range(Tail(names))
    <3>1. CASE k = i BY <3>1, <2>1, <2>3
    <3>2. CASE k # i
      <4>1. k \in DOMAIN new /\ new[k] = read[k] BY <3>2, <2>1
      <4> QED BY <4>1 DEF Range
    <3> QED BY <3>1, <3>2
  <2>5. Range(read) \subseteq Range(new) \cup Range(Tail(names)) BY <2>4 DEF Range
  <2> QED BY <1>2, <1>4, <2>2, <2>5
<1> QED BY <1>3, <1>4

\* A request is answered that was not about pictures: nothing changes for the
\* others.
LEMMA AnsweredElsewhere ==
    ASSUME IInv, NEW c \in Curators, Answer(c), UNCHANGED <<disk, crowded>>
    PROVE  /\ local'[c] = Idle /\ \A d \in Curators : d # c => local'[d] = local[d]
           /\ local' \in [Curators -> RequestType] /\ \A d \in Curators : Shape(local'[d])
           /\ Met' /\ \A d \in Curators : Sound(d)'
<1>1. local'[c] = Idle /\ \A d \in Curators : d # c => local'[d] = local[d]
  BY DEF IInv, Typed, Answer
<1>2. local' \in [Curators -> RequestType] /\ \A d \in Curators : Shape(local'[d])
  BY <1>1, IdleIsIdle DEF IInv, Typed, Answer
<1>3. Met' BY IdleIsIdle, MetKept DEF Answer
<1>4. ASSUME NEW d \in Curators PROVE Sound(d)'
  <2>1. CASE d = c
    BY <2>1, <1>1, IdleIsIdle DEF Sound, SavedThere, ListingHolds, TargetFree, At
  <2>2. CASE d # c
    BY <2>2, <1>1 DEF IInv, Sound, SavedThere, ListingHolds, TargetFree, At, Target
  <2> QED BY <2>1, <2>2
<1> QED BY <1>1, <1>2, <1>3, <1>4

\* A request that dies, or fails, without another trace.
LEMMA OnlyAnswered ==
    ASSUME IInv, NEW c \in Curators, Answer(c),
           UNCHANGED <<row, files, requests, told, crowded, renamed>>
    PROVE  IInv'
<1>1. UNCHANGED <<exists, docs, dirs, disk, requests, told, crowded, renamed>> BY DEF row, files
<1>2. /\ local'[c] = Idle /\ \A d \in Curators : d # c => local'[d] = local[d]
      /\ local' \in [Curators -> RequestType] /\ \A d \in Curators : Shape(local'[d])
      /\ Met' /\ \A d \in Curators : Sound(d)'
  BY <1>1, AnsweredElsewhere
<1>3. Typed' BY <1>1, <1>2 DEF IInv, Typed, TypeOK
<1>4. Stored' BY <1>1 DEF IInv, Stored
<1>5. Reachable'
  BY <1>1, <1>2, IdleIsIdle
     DEF IInv, Reachable, At, OnPictures, Uploading, OnePicture, TwoNames
<1>6. Going' BY <1>1, <1>2, IdleIsIdle DEF IInv, Going, At
<1> QED BY <1>2, <1>3, <1>4, <1>5, <1>6 DEF IInv

LEMMA WriteDocsStep == ASSUME IInv, NEW c \in Curators, WriteDocs(c) PROVE IInv'
<1> DEFINE read == local[c].read
           names == local[c].names
<1>1. /\ exists /\ local[c].at = "write" /\ docs' \in Edited(read, names)
      /\ renamed' = renamed \cup Range(Tail(names)) /\ Answer(c)
      /\ UNCHANGED <<exists, dirs, disk, requests, told, crowded>>
  BY DEF WriteDocs, At, files
<1>2. /\ read \in Seq(Slugs) /\ names \in Seq(Slugs) /\ Len(names) \in {1, 2}
      /\ Len(read) + (IF Len(names) = 1 THEN 1 ELSE 0) <= MaxDocs
  BY <1>1 DEF IInv, Typed, Shape, RequestType
<1>3. /\ docs' \in Seq(Slugs)
      /\ Len(docs') = Len(read) + (IF Len(names) = 1 THEN 1 ELSE 0)
      /\ Range(read) \subseteq Range(docs') \cup Range(Tail(names))
      /\ Range(Tail(names)) \subseteq Slugs
  BY <1>1, <1>2, EditedKeeps
<1>4. /\ local'[c] = Idle /\ \A d \in Curators : d # c => local'[d] = local[d]
      /\ local' \in [Curators -> RequestType] /\ \A d \in Curators : Shape(local'[d])
      /\ Met' /\ \A d \in Curators : Sound(d)'
  BY <1>1, AnsweredElsewhere
<1>5. Typed' BY <1>1, <1>2, <1>3, <1>4 DEF IInv, Typed, TypeOK
<1>6. Stored' BY <1>1 DEF IInv, Stored
<1>7. Going' BY <1>1, <1>4, IdleIsIdle DEF IInv, Going, At
<1>8. Reachable'
  <2> SUFFICES ASSUME Column \notin crowded
               PROVE  /\ \A p \in DOMAIN disk : p[1] \in Range(docs') \cup renamed'
                      /\ \A d \in Curators :
                             /\ local'[d].at \in OnPictures => local'[d].slug \in Range(docs') \cup renamed'
                             /\ local'[d].at = "write" => local'[d].read = docs'
    BY <1>1 DEF Reachable, At
  <2>1. read = docs BY <1>1 DEF IInv, Reachable, At
  <2>2. Range(docs) \cup renamed \subseteq Range(docs') \cup renamed' BY <1>1, <1>3, <2>1
  <2>3. ASSUME NEW d \in Curators, d # c PROVE local[d].at # "write"
    <3>1. Touched(local[c]) = {Column} BY <1>1, TouchedBy
    <3>2. local[d].at = "write" => Touched(local[d]) = {Column} BY TouchedBy
    <3> QED BY <2>3, <3>1, <3>2 DEF IInv, Met
  <2>4. Idle.at \notin OnPictures /\ Idle.at # "write"
    BY IdleIsIdle DEF OnPictures, Uploading, OnePicture, TwoNames
  <2> QED BY <1>4, <2>2, <2>3, <2>4 DEF IInv, Reachable
<1> QED BY <1>4, <1>5, <1>6, <1>7, <1>8 DEF IInv

\* When rmtree has run, whatever it has left behind is crowded.
LEMMA RmtreeStep ==
    ASSUME IInv, NEW c \in Curators, Rmtree(c) \/ RmtreeFails(c)
    PROVE  IInv'
<1> DEFINE l == [local[c] EXCEPT !.at = "commit"]
<1>1. local[c] \in RequestType /\ local[c].at = "rmtree"
  BY DEF IInv, Typed, Rmtree, RmtreeFails, At
<1>2. l \in RequestType /\ l.at = "commit" BY <1>1 DEF RequestType, Steps
<1>3. Shape(l) BY <1>2 DEF Shape, OnPictures, Uploading, OnePicture, TwoNames
<1>4. /\ local' = [local EXCEPT ![c] = l] /\ told' = <<>>
      /\ UNCHANGED <<exists, docs, requests, renamed>>
  BY DEF Rmtree, RmtreeFails, row
<1>5. Touched(l) = Paths /\ Touched(local[c]) = Paths BY <1>1, <1>2, TouchedBy
<1> HIDE DEF l
<1>6. local'[c] = l /\ \A d \in Curators : d # c => local'[d] = local[d]
  BY <1>4 DEF IInv, Typed
<1>7. /\ DOMAIN disk' \subseteq DOMAIN disk /\ \A p \in DOMAIN disk' : disk'[p] = disk[p]
      /\ dirs' \subseteq dirs /\ DOMAIN disk' \subseteq dirs' \X Names
      /\ DOMAIN disk' \subseteq crowded' /\ crowded \subseteq crowded'
      /\ crowded' \subseteq crowded \cup Paths
  <2>1. DOMAIN disk \subseteq dirs \X Names /\ dirs \subseteq Slugs BY DEF IInv, Typed, TypeOK
  <2>2. CASE Rmtree(c)
    <3>1. DOMAIN disk' = {} /\ dirs' = {} /\ crowded' = crowded BY <2>2 DEF Rmtree
    <3> QED BY <3>1
  <2>3. CASE RmtreeFails(c)
    <3>1. PICK left \in SUBSET DOMAIN disk :
              /\ disk' = Restrict(disk, left)
              /\ dirs' \in {d \in SUBSET dirs : {p[1] : p \in left} \subseteq d}
      BY <2>3 DEF RmtreeFails
    <3>2. DOMAIN disk' = left /\ \A p \in left : disk'[p] = disk[p] BY <3>1 DEF Restrict
    <3>3. dirs' \subseteq dirs /\ \A p \in left : p[1] \in dirs' BY <3>1
    <3>4. crowded' = crowded \cup left BY <2>3, <3>2 DEF RmtreeFails
    <3>5. left \subseteq dirs' \X Names BY <2>1, <3>3
    <3>6. left \subseteq Paths BY <2>1 DEF Paths
    <3> QED BY <3>2, <3>3, <3>4, <3>5, <3>6
  <2> QED BY <2>2, <2>3
<1>8. Typed'
  <2>1. DOMAIN <<>> = {} /\ Range(<<>>) = {} BY DEF Range
  <2>2. Range(disk') \subseteq Range(disk) BY <1>7 DEF Range
  <2> QED BY <1>2, <1>3, <1>4, <1>6, <1>7, <2>1, <2>2 DEF IInv, Typed, TypeOK
<1>9. Met' BY <1>4, <1>5, <1>7, MetKept
<1>10. Stored' BY <1>4 DEF Stored
<1>11. ASSUME NEW d \in Curators PROVE Sound(d)'
  <2>1. CASE d = c BY <2>1, <1>2, <1>6 DEF Sound, SavedThere, ListingHolds, TargetFree, At
  <2>2. CASE d # c
    <3>1. ASSUME local[d].at \in OnPictures PROVE Touched(local[d]) \subseteq crowded
      BY <2>2, <3>1, <1>5, TouchesPaths DEF IInv, Met, Typed
    <3>2. SavedThere(d)'
      <4> SUFFICES ASSUME At(d, "save"), NEW n \in Range(local[d].saved)
                   PROVE  n \in local[d].seen /\ <<local[d].slug, n>> \in crowded'
        BY <2>2, <1>6 DEF SavedThere, At
      <4>1. n \in Range(local[d].names) /\ n # Bad
        <5>1. local[d] \in RequestType /\ Shape(local[d]) BY DEF IInv, Typed
        <5>2. n \in Range(local[d].names) /\ n \in Names
          BY <5>1 DEF At, Shape, Uploading, Range, RequestType
        <5> QED BY <5>2, BadAssumption
      <4>2. local[d].at \in OnPictures BY DEF At, OnPictures, Uploading
      <4>3. <<local[d].slug, n>> \in Touched(local[d]) BY <4>1, <4>2, TouchedBy
      <4> QED BY <3>1, <4>2, <4>3, <1>7 DEF IInv, Sound, SavedThere
    <3>3. ListingHolds(d)' /\ TargetFree(d)'
      BY <2>2, <1>6, <1>7 DEF ListingHolds, TargetFree
    <3> QED BY <3>2, <3>3 DEF Sound
  <2> QED BY <2>1, <2>2
<1>12. Reachable'
  BY <1>2, <1>4, <1>6, <1>7
     DEF IInv, Reachable, At, OnPictures, Uploading, OnePicture, TwoNames
<1>13. Going'
  <2>1. ASSUME ~exists, NEW d \in Curators
        PROVE  local'[d].at = "write" \/ Touched(local'[d]) \subseteq crowded'
    BY <2>1, <1>1, <1>5, <1>6, <1>7 DEF IInv, Going, At
  <2> QED BY <2>1, <1>4, <1>7 DEF Going, At
<1> QED BY <1>8, <1>9, <1>10, <1>11, <1>12, <1>13 DEF IInv

LEMMA CommitStep == ASSUME IInv, NEW c \in Curators, Commit(c) PROVE IInv'
<1>1. UNCHANGED <<docs, dirs, disk, requests, told, crowded, renamed>> /\ exists' = FALSE
      /\ Answer(c) /\ local[c].at = "commit"
  BY DEF Commit, files, At
<1>2. /\ local'[c] = Idle /\ \A d \in Curators : d # c => local'[d] = local[d]
      /\ local' \in [Curators -> RequestType] /\ \A d \in Curators : Shape(local'[d])
      /\ Met' /\ \A d \in Curators : Sound(d)'
  BY <1>1, AnsweredElsewhere
<1>3. Typed' BY <1>1, <1>2 DEF IInv, Typed, TypeOK
<1>4. Stored' BY <1>1 DEF IInv, Stored
<1>5. Reachable'
  BY <1>1, <1>2, IdleIsIdle
     DEF IInv, Reachable, At, OnPictures, Uploading, OnePicture, TwoNames
<1>6. Going'
  <2>1. DOMAIN disk \subseteq crowded BY <1>1 DEF IInv, Going, At
  <2>2. ASSUME NEW d \in Curators
        PROVE  local'[d].at = "write" \/ Touched(local'[d]) \subseteq crowded
    <3>1. CASE d = c BY <3>1, <1>2, IdleIsIdle
    <3>2. CASE d # c
      <4>1. Touched(local[c]) = Paths BY <1>1, TouchedBy
      <4>2. local[d].at = "write" \/ Touched(local[d]) \subseteq Paths
        <5>1. local[d] \in RequestType /\ Shape(local[d]) BY DEF IInv, Typed
        <5> QED BY <5>1, TouchedBy, TouchesPaths
                DEF RequestType, Steps, OnPictures, Uploading, OnePicture, TwoNames
      <4> QED BY <3>2, <4>1, <4>2, <1>2 DEF IInv, Met
    <3> QED BY <3>1, <3>2
  <2> QED BY <1>1, <2>1, <2>2 DEF Going, At
<1> QED BY <1>2, <1>3, <1>4, <1>5, <1>6 DEF IInv

LEMMA DiesStep == ASSUME IInv, NEW c \in Curators, Dies(c) PROVE IInv'
<1>1. CASE UNCHANGED disk
  BY <1>1, OnlyAnswered DEF Dies, files
<1>2. CASE Saving(c) /\ Acceptable(c) /\ local[c].slug \in dirs /\ CutShort(c)
  BY <1>2, CutShortStep DEF Dies
<1> QED BY <1>1, <1>2 DEF Dies

-----------------------------------------------------------------------------
(* The invariant, and what follows from it.                                 *)

LEMMA InitiallyInv == Init => IInv
<1> SUFFICES ASSUME Init PROVE IInv OBVIOUS
<1>1. DOMAIN <<>> = {} /\ Range(<<>>) = {} BY DEF Range
<1>2. \A c \in Curators : local[c] = Idle BY DEF Init
<1>3. Typed BY <1>1, <1>2, IdleIsIdle, DocsAssumption, BoundsAssumption DEF Init, Typed, TypeOK
<1>4. Met BY <1>2, IdleIsIdle DEF Met
<1>5. Stored BY <1>1 DEF Init, Stored
<1>6. \A c \in Curators : Sound(c)
  BY <1>2, IdleIsIdle DEF Sound, SavedThere, ListingHolds, TargetFree, At
<1>7. Reachable
  BY <1>1, <1>2, IdleIsIdle
     DEF Init, Reachable, At, OnPictures, Uploading, OnePicture, TwoNames
<1>8. Going BY <1>1, <1>2, IdleIsIdle DEF Init, Going, At
<1> QED BY <1>3, <1>4, <1>5, <1>6, <1>7, <1>8 DEF IInv

LEMMA StepInv == IInv /\ [Next]_vars => IInv'
<1> SUFFICES ASSUME IInv, [Next]_vars PROVE IInv' OBVIOUS
<1>1. ASSUME NEW c \in Curators, Handler(c) PROVE IInv'
  <2>1. CASE WriteFails(c) BY <2>1, OnlyAnswered DEF WriteFails
  <2> QED BY <1>1, <2>1, UploadStep, UnlinkStep, RmdirStep, CheckStep, RenameStep, NotThereStep,
          BeginsStep, WriteDocsStep, RmtreeStep, CommitStep, DiesStep DEF Handler
<1>2. CASE UNCHANGED vars
  <2> USE <1>2 DEF vars
  <2>1. Typed' BY DEF IInv, Typed, TypeOK
  <2>2. Met' BY DEF IInv, Met
  <2>3. Stored' BY DEF IInv, Stored
  <2>4. \A c \in Curators : Sound(c)'
    BY DEF IInv, Sound, SavedThere, ListingHolds, TargetFree, At, Target
  <2>5. Reachable' BY DEF IInv, Reachable, At
  <2>6. Going' BY DEF IInv, Going, At
  <2> QED BY <2>1, <2>2, <2>3, <2>4, <2>5, <2>6 DEF IInv
<1> QED BY <1>1, <1>2 DEF Next

\* The inductive invariant, from which the others follow.
THEOREM AlwaysIInv == Spec => []IInv
BY InitiallyInv, StepInv, PTL DEF Spec

\* The state of the handlers is well formed; in particular every picture is in
\* a directory, so rmdir in delete_image never takes a directory with pictures.
THEOREM AlwaysTypeOK == Spec => []TypeOK
<1>1. IInv => TypeOK BY DEF IInv, Typed
<1> QED BY <1>1, AlwaysIInv, PTL

\* A picture that upload_image or rename_image has announced is on the disk.
THEOREM AlwaysStored == Spec => []Stored
<1>1. IInv => Stored BY DEF IInv
<1> QED BY <1>1, AlwaysIInv, PTL

\* list_images hides no picture but those of a slug that was given up.
THEOREM AlwaysNoneHidden == Spec => []NoneHidden
<1>1. IInv => NoneHidden BY DEF IInv, Reachable, NoneHidden, Listed
<1> QED BY <1>1, AlwaysIInv, PTL

\* delete_release leaves no picture but those that were on their way.
THEOREM AlwaysGoneWithRelease == Spec => []GoneWithRelease
<1>1. IInv => GoneWithRelease BY DEF IInv, Going, GoneWithRelease
<1> QED BY <1>1, AlwaysIInv, PTL

\* What one step does to the pictures on the disk.
Survives(p) ==
    \/ disk[p] \in Range(disk')
    \/ \E c \in Curators :
           \/ At(c, "rmtree") /\ local'[c].at = "commit"
           \/ At(c, "unlink") /\ local'[c].at = "rmdir" /\ Source(c) = p

LEMMA KeptSurvives ==
    ASSUME NEW p \in DOMAIN disk', disk'[p] = disk[p]
    PROVE  Survives(p)
BY DEF Survives, Range

LEMMA PutSurvives ==
    ASSUME IInv, NEW c \in Curators, Saving(c), Acceptable(c), NEW x,
           disk' = Put(disk, <<local[c].slug, Upcoming(c)>>, x),
           NEW p \in DOMAIN disk \ crowded
    PROVE  Survives(p)
<1> DEFINE q == <<local[c].slug, Upcoming(c)>>
<1>1. p # q BY UpcomingTouched DEF IInv, Sound, ListingHolds, Acceptable, Saving
<1> HIDE DEF q
<1>2. p \in DOMAIN disk' /\ disk'[p] = disk[p] BY <1>1 DEF q, Put
<1> QED BY <1>2, KeptSurvives

LEMMA UnlinkSurvives ==
    ASSUME IInv, NEW c \in Curators, Unlink(c), NEW p \in DOMAIN disk
    PROVE  Survives(p)
<1>1. At(c, "unlink") /\ local'[c].at = "rmdir" BY DEF Unlink, IInv, Typed, RequestType
<1>2. CASE p = Source(c) BY <1>1, <1>2 DEF Survives
<1>3. CASE p # Source(c)
  <2>1. p \in DOMAIN disk' /\ disk'[p] = disk[p]
    BY <1>3 DEF Unlink, Source, Restrict
  <2> QED BY <2>1, KeptSurvives
<1> QED BY <1>2, <1>3

LEMMA RenameSurvives ==
    ASSUME IInv, NEW c \in Curators, Rename(c), NEW p \in DOMAIN disk \ crowded
    PROVE  Survives(p)
<1> DEFINE old == Source(c)
           new == Target(c)
           x == disk[old]
<1>1. disk' = Put(Restrict(disk, DOMAIN disk \ {old}), new, x) BY DEF Rename
<1>2. p # new BY DEF IInv, Sound, TargetFree, Rename
<1> HIDE DEF old, new, x
<1>3. /\ DOMAIN disk' = (DOMAIN disk \ {old}) \cup {new} /\ disk'[new] = x
      /\ \A q \in DOMAIN disk \ {old, new} : disk'[q] = disk[q]
  BY <1>1 DEF Put, Restrict
<1>4. CASE p = old
  <2>1. new \in DOMAIN disk' /\ disk'[new] = disk[p] BY <1>3, <1>4 DEF x
  <2> QED BY <2>1 DEF Survives, Range
<1>5. CASE p # old
  <2>1. p \in DOMAIN disk' /\ disk'[p] = disk[p] BY <1>2, <1>3, <1>5
  <2> QED BY <2>1, KeptSurvives
<1> QED BY <1>4, <1>5

LEMMA RmtreeSurvives ==
    ASSUME IInv, NEW c \in Curators, Rmtree(c) \/ RmtreeFails(c), NEW p \in DOMAIN disk
    PROVE  Survives(p)
<1>1. At(c, "rmtree") /\ local'[c].at = "commit"
  BY DEF Rmtree, RmtreeFails, IInv, Typed, RequestType
<1> QED BY <1>1 DEF Survives

\* No step makes a picture disappear but unlink and rmtree.
THEOREM AlwaysPicturesSurvive == Spec => PicturesSurvive
<1>1. ASSUME IInv, [Next]_vars
      PROVE  [\A p \in DOMAIN disk \ crowded : Survives(p)]_vars
  <2> SUFFICES ASSUME NEW c \in Curators, Handler(c), NEW p \in DOMAIN disk \ crowded
               PROVE  Survives(p)
    BY <1>1 DEF Next
  <2>1. CASE UNCHANGED disk BY <2>1, KeptSurvives
  <2>2. CASE Save(c) BY <1>1, <2>2, PutSurvives DEF Save
  <2>3. CASE Saving(c) /\ Acceptable(c) /\ CutShort(c)
    BY <1>1, <2>3, PutSurvives DEF CutShort
  <2>4. CASE Unlink(c) BY <1>1, <2>4, UnlinkSurvives
  <2>5. CASE Rename(c) BY <1>1, <2>5, RenameSurvives
  <2>6. CASE Rmtree(c) \/ RmtreeFails(c) BY <1>1, <2>6, RmtreeSurvives
  <2>7. CASE \/ BeginUpload(c) \/ Prepare(c) \/ SaveRefused(c) \/ Uploaded(c) \/ BeginDelete(c)
             \/ Rmdir(c) \/ BeginRename(c) \/ Check(c) \/ NotThere(c) \/ BeginAdd(c)
             \/ BeginReplace(c) \/ WriteDocs(c) \/ WriteFails(c) \/ BeginDiscard(c) \/ Commit(c)
    <3>1. UNCHANGED disk
      BY <2>7 DEF BeginUpload, Prepare, SaveRefused, Uploaded, BeginDelete, Rmdir, BeginRename,
                  Check, NotThere, BeginAdd, BeginReplace, WriteDocs, WriteFails, BeginDiscard,
                  Commit, files
    <3> QED BY <2>1, <3>1
  <2>8. CASE SaveFails(c) \/ Dies(c) BY <2>1, <2>3, <2>8 DEF SaveFails, Dies
  <2> QED BY <2>2, <2>4, <2>5, <2>6, <2>7, <2>8 DEF Handler
<1>2. IInv /\ [Next]_vars => [\A p \in DOMAIN disk \ crowded : Survives(p)]_vars BY <1>1
<1>3. Spec => [][\A p \in DOMAIN disk \ crowded : Survives(p)]_vars
  BY <1>2, AlwaysIInv, PTL DEF Spec
<1> QED BY <1>3 DEF PicturesSurvive, Survives

=============================================================================
