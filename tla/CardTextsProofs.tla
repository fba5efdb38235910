---------------------------- MODULE CardTextsProofs ----------------------------
(***************************************************************************)
(* Proofs about the texts on the card: the settings the store rewrites     *)
(* (Settings), the file names a listing asks for (Glob) and the files      *)
(* written remotely (RemoteFile), for any number of apps, games and        *)
(* writes, and patterns and names of any length.                           *)
(***************************************************************************)
EXTENDS Settings, Glob, RemoteFile, FiniteSetTheorems, WellFoundedInduction, TLAPS

(***************************************************************************)
(* settings.json                                                           *)
(***************************************************************************)

\* Until the file is torn, outgrown or rewritten unread it is there, short enough to be read, and
\* what every setter was told was saved; none counts as one without entries.
Saved ==
  outgrown \/ /\ json.text \in {"none", "whole"}
              /\ json.text = "whole" => Fields(json.entries) <= MaxFields
              /\ json.text = "none" => json.entries = NoEntries
              /\ chosen = json.entries

SettingsIInv == SettingsTypeOK /\ Saved

LEMMA NoEntriesType == NoEntries \in Entries
  BY DEF NoEntries, Entries

LEMMA ReadType == ASSUME SettingsTypeOK PROVE Readings \subseteq Entries /\ Read \in Readings
  BY NoEntriesType DEF SettingsTypeOK, Read, Readings

\* The length of the text is a number.
LEMMA FieldsType == ASSUME NEW e \in Entries PROVE Fields(e) \in Nat
<1>1. IsFiniteSet({t \in Titles : e.canvas[t] # NoSize})
  BY SettingsAssumption, FS_Subset
<1>2. IsFiniteSet(e.favorites) /\ IsFiniteSet(e.games)
  BY SettingsAssumption, FS_Subset DEF Entries
<1>. QED
  BY <1>1, <1>2, FS_CardinalityType DEF Fields

LEMMA SavedIsRead == ASSUME Saved PROVE SettingsKept
  BY DEF Saved, SettingsKept, NothingForgotten, Read

\* One change to what is read is one change to what was chosen.
LEMMA RewriteSaves ==
  ASSUME SettingsIInv, NEW entries \in Entries, NEW wanted \in Entries,
         NEW read, Rewrite(read, entries, wanted),
         ~outgrown /\ read = Read => entries = wanted
  PROVE  SettingsIInv'
<1>. USE DEF SettingsIInv
<1>1. CASE UNCHANGED settingsVars
  BY <1>1 DEF settingsVars, Saved, SettingsTypeOK
<1>2. CASE /\ json' = [text |-> "torn", entries |-> NoEntries]
           /\ outgrown' = TRUE /\ UNCHANGED chosen
  BY <1>2, NoEntriesType DEF Saved, SettingsTypeOK
<1>3. CASE /\ json' = [text |-> "whole", entries |-> entries]
           /\ chosen' = IF outgrown THEN NoEntries ELSE wanted
           /\ outgrown' = (outgrown \/ Fields(entries) > MaxFields \/ read # Read)
  <2>1. outgrown \/ Fields(entries) > MaxFields \/ Fields(entries) <= MaxFields
    BY SettingsAssumption, FieldsType
  <2>2. SettingsTypeOK'
    <3>1. json' \in [text : {"none", "whole", "torn"}, entries : Entries]
      BY <1>3
    <3>2. chosen' \in Entries
      BY <1>3, NoEntriesType
    <3>3. outgrown' \in BOOLEAN
      BY <1>3, Zenon DEF SettingsTypeOK
    <3>. QED
      BY <3>1, <3>2, <3>3 DEF SettingsTypeOK
  <2>. QED
    BY <1>3, <2>1, <2>2 DEF Saved
<1>. QED
  BY <1>1, <1>2, <1>3 DEF Rewrite

LEMMA SettingsStep == ASSUME SettingsIInv, [SettingsNext]_settingsVars PROVE SettingsIInv'
<1>1. ~outgrown => Read = chosen
  BY SavedIsRead DEF SettingsIInv, SettingsKept, NothingForgotten
<1>2. Readings \subseteq Entries /\ chosen \in Entries
  BY ReadType DEF SettingsIInv, SettingsTypeOK
<1>3. ASSUME NEW t \in Titles, NEW s, SetCanvas(t, s) PROVE SettingsIInv'
  <2>1. s \in Sizes \cup {NoSize}
    BY <1>3, SettingsAssumption DEF SetCanvas
  <2>2. \A e \in Entries : [e EXCEPT !.canvas[t] = s] \in Entries
    BY <2>1 DEF Entries
  <2>3. PICK read \in Readings :
          Rewrite(read, [read EXCEPT !.canvas[t] = s], [chosen EXCEPT !.canvas[t] = s])
    BY <1>3 DEF SetCanvas, WithCanvas
  <2>. QED
    BY <1>1, <1>2, <2>2, <2>3, RewriteSaves
<1>4. ASSUME NEW t \in Titles, PressScreen(t) PROVE SettingsIInv'
  BY <1>3, <1>4 DEF PressScreen
<1>5. ASSUME NEW t \in Titles, ToggleFavorite(t) PROVE SettingsIInv'
  <2>1. PICK shown \in Readings, read \in Readings :
          Rewrite(read, [read EXCEPT !.favorites = Turned(@, t, t \notin shown.favorites)],
                  [chosen EXCEPT !.favorites = Turned(@, t, t \notin shown.favorites)])
    BY <1>5 DEF ToggleFavorite
  <2>2. \A e \in Entries :
          [e EXCEPT !.favorites = Turned(@, t, t \notin shown.favorites)] \in Entries
    BY DEF Entries, Turned
  <2>. QED
    BY <1>1, <1>2, <2>1, <2>2, RewriteSaves
<1>6. ASSUME NEW g \in Games, ToggleGame(g) PROVE SettingsIInv'
  <2>1. PICK shown \in Readings, read \in Readings :
          Rewrite(read, [read EXCEPT !.games = Turned(@, g, g \notin shown.games)],
                  [chosen EXCEPT !.games = Turned(@, g, g \notin shown.games)])
    BY <1>6 DEF ToggleGame
  <2>2. \A e \in Entries :
          [e EXCEPT !.games = Turned(@, g, g \notin shown.games)] \in Entries
    BY DEF Entries, Turned
  <2>. QED
    BY <1>1, <1>2, <2>1, <2>2, RewriteSaves
<1>7. CASE UNCHANGED settingsVars
  BY <1>7 DEF settingsVars, SettingsIInv, Saved, SettingsTypeOK
<1>. QED
  BY <1>3, <1>4, <1>5, <1>6, <1>7 DEF SettingsNext

LEMMA SettingsInitOK == SettingsInit => SettingsIInv
<1>. SUFFICES ASSUME SettingsInit PROVE SettingsTypeOK /\ Saved
  BY DEF SettingsIInv
<1>1. Saved
  BY DEF SettingsInit, Saved
<1>2. json \in [text : {"none", "whole", "torn"}, entries : Entries] /\ chosen \in Entries
  BY NoEntriesType DEF SettingsInit
<1>3. outgrown \in BOOLEAN
  BY Zenon DEF SettingsInit
<1>. QED
  BY <1>1, <1>2, <1>3 DEF SettingsTypeOK

\* Whatever the setters of the store rewrite, what each has reported as saved stays,
\* until a write is cut off, the file has grown past what is read, or a setter that
\* could not read it has rewritten it.
THEOREM SettingsAreKept == SettingsSpec => []SettingsKept
<1>1. SettingsIInv => SettingsKept
  BY SavedIsRead DEF SettingsIInv
<1>. QED
  BY <1>1, SettingsInitOK, SettingsStep, PTL DEF SettingsSpec

(***************************************************************************)
(* The Screen button                                                       *)
(***************************************************************************)

\* The sizes of a set in their order, each once: the places of a finite set of
\* numbers, counted by those that are larger, are 0 to one less than its size.
LEMMA LargestFirstIs ==
  ASSUME NEW C, C \subseteq Nat, IsFiniteSet(C)
  PROVE  /\ LargestFirst(C) \in Seq(C) /\ Range(LargestFirst(C)) = C
         /\ \A i, j \in DOMAIN LargestFirst(C) :
              LargestFirst(C)[i] = LargestFirst(C)[j] => i = j
<1> DEFINE n == Cardinality(C)
           Above(s) == {larger \in C : larger > s}
           place == [s \in C |-> Cardinality(Above(s))]
<1>1. n \in Nat /\ \A s \in C : IsFiniteSet(Above(s)) /\ place[s] \in Nat
  BY FS_CardinalityType, FS_Subset
<1>2. ASSUME NEW s \in C PROVE place[s] \in 0 .. n - 1
  <2>1. s \in C /\ s \notin Above(s)
    OBVIOUS
  <2>2. Above(s) \in SUBSET C
    OBVIOUS
  <2>3. Cardinality(Above(s)) <= n /\ Cardinality(Above(s)) # n
    BY <2>1, <2>2, FS_Subset
  <2>. QED
    BY <1>1, <2>3
<1>3. ASSUME NEW s \in C, NEW t \in C, s < t PROVE place[t] < place[s]
  <2>1. Above(t) \in SUBSET Above(s) /\ t \in Above(s) /\ t \notin Above(t)
    <3>1. s \in Nat /\ t \in Nat /\ \A x \in C : x \in Nat
      OBVIOUS
    <3>2. \A x \in C : x > t => x > s
      BY <1>3, <3>1
    <3>3. t > s /\ ~(t > t)
      BY <1>3, <3>1
    <3>. QED
      BY <3>2, <3>3
  <2>2. IsFiniteSet(Above(s))
    BY <1>1
  <2>3. Cardinality(Above(t)) <= Cardinality(Above(s)) /\ Cardinality(Above(t)) # Cardinality(Above(s))
    <3> HIDE DEF Above
    <3>. QED
      BY <2>1, <2>2, FS_Subset
  <2>4. place[t] = Cardinality(Above(t)) /\ place[s] = Cardinality(Above(s))
    OBVIOUS
  <2> HIDE DEF place, Above
  <2>. QED
    BY <1>1, <2>3, <2>4
<1>4. \A s, t \in C : place[s] = place[t] => s = t
  <2>. SUFFICES ASSUME NEW s \in C, NEW t \in C, s # t PROVE place[s] # place[t]
    OBVIOUS
  <2>1. s < t \/ t < s
    OBVIOUS
  <2>2. place[s] \in Nat /\ place[t] \in Nat
    BY <1>1
  <2> HIDE DEF place
  <2>. QED
    BY <1>3, <2>1, <2>2
<1>5. \A k \in 0 .. n - 1 : \E s \in C : place[s] = k
  <2>1. place \in Injection(C, 0 .. n - 1)
    <3>1. place \in [C -> 0 .. n - 1]
      BY <1>2
    <3> HIDE DEF place, n
    <3>. QED
      BY <1>4, <3>1 DEF Injection, IsInjective
  <2>2. IsFiniteSet(0 .. n - 1) /\ Cardinality(0 .. n - 1) = n
    <3> HIDE DEF n
    <3>. QED
      BY <1>1, FS_Interval
  <2>3. place \in Surjection(C, 0 .. n - 1)
    <3> HIDE DEF place
    <3>. QED
      BY <2>1, <2>2, FS_Injection
  <2>. QED
    BY <2>3 DEF Surjection
<1>6. LargestFirst(C) = [k \in 1 .. n |-> CHOOSE s \in C : Cardinality(Above(s)) = k - 1]
  BY DEF LargestFirst
<1>7. ASSUME NEW k \in 1 .. n
      PROVE  LargestFirst(C)[k] \in C /\ place[LargestFirst(C)[k]] = k - 1
  <2>1. k - 1 \in 0 .. n - 1
    BY <1>1
  <2>2. \E s \in C : Cardinality(Above(s)) = k - 1
    BY <1>5, <2>1
  <2> DEFINE c == CHOOSE s \in C : Cardinality(Above(s)) = k - 1
  <2>3. c \in C /\ Cardinality(Above(c)) = k - 1
    BY <2>2
  <2>4. LargestFirst(C)[k] = c
    BY <1>6
  <2>5. place[c] = Cardinality(Above(c))
    BY <2>3
  <2> HIDE DEF c
  <2>. QED
    BY <2>3, <2>4, <2>5
<1>8. DOMAIN LargestFirst(C) = 1 .. n
  BY <1>6
<1>9. LargestFirst(C) \in Seq(C)
  <2>1. LargestFirst(C) \in [1 .. n -> C]
    BY <1>6, <1>7
  <2>. QED
    BY <1>1, <2>1
<1> HIDE DEF place, n
<1>10. ASSUME NEW s \in C PROVE \E k \in 1 .. n : LargestFirst(C)[k] = s
  <2>1. place[s] \in Nat /\ place[s] \in 0 .. n - 1 /\ n \in Nat
    BY <1>1, <1>2
  <2> DEFINE k == place[s] + 1
  <2>2. k \in 1 .. n /\ k - 1 = place[s]
    BY <2>1
  <2> HIDE DEF k
  <2>3. LargestFirst(C)[k] \in C /\ place[LargestFirst(C)[k]] = place[s]
    BY <1>7, <2>2
  <2>. QED
    BY <1>4, <2>2, <2>3
<1>11. Range(LargestFirst(C)) = C
  BY <1>7, <1>8, <1>10 DEF Range
<1>12. \A i, j \in 1 .. n : LargestFirst(C)[i] = LargestFirst(C)[j] => i = j
  <2>1. \A i, j \in 1 .. n : i - 1 = j - 1 => i = j
    OBVIOUS
  <2>. QED
    BY <1>7, <2>1
<1>. QED
  BY <1>8, <1>9, <1>11, <1>12

\* The sizes the panel shows of a list, each once.
LEMMA ChoicesAre ==
  ASSUME NEW listed \in SUBSET Sizes
  PROVE  LET S == (IF listed = {} THEN Standard ELSE listed) \cap Fitting
         IN /\ ScreenChoices(listed) \in Seq(S) /\ Range(ScreenChoices(listed)) = S
            /\ \A i, j \in DOMAIN ScreenChoices(listed) :
                 ScreenChoices(listed)[i] = ScreenChoices(listed)[j] => i = j
<1> DEFINE S == (IF listed = {} THEN Standard ELSE listed) \cap Fitting
<1>1. S \in SUBSET Sizes /\ S \subseteq Nat
  BY SettingsAssumption
<1>2. IsFiniteSet(S)
  BY <1>1, SettingsAssumption, FS_Subset
<1>3. ScreenChoices(listed) = LargestFirst(S)
  BY DEF ScreenChoices
<1> HIDE DEF S
<1>. QED
  BY <1>1, <1>2, <1>3, LargestFirstIs DEF S

\* The sizes of a listing that this panel can show.
Shown(l) == (IF l.sizes = {} THEN Standard ELSE l.sizes) \cap Fitting

\* Offered are these and the recommended size, each once.
LEMMA OfferedIs ==
  ASSUME NEW l \in Listings
  PROVE  /\ Offered(l) \in Seq(Sizes) /\ Recommended(l) \in Fitting \cup {NoSize}
         /\ Range(ScreenChoices(l.sizes)) = Shown(l)
         /\ Range(Offered(l)) = Shown(l) \cup ({Recommended(l)} \ {NoSize})
         /\ \A i, j \in DOMAIN Offered(l) : Offered(l)[i] = Offered(l)[j] => i = j
<1>1. l.sizes \in SUBSET Sizes
  BY DEF Listings
<1>2. Shown(l) \in SUBSET Fitting /\ Fitting \in SUBSET Sizes
  BY SettingsAssumption DEF Shown
<1>3. /\ ScreenChoices(l.sizes) \in Seq(Shown(l)) /\ Range(ScreenChoices(l.sizes)) = Shown(l)
      /\ \A i, j \in DOMAIN ScreenChoices(l.sizes) :
           ScreenChoices(l.sizes)[i] = ScreenChoices(l.sizes)[j] => i = j
  BY <1>1, ChoicesAre DEF Shown
<1>4. Recommended(l) \in Fitting \cup {NoSize}
  BY DEF Recommended
<1>5. CASE Recommended(l) \in {NoSize} \cup Shown(l)
  <2>1. Offered(l) = ScreenChoices(l.sizes)
    BY <1>3, <1>5 DEF Offered
  <2>2. Offered(l) \in Seq(Sizes)
    BY <1>2, <1>3, <2>1
  <2>3. Shown(l) = Shown(l) \cup ({Recommended(l)} \ {NoSize})
    BY <1>5
  <2>. QED
    BY <1>3, <1>4, <2>1, <2>2, <2>3
<1>6. CASE Recommended(l) \notin {NoSize} \cup Shown(l)
  <2> DEFINE all == Shown(l) \cup {Recommended(l)}
  <2>1. Offered(l) = ScreenChoices(all)
    BY <1>3, <1>6 DEF Offered
  <2>2. all \in SUBSET Sizes /\ all # {} /\ all \cap Fitting = all
    BY <1>2, <1>4, <1>6
  <2>3. /\ ScreenChoices(all) \in Seq(all) /\ Range(ScreenChoices(all)) = all
        /\ \A i, j \in DOMAIN ScreenChoices(all) :
             ScreenChoices(all)[i] = ScreenChoices(all)[j] => i = j
    <3> HIDE DEF all
    <3>. QED
      BY <2>2, ChoicesAre
  <2>4. Offered(l) \in Seq(Sizes)
    BY <2>1, <2>2, <2>3
  <2>5. all = Shown(l) \cup ({Recommended(l)} \ {NoSize})
    BY <1>6
  <2> HIDE DEF all
  <2>. QED
    BY <1>3, <1>4, <2>1, <2>3, <2>4, <2>5
<1>. QED
  BY <1>5, <1>6

\* "No setting" takes the place of the recommended size.
LEMMA OptionsAre ==
  ASSUME NEW l \in Listings
  PROVE  /\ Options(l) \in Seq(Sizes \cup {NoSize})
         /\ Range(Options(l)) = {NoSize} \cup (Shown(l) \ {Recommended(l)})
         /\ \A i, j \in DOMAIN Options(l) : Options(l)[i] = Options(l)[j] => i = j
<1> DEFINE R == Recommended(l)
           o == Offered(l)
           rest == [i \in DOMAIN o |-> IF o[i] = R THEN NoSize ELSE o[i]]
<1>1. /\ o \in Seq(Sizes) /\ R \in Fitting \cup {NoSize}
      /\ Range(o) = Shown(l) \cup ({R} \ {NoSize})
      /\ \A i, j \in DOMAIN o : o[i] = o[j] => i = j
  BY OfferedIs
<1>2. NoSize \notin Sizes /\ Shown(l) \subseteq Sizes
  BY SettingsAssumption DEF NoSize, Shown
<1>3. Options(l) = (IF R = NoSize THEN <<NoSize>> ELSE <<>>) \o rest
  BY DEF Options
<1>4. /\ rest \in Seq(Sizes \cup {NoSize}) /\ Len(rest) = Len(o) /\ DOMAIN o = 1 .. Len(o)
      /\ Len(o) \in Nat
  <2> HIDE DEF o, R
  <2>. QED
    BY <1>1
<1>5. \A i \in 1 .. Len(o) : rest[i] = IF o[i] = R THEN NoSize ELSE o[i]
  BY <1>4
<1>6. \A i \in 1 .. Len(o) : o[i] \in Sizes
  BY <1>1, <1>4
<1> HIDE DEF o, R, rest
<1>7. CASE R = NoSize
  <2>1. /\ Options(l) \in Seq(Sizes \cup {NoSize}) /\ Len(Options(l)) = Len(o) + 1
        /\ Options(l)[1] = NoSize
        /\ \A i \in 2 .. Len(o) + 1 : Options(l)[i] = o[i - 1]
    BY <1>2, <1>3, <1>4, <1>5, <1>6, <1>7
  <2>2. DOMAIN Options(l) = 1 .. Len(o) + 1
    BY <2>1
  <2>3. ASSUME NEW i \in DOMAIN Options(l), NEW j \in DOMAIN Options(l),
               Options(l)[i] = Options(l)[j]
        PROVE  i = j
    <3>1. CASE i = 1 \/ j = 1
      BY <1>2, <1>4, <1>6, <2>1, <2>2, <2>3, <3>1
    <3>2. CASE i # 1 /\ j # 1
      <4>1. i - 1 \in DOMAIN o /\ j - 1 \in DOMAIN o /\ o[i - 1] = o[j - 1]
        BY <1>4, <2>1, <2>2, <2>3, <3>2
      <4>. QED
        BY <1>1, <1>4, <2>2, <4>1
    <3>. QED
      BY <3>1, <3>2
  <2>4. Range(Options(l)) = {NoSize} \cup Range(o)
    <3>1. \A i \in DOMAIN Options(l) : Options(l)[i] \in {NoSize} \cup {o[j] : j \in DOMAIN o}
      BY <1>4, <2>1, <2>2
    <3>2. \A j \in DOMAIN o : j + 1 \in DOMAIN Options(l) /\ Options(l)[j + 1] = o[j]
      BY <1>4, <2>1, <2>2
    <3>3. 1 \in DOMAIN Options(l) /\ Options(l)[1] = NoSize
      BY <1>4, <2>1, <2>2
    <3>. QED
      BY <3>1, <3>2, <3>3 DEF Range
  <2>5. Shown(l) \cup ({R} \ {NoSize}) = Shown(l) \ {R}
    BY <1>2, <1>7
  <2>. QED
    BY <1>1, <2>1, <2>3, <2>4, <2>5 DEF R
<1>8. CASE R # NoSize
  <2>1. Options(l) = rest
    BY <1>3, <1>4, <1>8
  <2>2. DOMAIN rest = 1 .. Len(o)
    BY <1>4
  <2>3. \A i, j \in 1 .. Len(o) : rest[i] = rest[j] => i = j
    BY <1>1, <1>2, <1>4, <1>5, <1>6
  <2>4. Range(rest) = {NoSize} \cup (Shown(l) \ {R})
    <3>1. \A x : x \in Range(o) <=> x \in Shown(l) \/ x = R
      BY <1>1, <1>8
    <3>2. \A x : x \in Range(o) <=> \E i \in 1 .. Len(o) : o[i] = x
      BY <1>4 DEF Range
    <3>3. \A x : x \in Range(rest) <=> \E i \in 1 .. Len(o) : rest[i] = x
      BY <2>2 DEF Range
    <3>4. NoSize \notin Shown(l)
      BY <1>2
    <3>. QED
      BY <1>2, <1>5, <3>1, <3>2, <3>3, <3>4
  <2>. QED
    BY <1>4, <2>1, <2>2, <2>3, <2>4 DEF R
<1>. QED
  BY <1>7, <1>8

\* A set of numbers with 0 that has with each number the next holds them all.
LEMMA AllNumbers ==
  ASSUME NEW S, 0 \in S, \A n \in Nat : n \in S => n + 1 \in S
  PROVE  Nat \subseteq S
<1> DEFINE smaller == {p \in Nat \X Nat : p[1] < p[2]}
           T == Nat \ S
<1>1. IsWellFoundedOn(smaller, Nat)
  BY NatLessThanWellFounded DEF OpToRel
<1>2. SUFFICES ASSUME T # {} PROVE FALSE
  OBVIOUS
<1>3. PICK x \in T : \A y \in T : ~(<<y, x>> \in smaller)
  <2>1. T \subseteq Nat
    OBVIOUS
  <2> HIDE DEF T, smaller
  <2>. QED
    BY <1>1, <1>2, <2>1, WFMin
<1>4. x # 0 /\ x - 1 \in Nat
  OBVIOUS
<1>5. <<x - 1, x>> \in smaller
  BY <1>4
<1>. QED
  BY <1>3, <1>4, <1>5

\* Pressed again and again, the button comes past every option and no other.
LEMMA StopsAre ==
  ASSUME NEW l \in Listings, NEW setting
  PROVE  Stops(l, setting) = Range(Options(l))
<1> DEFINE o == Options(l)
           n == Len(o)
           Next(k) == IF k = n THEN 1 ELSE k + 1
<1>1. /\ o \in Seq(Sizes \cup {NoSize}) /\ Range(o) = {NoSize} \cup (Shown(l) \ {Recommended(l)})
      /\ \A i, j \in DOMAIN o : o[i] = o[j] => i = j
  BY OptionsAre
<1>2. n \in Nat /\ DOMAIN o = 1 .. n /\ n # 0
  <2>1. n \in Nat /\ DOMAIN o = 1 .. n
    BY <1>1
  <2>2. NoSize \in Range(o)
    BY <1>1
  <2>3. \E k \in 1 .. n : o[k] = NoSize
    BY <2>1, <2>2 DEF Range
  <2>. QED
    BY <2>1, <2>3
<1>3. ASSUME NEW k \in 1 .. n PROVE NextOption(o, o[k]) = o[Next(k)] /\ Next(k) \in 1 .. n
  <2>1. o[k] \in Range(o)
    BY <1>2 DEF Range
  <2> DEFINE found == CHOOSE i \in DOMAIN o : o[i] = o[k]
  <2>2. found \in DOMAIN o /\ o[found] = o[k]
    BY <1>2
  <2>3. found = k
    <3> HIDE DEF found
    <3>. QED
      BY <1>1, <1>2, <2>2
  <2>4. NextOption(o, o[k]) = o[(found % n) + 1]
    BY <2>1 DEF NextOption
  <2>5. (k % n) + 1 = Next(k) /\ Next(k) \in 1 .. n
    <3> HIDE DEF n
    <3>1. k < n => k % n = k
      BY <1>2
    <3>2. n % n = 0
      BY <1>2
    <3>. QED
      BY <1>2, <3>1, <3>2
  <2> HIDE DEF found
  <2>. QED
    BY <2>3, <2>4, <2>5
<1>4. ASSUME NEW k \in 1 .. n PROVE Pressed(l, o[k]) = o[Next(k)]
  <2>1. o[k] \in Range(o)
    BY <1>2 DEF Range
  <2>2. o[k] = Recommended(l) => o[k] = NoSize
    BY <1>1, <2>1
  <2> HIDE DEF Next
  <2>. QED
    BY <1>3, <2>2 DEF Pressed
<1>5. PICK first \in 1 .. n : Pressed(l, setting) = o[first]
  <2> DEFINE current == IF setting = Recommended(l) THEN NoSize ELSE setting
  <2>1. Pressed(l, setting) = NextOption(o, current)
    BY DEF Pressed
  <2>2. CASE current \in Range(o)
    <3>1. PICK k \in 1 .. n : o[k] = current
      BY <1>2, <2>2 DEF Range
    <3> HIDE DEF current, Next
    <3>. QED
      BY <1>3, <2>1, <3>1
  <2>3. CASE current \notin Range(o)
    <3>1. Pressed(l, setting) = NoSize
      BY <2>1, <2>3 DEF NextOption
    <3>2. NoSize \in Range(o)
      BY <1>1
    <3>. QED
      BY <1>2, <3>1, <3>2 DEF Range
  <2>. QED
    BY <2>2, <2>3
<1> DEFINE Place(i) == IF first + i <= n THEN first + i ELSE first + i - n
           walk == [i \in 0 .. n |-> o[Place(i)]]
           Walked(w) == [i \in 0 .. n |-> Pressed(l, IF i = 0 THEN setting ELSE w[i - 1])]
           stop == CHOOSE w : w = Walked(w)
<1>6. \A i \in 0 .. n : Place(i) \in 1 .. n
  <2> HIDE DEF n
  <2>. QED
    BY <1>2
<1>7. \A i \in 1 .. n : i - 1 \in 0 .. n /\ Place(i) = Next(Place(i - 1))
  <2> HIDE DEF n
  <2>. QED
    BY <1>2
<1>8. Pressed(l, setting) = walk[0]
  <2>1. Place(0) = first /\ 0 \in 0 .. n
    <3> HIDE DEF n
    <3>. QED
      BY <1>2
  <2>. QED
    BY <1>5, <2>1
<1>9. ASSUME NEW i \in 1 .. n PROVE Pressed(l, walk[i - 1]) = walk[i]
  <2>1. walk[i - 1] = o[Place(i - 1)] /\ walk[i] = o[Place(i)]
    BY <1>7
  <2>2. Place(i - 1) \in 1 .. n
    BY <1>6, <1>7
  <2> HIDE DEF walk, Place, Next, o, n
  <2>. QED
    BY <1>4, <1>7, <2>1, <2>2
<1>10. walk = Walked(walk)
  <2>1. \A i \in 0 .. n : i = 0 \/ i \in 1 .. n
    <3> HIDE DEF n
    <3>. QED
      BY <1>2
  <2>2. \A i \in 0 .. n : walk[i] = Pressed(l, IF i = 0 THEN setting ELSE walk[i - 1])
    <3> HIDE DEF walk
    <3>. QED
      BY <1>8, <1>9, <2>1
  <2>3. DOMAIN walk = 0 .. n /\ walk = [i \in 0 .. n |-> walk[i]]
    OBVIOUS
  <2> HIDE DEF walk
  <2>. QED
    BY <2>2, <2>3
<1>11. stop = Walked(stop)
  <2> HIDE DEF walk, Walked
  <2>. QED
    BY <1>10
<1>12. \A i \in 0 .. n : stop[i] = walk[i]
  <2> DEFINE same == {i \in Nat : i <= n => stop[i] = walk[i]}
  <2>1. DOMAIN stop = 0 .. n
        /\ \A i \in 0 .. n : stop[i] = Pressed(l, IF i = 0 THEN setting ELSE stop[i - 1])
    <3> HIDE DEF stop
    <3>. QED
      BY <1>11
  <2> HIDE DEF stop, walk, n
  <2>2. 0 \in same
    BY <1>2, <1>8, <2>1
  <2>3. ASSUME NEW i \in Nat, i \in same PROVE i + 1 \in same
    <3>. SUFFICES ASSUME i + 1 <= n PROVE stop[i + 1] = walk[i + 1]
      OBVIOUS
    <3>1. i + 1 \in 1 .. n /\ i + 1 \in 0 .. n /\ (i + 1) - 1 = i /\ i + 1 # 0 /\ i <= n
      BY <1>2
    <3>2. stop[i] = walk[i]
      BY <2>3, <3>1
    <3>3. stop[i + 1] = Pressed(l, stop[(i + 1) - 1])
      BY <2>1, <3>1
    <3>. QED
      BY <1>9, <3>1, <3>2, <3>3
  <2>4. Nat \subseteq same
    <3> HIDE DEF same
    <3>. QED
      BY <2>2, <2>3, AllNumbers
  <2>. QED
    BY <1>2, <2>4
<1>13. Stops(l, setting) = {stop[i] : i \in DOMAIN stop}
  BY DEF Stops
<1>14. DOMAIN stop = 0 .. n
  <2> HIDE DEF stop
  <2>. QED
    BY <1>11
<1>15. \A k \in 1 .. n : \E i \in 0 .. n : Place(i) = k
  <2>. SUFFICES ASSUME NEW k \in 1 .. n PROVE \E i \in 0 .. n : Place(i) = k
    OBVIOUS
  <2> DEFINE i == IF first <= k THEN k - first ELSE k - first + n
  <2> HIDE DEF n
  <2>1. i \in 0 .. n /\ Place(i) = k
    BY <1>2
  <2>. QED
    BY <2>1
<1>16. {walk[i] : i \in 0 .. n} = {o[k] : k \in 1 .. n}
  <2> HIDE DEF Place, o, n
  <2>. QED
    BY <1>6, <1>15
<1> HIDE DEF stop, walk, o, n
<1>17. Stops(l, setting) = {walk[i] : i \in 0 .. n}
  BY <1>12, <1>13, <1>14
<1>. QED
  BY <1>2, <1>16, <1>17 DEF Range, o

LEMMA EveryChoice == EveryChoiceComes
<1>. SUFFICES ASSUME NEW l \in Listings
     PROVE /\ \A t \in Titles : Stops(l, Read.canvas[t]) = Range(Options(l))
           /\ NoSize \in Range(Options(l))
           /\ {Given(l, o) : o \in Range(Options(l))}
                = {Recommended(l)} \cup Range(ScreenChoices(l.sizes))
           /\ \A o \in Range(Options(l)) : Label(l, o) = Given(l, o)
  BY DEF EveryChoiceComes
<1>1. \A t \in Titles : Stops(l, Read.canvas[t]) = Range(Options(l))
  BY StopsAre
<1>2. Range(Options(l)) = {NoSize} \cup (Shown(l) \ {Recommended(l)})
  BY OptionsAre
<1>3. /\ Range(ScreenChoices(l.sizes)) = Shown(l) /\ Shown(l) \subseteq Fitting
      /\ NoSize \notin Fitting
  BY OfferedIs, SettingsAssumption DEF Shown, NoSize
<1>4. Given(l, NoSize) = Recommended(l) /\ \A o \in Shown(l) : Given(l, o) = o
  BY <1>3 DEF Given
<1>5. {Given(l, o) : o \in Range(Options(l))} = {Recommended(l)} \cup Shown(l)
  BY <1>2, <1>4
<1>6. \A o \in Range(Options(l)) : Label(l, o) = Given(l, o)
  BY <1>2, <1>3, <1>4 DEF Label
<1>. QED
  BY <1>1, <1>2, <1>3, <1>5, <1>6

\* Whatever is saved, presses of the Screen button come past every size the panel
\* can show and past no other; each is what the app is given when it starts, for
\* any listing and any number of sizes.
THEOREM EveryChoiceCanBeMade == SettingsSpec => []EveryChoiceComes
  BY EveryChoice, PTL

(***************************************************************************)
(* glob_match                                                              *)
(***************************************************************************)

Chars == Letters \cup {AnyRun, AnyOne}

\* A pattern that is over is laid over the end of a name only.
LEMMA OverEnd ==
  ASSUME NEW p \in Seq(Chars), NEW n \in Seq(Names), NEW j \in 1 .. Len(n) + 1
  PROVE  Over(p, n, Len(p) + 1, j) <=> j = Len(n) + 1
<1>1. Len(p) \in Nat /\ Len(n) \in Nat
  OBVIOUS
<1>2. ASSUME Over(p, n, Len(p) + 1, j) PROVE j = Len(n) + 1
  BY <1>1, <1>2 DEF Over
<1>3. ASSUME j = Len(n) + 1 PROVE Over(p, n, Len(p) + 1, j)
  <2> DEFINE b == [h \in Len(p) + 1 .. Len(p) + 1 |-> Len(n) + 1]
  <2>1. b \in [Len(p) + 1 .. Len(p) + 1 -> 1 .. Len(n) + 1] /\ b[Len(p) + 1] = Len(n) + 1
    BY <1>1
  <2>2. Len(p) + 1 .. Len(p) = {}
    BY <1>1
  <2> HIDE DEF b
  <2>. QED
    BY <1>3, <2>1, <2>2 DEF Over
<1>. QED
  BY <1>2, <1>3

\* What the character of the pattern at i makes of the place in the name.
Moves(p, n, i, j, k) ==
  IF p[i] = AnyRun THEN j <= k ELSE k = j + 1 /\ SameChar(p[i], n[j])

\* One more character in front of what is laid over the rest of the name.
LEMMA OverOneMore ==
  ASSUME NEW p \in Seq(Chars), NEW n \in Seq(Names), NEW i \in 1 .. Len(p),
         NEW j \in 1 .. Len(n) + 1, NEW k \in 1 .. Len(n) + 1,
         Over(p, n, i + 1, k), Moves(p, n, i, j, k)
  PROVE  Over(p, n, i, j)
<1>1. Len(p) \in Nat /\ Len(n) \in Nat
  OBVIOUS
<1>2. PICK b \in [i + 1 .. Len(p) + 1 -> 1 .. Len(n) + 1] :
        /\ b[i + 1] = k /\ b[Len(p) + 1] = Len(n) + 1
        /\ \A h \in i + 1 .. Len(p) : Moves(p, n, h, b[h], b[h + 1])
  BY DEF Over, Moves
<1> DEFINE c == [h \in i .. Len(p) + 1 |-> IF h = i THEN j ELSE b[h]]
<1>3. c \in [i .. Len(p) + 1 -> 1 .. Len(n) + 1]
  BY <1>1, <1>2
<1>4. c[i] = j /\ \A h \in i + 1 .. Len(p) + 1 : c[h] = b[h]
  BY <1>1
<1> HIDE DEF c
<1>5. c[Len(p) + 1] = Len(n) + 1 /\ c[i + 1] = k
  BY <1>1, <1>2, <1>4
<1>6. ASSUME NEW h \in i .. Len(p) PROVE Moves(p, n, h, c[h], c[h + 1])
  <2>1. CASE h = i
    BY <1>4, <1>5, <2>1
  <2>2. CASE h # i
    <3>1. h \in i + 1 .. Len(p) /\ h \in i + 1 .. Len(p) + 1 /\ h + 1 \in i + 1 .. Len(p) + 1
      BY <1>1, <2>2
    <3>. QED
      BY <1>2, <1>4, <3>1
  <2>. QED
    BY <2>1, <2>2
<1>. QED
  BY <1>3, <1>4, <1>5, <1>6 DEF Over, Moves

\* The other way round: without its first character.
LEMMA OverOneLess ==
  ASSUME NEW p \in Seq(Chars), NEW n \in Seq(Names), NEW i \in 1 .. Len(p),
         NEW j \in 1 .. Len(n) + 1, Over(p, n, i, j)
  PROVE  \E k \in 1 .. Len(n) + 1 : Over(p, n, i + 1, k) /\ Moves(p, n, i, j, k)
<1>1. Len(p) \in Nat /\ Len(n) \in Nat
  OBVIOUS
<1>2. PICK b \in [i .. Len(p) + 1 -> 1 .. Len(n) + 1] :
        /\ b[i] = j /\ b[Len(p) + 1] = Len(n) + 1
        /\ \A h \in i .. Len(p) : Moves(p, n, h, b[h], b[h + 1])
  BY DEF Over, Moves
<1> DEFINE c == [h \in i + 1 .. Len(p) + 1 |-> b[h]]
<1>3. c \in [i + 1 .. Len(p) + 1 -> 1 .. Len(n) + 1]
  BY <1>1, <1>2
<1>4. \A h \in i + 1 .. Len(p) + 1 : c[h] = b[h]
  BY <1>1
<1> HIDE DEF c
<1>5. c[Len(p) + 1] = Len(n) + 1 /\ c[i + 1] = b[i + 1] /\ b[i + 1] \in 1 .. Len(n) + 1
  BY <1>1, <1>2, <1>4
<1>6. ASSUME NEW h \in i + 1 .. Len(p) PROVE Moves(p, n, h, c[h], c[h + 1])
  <2>1. h \in i .. Len(p) /\ h \in i + 1 .. Len(p) + 1 /\ h + 1 \in i + 1 .. Len(p) + 1
    BY <1>1
  <2>. QED
    BY <1>2, <1>4, <2>1
<1>7. Over(p, n, i + 1, b[i + 1])
  BY <1>3, <1>5, <1>6 DEF Over, Moves
<1>8. Moves(p, n, i, j, b[i + 1])
  BY <1>1, <1>2
<1>. QED
  BY <1>5, <1>7, <1>8

\* A run ends anywhere.
LEMMA OverRun ==
  ASSUME NEW p \in Seq(Chars), NEW n \in Seq(Names), NEW i \in 1 .. Len(p),
         NEW j \in 1 .. Len(n) + 1, p[i] = AnyRun
  PROVE  Over(p, n, i, j) <=> \E k \in j .. Len(n) + 1 : Over(p, n, i + 1, k)
<1>1. Len(p) \in Nat /\ Len(n) \in Nat
  OBVIOUS
<1>2. ASSUME Over(p, n, i, j) PROVE \E k \in j .. Len(n) + 1 : Over(p, n, i + 1, k)
  BY <1>1, <1>2, OverOneLess DEF Moves
<1>3. ASSUME NEW k \in j .. Len(n) + 1, Over(p, n, i + 1, k) PROVE Over(p, n, i, j)
  BY <1>1, <1>3, OverOneMore DEF Moves
<1>. QED
  BY <1>2, <1>3

\* Any other character stands for one.
LEMMA OverChar ==
  ASSUME NEW p \in Seq(Chars), NEW n \in Seq(Names), NEW i \in 1 .. Len(p),
         NEW j \in 1 .. Len(n) + 1, p[i] # AnyRun
  PROVE  Over(p, n, i, j) <=>
           j <= Len(n) /\ SameChar(p[i], n[j]) /\ Over(p, n, i + 1, j + 1)
<1>1. Len(p) \in Nat /\ Len(n) \in Nat
  OBVIOUS
<1>2. ASSUME Over(p, n, i, j)
      PROVE  j <= Len(n) /\ SameChar(p[i], n[j]) /\ Over(p, n, i + 1, j + 1)
  BY <1>1, <1>2, OverOneLess DEF Moves
<1>3. ASSUME j <= Len(n), SameChar(p[i], n[j]), Over(p, n, i + 1, j + 1) PROVE Over(p, n, i, j)
  <2>1. j + 1 \in 1 .. Len(n) + 1
    BY <1>1, <1>3
  <2>. QED
    BY <1>1, <1>3, <2>1, OverOneMore DEF Moves
<1>. QED
  BY <1>2, <1>3
\* The pattern fits the name exactly if what is left of it fits from here on.
Here(p, n, a, t) == Over(p, n, 1, 1) <=> Over(p, n, a, t)

\* With the last '*' at s, whose run ends at r for now, and the comparison at a of
\* the pattern and t of the name: what is left to try with that run decides, and
\* nothing earlier does; wherever it ends, the pattern fits as far as it has come.
StillOpen(p, n, a, t, s, r) ==
  /\ r \in 1 .. t /\ s < a
  /\ Over(p, n, 1, 1) <=> \E k \in r .. Len(n) + 1 : Over(p, n, s + 1, k)
  /\ Over(p, n, s + 1, r) <=> Over(p, n, a, t)
  /\ \A k \in r .. Len(n) + 1 :
       Over(p, n, s + 1, k) => k + (t - r) <= Len(n) + 1 /\ Over(p, n, a, k + (t - r))

LEMMA OpenAtEnd ==
  ASSUME NEW p \in Seq(Chars), NEW n \in Seq(Names), NEW s, NEW r, NEW a,
         StillOpen(p, n, a, Len(n) + 1, s, r)
  PROVE  Here(p, n, a, Len(n) + 1)
<1>1. Len(n) \in Nat
  OBVIOUS
<1>2. \A k \in r .. Len(n) + 1 : Over(p, n, s + 1, k) => k = r
  BY <1>1 DEF StillOpen
<1>3. r \in r .. Len(n) + 1
  BY <1>1 DEF StillOpen
<1>. QED
  BY <1>2, <1>3 DEF StillOpen, Here

\* At the next '*' only the run that has come this far matters: a longer one leaves
\* less of the name.
LEMMA OpenAtRun ==
  ASSUME NEW p \in Seq(Chars), NEW n \in Seq(Names), NEW s, NEW r,
         NEW a \in 1 .. Len(p), NEW t \in 1 .. Len(n) + 1,
         StillOpen(p, n, a, t, s, r), p[a] = AnyRun
  PROVE  Here(p, n, a, t)
<1>1. Len(n) \in Nat /\ r \in r .. Len(n) + 1 /\ r \in Nat /\ t \in Nat
  BY DEF StillOpen
<1>2. ASSUME NEW k \in r .. Len(n) + 1, Over(p, n, s + 1, k) PROVE Over(p, n, a, t)
  <2>1. k + (t - r) \in t .. Len(n) + 1 /\ Over(p, n, a, k + (t - r))
    BY <1>1, <1>2 DEF StillOpen
  <2>2. PICK h \in k + (t - r) .. Len(n) + 1 : Over(p, n, a + 1, h)
    BY <2>1, <1>1, OverRun
  <2>3. h \in t .. Len(n) + 1
    BY <1>1, <2>1, <2>2
  <2>. QED
    BY <2>2, <2>3, OverRun
<1>. QED
  BY <1>1, <1>2 DEF StillOpen, Here

\* The new run is empty for now.
LEMMA OpenNew ==
  ASSUME NEW p \in Seq(Chars), NEW n \in Seq(Names),
         NEW a \in 1 .. Len(p), NEW t \in 1 .. Len(n) + 1,
         Here(p, n, a, t), p[a] = AnyRun
  PROVE  StillOpen(p, n, a + 1, t, a, t)
<1>1. Len(n) \in Nat /\ Len(p) \in Nat
  OBVIOUS
<1>2. Over(p, n, 1, 1) <=> \E k \in t .. Len(n) + 1 : Over(p, n, a + 1, k)
  BY OverRun DEF Here
<1>3. \A k \in t .. Len(n) + 1 : k + (t - t) = k
  BY <1>1
<1>. QED
  BY <1>1, <1>2, <1>3 DEF StillOpen

LEMMA OpenChar ==
  ASSUME NEW p \in Seq(Chars), NEW n \in Seq(Names), NEW s \in Nat, NEW r,
         NEW a \in 1 .. Len(p), NEW t \in 1 .. Len(n),
         StillOpen(p, n, a, t, s, r), p[a] # AnyRun, SameChar(p[a], n[t])
  PROVE  StillOpen(p, n, a + 1, t + 1, s, r)
<1>1. Len(n) \in Nat /\ Len(p) \in Nat /\ r \in 1 .. t /\ t \in 1 .. Len(n) + 1
  BY DEF StillOpen
<1>2. Over(p, n, a, t) <=> Over(p, n, a + 1, t + 1)
  BY <1>1, OverChar
<1>3. ASSUME NEW k \in r .. Len(n) + 1, Over(p, n, s + 1, k)
      PROVE  k + (t + 1 - r) <= Len(n) + 1 /\ Over(p, n, a + 1, k + (t + 1 - r))
  <2>1. k + (t - r) \in 1 .. Len(n) + 1 /\ Over(p, n, a, k + (t - r))
    BY <1>1, <1>3 DEF StillOpen
  <2>2. k + (t - r) <= Len(n) /\ Over(p, n, a + 1, k + (t - r) + 1)
    BY <2>1, OverChar
  <2>3. k + (t - r) + 1 = k + (t + 1 - r)
    BY <1>1
  <2>. QED
    BY <1>1, <2>2, <2>3
<1>4. Over(p, n, 1, 1) <=> \E k \in r .. Len(n) + 1 : Over(p, n, s + 1, k)
  BY DEF StillOpen
<1>5. s < a + 1 /\ r \in 1 .. t + 1 /\ (Over(p, n, s + 1, r) <=> Over(p, n, a + 1, t + 1))
  BY <1>1, <1>2 DEF StillOpen
<1>. QED
  BY <1>3, <1>4, <1>5 DEF StillOpen

\* Nothing fits with the run as it is: it has to be longer.
LEMMA OpenGrows ==
  ASSUME NEW p \in Seq(Chars), NEW n \in Seq(Names), NEW s \in Nat, NEW r,
         NEW a \in Nat, NEW t \in 1 .. Len(n),
         StillOpen(p, n, a, t, s, r), ~Over(p, n, a, t)
  PROVE  StillOpen(p, n, s + 1, r + 1, s, r + 1)
<1>1. Len(n) \in Nat /\ r \in 1 .. t /\ ~Over(p, n, s + 1, r)
  BY DEF StillOpen
<1>2. \A k \in r .. Len(n) + 1 : Over(p, n, s + 1, k) => k \in r + 1 .. Len(n) + 1
  BY <1>1
<1>3. \A k \in r + 1 .. Len(n) + 1 : k + (r + 1 - (r + 1)) = k /\ k \in r .. Len(n) + 1
  BY <1>1
<1>4. Over(p, n, 1, 1) <=> \E k \in r + 1 .. Len(n) + 1 : Over(p, n, s + 1, k)
  BY <1>2, <1>3 DEF StillOpen
<1>5. r + 1 \in 1 .. r + 1 /\ s < s + 1
  BY <1>1
<1>. QED
  BY <1>1, <1>3, <1>4, <1>5 DEF StillOpen
OnTrack ==
  search = "on" =>
    /\ star = 0 \/ to > Len(name) => Here(pattern, name, at, to)
    /\ star # 0 /\ to <= Len(name) => StillOpen(pattern, name, at, to, star, resume)

GlobIInv ==
  /\ GlobTypeOK /\ OnTrack /\ SearchIsRight
  /\ search = "idle" => at = 1 /\ to = 1 /\ star = 0 /\ resume = 0

LEMMA GlobInitOK == GlobInit => GlobIInv
  BY DEF GlobInit, GlobIInv, GlobTypeOK, OnTrack, SearchIsRight

\* A word of a length is a sequence of that length.
LEMMA WordsAreSeqs == ASSUME NEW S, NEW max \in Nat, NEW w \in Words(S, max) PROVE w \in Seq(S)
  BY DEF Words

LEMMA GlobCallOK == GlobIInv /\ GlobCall => GlobIInv'
<1>. SUFFICES ASSUME GlobIInv, GlobCall PROVE GlobIInv'
  OBVIOUS
<1>1. pattern' \in Seq(Chars) /\ name' \in Seq(Names)
  BY WordsAreSeqs, GlobAssumption DEF GlobCall, Chars
<1>2. at' = 1 /\ to' = 1 /\ star' = 0 /\ resume' = 0 /\ search' = "on"
  BY DEF GlobIInv, GlobCall
<1>3. Len(pattern') \in Nat /\ Len(name') \in Nat
  BY <1>1
<1>. QED
  BY <1>1, <1>2, <1>3 DEF GlobIInv, GlobTypeOK, OnTrack, SearchIsRight, Here, Chars

LEMMA GlobStepOK == GlobIInv /\ GlobStep => GlobIInv'
<1>. SUFFICES ASSUME GlobIInv, GlobStep PROVE GlobIInv'
  OBVIOUS
<1>. DEFINE p == pattern
            n == name
<1>1. /\ p \in Seq(Chars) /\ n \in Seq(Names) /\ Len(p) \in Nat /\ Len(n) \in Nat
      /\ at \in 1 .. Len(p) + 1 /\ to \in 1 .. Len(n) + 1
      /\ star \in 0 .. Len(p) /\ resume \in 0 .. Len(n) + 1
  BY DEF GlobIInv, GlobTypeOK, Chars
<1>2. search = "on" /\ p' = p /\ n' = n
  BY DEF GlobStep, StarSeen, CharFits, RunGrows, NothingFits, StarLeft, GlobReturns,
         Comparing, NameOver
<1>3. CASE StarSeen
  <2>1. at \in 1 .. Len(p) /\ p[at] = AnyRun /\ to <= Len(n)
    BY <1>1, <1>3 DEF StarSeen, Comparing, Sees
  <2>2. Here(p, n, at, to)
    BY <1>1, <1>2, <2>1, OpenAtRun DEF GlobIInv, OnTrack
  <2>3. StillOpen(p, n, at + 1, to, at, to)
    BY <1>1, <2>1, <2>2, OpenNew
  <2>4. /\ star' = at /\ at' = at + 1 /\ resume' = to /\ to' = to /\ search' = "on"
        /\ star' # 0 /\ to' <= Len(n)
    BY <1>1, <1>2, <1>3, <2>1 DEF StarSeen
  <2>. QED
    BY <1>1, <1>2, <2>1, <2>3, <2>4 DEF GlobIInv, GlobTypeOK, OnTrack, SearchIsRight, Chars
<1>4. CASE CharFits
  <2>1. /\ at \in 1 .. Len(p) /\ to \in 1 .. Len(n) /\ p[at] # AnyRun /\ SameChar(p[at], n[to])
    BY <1>1, <1>4 DEF CharFits, Comparing, Fits, Sees
  <2>2. /\ at' = at + 1 /\ to' = to + 1 /\ star' = star /\ resume' = resume /\ search' = "on"
    BY <1>2, <1>4 DEF CharFits
  <2>3. CASE star = 0
    <3>1. Here(p, n, at + 1, to + 1)
      BY <1>1, <1>2, <2>1, <2>3, OverChar DEF GlobIInv, OnTrack, Here
    <3>. QED
      BY <1>1, <1>2, <2>1, <2>2, <2>3, <3>1
         DEF GlobIInv, GlobTypeOK, OnTrack, SearchIsRight, Chars
  <2>4. CASE star # 0
    <3>1. StillOpen(p, n, at + 1, to + 1, star, resume)
      BY <1>1, <1>2, <2>1, <2>4, OpenChar DEF GlobIInv, OnTrack
    <3>2. to + 1 > Len(n) => Here(p, n, at + 1, to + 1)
      <4>1. CASE to = Len(n)
        BY <1>1, <3>1, <4>1, OpenAtEnd
      <4>. QED
        BY <1>1, <2>1, <4>1
    <3>. QED
      BY <1>1, <1>2, <2>1, <2>2, <2>4, <3>1, <3>2
         DEF GlobIInv, GlobTypeOK, OnTrack, SearchIsRight, Chars
  <2>. QED
    BY <2>3, <2>4
<1>5. ASSUME Comparing, ~Sees(AnyRun), ~Fits PROVE ~Over(p, n, at, to)
  <2>1. to \in 1 .. Len(n)
    BY <1>1, <1>5 DEF Comparing
  <2>2. CASE at \in 1 .. Len(p)
    BY <1>1, <1>5, <2>1, <2>2, OverChar DEF Sees, Fits
  <2>3. CASE at = Len(p) + 1
    BY <1>1, <2>1, <2>3, OverEnd
  <2>. QED
    BY <1>1, <2>2, <2>3
<1>6. CASE RunGrows
  <2>1. star # 0 /\ to \in 1 .. Len(n) /\ ~Over(p, n, at, to)
    BY <1>1, <1>5, <1>6 DEF RunGrows, Comparing
  <2>2. StillOpen(p, n, at, to, star, resume)
    BY <1>1, <1>2, <2>1 DEF GlobIInv, OnTrack
  <2>3. StillOpen(p, n, star + 1, resume + 1, star, resume + 1) /\ resume \in 1 .. to
    <3>1. at \in Nat /\ star \in Nat
      BY <1>1
    <3>. QED
      BY <1>1, <2>1, <2>2, <3>1, OpenGrows DEF StillOpen
  <2>4. resume + 1 > Len(n) => Here(p, n, star + 1, resume + 1)
    <3>1. CASE resume = Len(n)
      BY <1>1, <2>3, <3>1, OpenAtEnd
    <3>. QED
      BY <1>1, <2>1, <2>3, <3>1
  <2>5. /\ at' = star + 1 /\ resume' = resume + 1 /\ to' = resume + 1 /\ star' = star
        /\ search' = "on"
    BY <1>2, <1>6 DEF RunGrows
  <2>. QED
    <3>1. GlobTypeOK'
      BY <1>1, <1>2, <2>1, <2>3, <2>5 DEF GlobTypeOK, Chars
    <3>2. OnTrack'
      BY <1>2, <2>1, <2>3, <2>4, <2>5 DEF OnTrack
    <3>. QED
      BY <2>5, <3>1, <3>2 DEF GlobIInv, SearchIsRight
<1>7. CASE NothingFits
  <2>1. star = 0 /\ ~Over(p, n, at, to)
    BY <1>5, <1>7 DEF NothingFits
  <2>2. ~Matches
    BY <1>2, <2>1 DEF GlobIInv, OnTrack, Here, Matches
  <2>3. /\ UNCHANGED <<at, to, star, resume>> /\ search' = "no"
    BY <1>7 DEF NothingFits
  <2>. QED
    BY <1>1, <1>2, <2>2, <2>3 DEF GlobIInv, GlobTypeOK, OnTrack, SearchIsRight, Matches, Chars
<1>8. CASE StarLeft
  <2>1. at \in 1 .. Len(p) /\ p[at] = AnyRun /\ to = Len(n) + 1
    BY <1>1, <1>8 DEF StarLeft, NameOver, Sees
  <2>2. Here(p, n, at, to)
    BY <1>1, <1>2, <2>1 DEF GlobIInv, OnTrack
  <2>3. Over(p, n, at, to) <=> Over(p, n, at + 1, to)
    <3>1. \A k \in to .. Len(n) + 1 : k = to
      BY <1>1, <2>1
    <3>2. to \in to .. Len(n) + 1
      BY <1>1, <2>1
    <3>. QED
      BY <1>1, <2>1, <3>1, <3>2, OverRun
  <2>4. at' = at + 1 /\ UNCHANGED <<to, star, resume, search>>
    BY <1>8 DEF StarLeft
  <2>. QED
    BY <1>1, <1>2, <2>1, <2>2, <2>3, <2>4
       DEF GlobIInv, GlobTypeOK, OnTrack, SearchIsRight, Here, Chars
<1>9. CASE GlobReturns
  <2>1. to = Len(n) + 1 /\ ~Sees(AnyRun)
    BY <1>1, <1>9 DEF GlobReturns, NameOver
  <2>2. Here(p, n, at, to)
    BY <1>1, <1>2, <2>1 DEF GlobIInv, OnTrack
  <2>3. Over(p, n, at, to) <=> at > Len(p)
    <3>1. CASE at \in 1 .. Len(p)
      BY <1>1, <2>1, <3>1, OverChar DEF Sees
    <3>2. CASE at = Len(p) + 1
      BY <1>1, <2>1, <3>2, OverEnd
    <3>. QED
      BY <1>1, <3>1, <3>2
  <2>4. /\ UNCHANGED <<at, to, star, resume>>
        /\ search' = IF at > Len(p) THEN "yes" ELSE "no"
    BY <1>9 DEF GlobReturns
  <2>5. SearchIsRight'
    <3>1. Matches' <=> at > Len(p)
      BY <1>2, <2>2, <2>3 DEF Here, Matches
    <3>2. search' = "yes" <=> at > Len(p)
      BY <2>4
    <3>. QED
      BY <3>1, <3>2 DEF SearchIsRight
  <2>. QED
    BY <1>1, <1>2, <2>4, <2>5 DEF GlobIInv, GlobTypeOK, OnTrack, SearchIsRight, Chars
<1>. QED
  BY <1>3, <1>4, <1>6, <1>7, <1>8, <1>9 DEF GlobStep

LEMMA GlobKeeps == GlobIInv /\ [GlobNext]_globVars => GlobIInv'
<1>1. GlobIInv /\ UNCHANGED globVars => GlobIInv'
  BY DEF globVars, GlobIInv, GlobTypeOK, OnTrack, SearchIsRight, Matches
<1>. QED
  BY <1>1, GlobCallOK, GlobStepOK DEF GlobNext

\* The search, which goes back to the last '*' only, answers as one that tries every
\* run of every '*', for every pattern and every name.
THEOREM GlobIsRight == GlobSpec => []SearchIsRight
<1>1. GlobIInv => SearchIsRight
  BY DEF GlobIInv
<1>. QED
  BY GlobInitOK, GlobKeeps, <1>1, PTL DEF GlobSpec

(***************************************************************************)
(* write_file and delete_file                                              *)
(***************************************************************************)

\* Whoever asks for the last content finds it here, if it is to be found at all.
Holds(content) == kept = Absent \/ spoilt \/ kept = content

\* Where the last content is at each step of a write: under its name until the
\* file has been renamed, unless a power cut has left it in the backup, and in the
\* backup from then on.
Placed ==
  /\ save.step \in {"idle", "backup", "rename"} =>
       /\ text \in {Absent, Broken} => Holds(bak)
       /\ text \notin {Absent, Broken} => Holds(text)
  /\ save.step \in {"backup", "rename"} => text # Absent /\ (text = Broken => spoilt)
  /\ save.step \in {"open", "write", "undo", "restore"} =>
       Holds(bak) /\ text \in {Absent, Broken}
  /\ save.step = "restore" => text = Absent
  /\ save.step # "idle" => ~using

FileIInv == FileTypeOK /\ Placed
-----------------------------------------------------------------------------
USE RemoteFileAssumption DEF Absent, Broken

\* Booleans and the rest, which different provers are good at.
Contents ==
  /\ text \in {Absent, Broken} \cup 1 .. MaxSaves
  /\ bak \in {Absent, Broken} \cup 1 .. MaxSaves
  /\ saves \in 0 .. MaxSaves /\ cuts \in 0 .. MaxCuts /\ kept \in 0 .. MaxSaves
SaveStep   == {"idle", "backup", "rename", "open", "write", "undo", "restore"}
SaveRecord == [step : SaveStep, existed : BOOLEAN]
Steps == save \in SaveRecord

\* A write that goes on, begins or ends has a step.
LEMMA GoesOn == ASSUME Steps, NEW step \in SaveStep PROVE [save EXCEPT !.step = step] \in SaveRecord
  BY DEF Steps, SaveRecord
LEMMA Begun == ASSUME NEW step \in SaveStep, NEW b \in BOOLEAN
               PROVE  [step |-> step, existed |-> b] \in SaveRecord
  BY DEF SaveRecord
LEMMA NoSaveIsRecord == NoSave \in SaveRecord
  BY Begun DEF NoSave, SaveStep

LEMMA ContentsStep == ASSUME Contents, [FileNext]_fileVars PROVE Contents'
<1> USE DEF Contents
<1>1. CASE SaveBegins \/ BackupGoes \/ Rename
  BY <1>1 DEF SaveBegins, BackupGoes, Rename
<1>2. CASE OpensFile \/ WritesFile
  BY <1>2 DEF OpensFile, WritesFile
<1>3. CASE UndoesWrite \/ Restores
  BY <1>3 DEF UndoesWrite, Restores
<1>4. CASE DeletesFile \/ DeletesBackup
  BY <1>4 DEF DeletesFile, DeletesBackup
<1>5. CASE UsingChanges \/ AppWritesFile \/ PowerIsCut
  BY <1>5 DEF UsingChanges, AppWritesFile, PowerIsCut
<1>6. CASE UNCHANGED fileVars
  BY <1>6 DEF fileVars
<1>. QED BY <1>1, <1>2, <1>3, <1>4, <1>5, <1>6 DEF FileNext

LEMMA StepsStep == ASSUME Steps, [FileNext]_fileVars PROVE Steps'
<1> USE NoSaveIsRecord, GoesOn DEF SaveGoes
<1>0. SaveStep = {"idle", "backup", "rename", "open", "write", "undo", "restore"}
  BY DEF SaveStep
<1>1. CASE SaveBegins
  <2>1. (text # Absent) \in BOOLEAN
    OBVIOUS
  <2>2. PICK step \in SaveStep : save' = [step |-> step, existed |-> text # Absent]
    BY <1>0, <1>1 DEF SaveBegins
  <2>. QED BY <2>1, <2>2, Begun, Zenon DEF Steps
<1>2. CASE BackupGoes \/ Rename
  BY <1>0, <1>2, Zenon DEF BackupGoes, Rename, Steps
<1>3. CASE OpensFile \/ WritesFile
  BY <1>0, <1>3, Zenon DEF OpensFile, WritesFile, Steps
<1>4. CASE UndoesWrite \/ Restores
  BY <1>0, <1>4, Zenon DEF UndoesWrite, Restores, Steps
<1>5. CASE DeletesFile \/ DeletesBackup \/ UsingChanges \/ AppWritesFile
  BY <1>5, Zenon DEF DeletesFile, DeletesBackup, UsingChanges, AppWritesFile, Steps
<1>6. CASE PowerIsCut
  BY <1>6, Zenon DEF PowerIsCut, Steps
<1>7. CASE UNCHANGED fileVars
  BY <1>7, Zenon DEF fileVars, Steps
<1>. QED BY <1>1, <1>2, <1>3, <1>4, <1>5, <1>6, <1>7, Zenon DEF FileNext

LEMMA BooleansStep ==
  ASSUME using \in BOOLEAN, spoilt \in BOOLEAN, [FileNext]_fileVars
  PROVE  using' \in BOOLEAN /\ spoilt' \in BOOLEAN
<1>1. CASE SaveBegins
  BY <1>1, Zenon DEF SaveBegins
<1>2. CASE BackupGoes \/ Rename \/ OpensFile \/ WritesFile \/ UndoesWrite \/ Restores
  BY <1>2, Zenon DEF BackupGoes, Rename, OpensFile, WritesFile, UndoesWrite, Restores
<1>3. CASE DeletesFile \/ DeletesBackup \/ UsingChanges \/ AppWritesFile
  BY <1>3, Zenon DEF DeletesFile, DeletesBackup, UsingChanges, AppWritesFile
<1>4. CASE PowerIsCut
  BY <1>4, Zenon DEF PowerIsCut
<1>5. CASE UNCHANGED fileVars
  BY <1>5, Zenon DEF fileVars
<1>. QED BY <1>1, <1>2, <1>3, <1>4, <1>5, Zenon DEF FileNext

LEMMA FileTypeParts == FileTypeOK <=> Contents /\ Steps /\ using \in BOOLEAN /\ spoilt \in BOOLEAN
  BY DEF FileTypeOK, Contents, Steps, SaveRecord, SaveStep

LEMMA FileTypeStep == ASSUME FileTypeOK, [FileNext]_fileVars PROVE FileTypeOK'
<1>1. Contents' /\ Steps' /\ using' \in BOOLEAN /\ spoilt' \in BOOLEAN
  BY FileTypeParts, ContentsStep, StepsStep, BooleansStep
<1>. QED BY <1>1 DEF FileTypeOK, Contents, Steps, SaveRecord, SaveStep

LEMMA FileInitOK == FileInit => FileIInv
<1> SUFFICES ASSUME FileInit PROVE FileIInv
  OBVIOUS
<1>1. Contents /\ Steps
  BY NoSaveIsRecord DEF FileInit, Contents, Steps
<1>2. using \in BOOLEAN /\ spoilt \in BOOLEAN
  BY Zenon DEF FileInit
<1>3. Placed
  BY DEF FileInit, Placed, Holds, NoSave
<1>. QED BY <1>1, <1>2, <1>3, FileTypeParts DEF FileIInv

LEMMA StepAfter ==
  ASSUME Steps PROVE /\ \A step : SaveGoes(step) => save'.step = step
                     /\ NoSave.step = "idle"
  BY DEF Steps, SaveRecord, SaveGoes, NoSave

LEMMA PlacedStep == ASSUME FileIInv, [FileNext]_fileVars PROVE Placed'
<1>0. Contents /\ Steps /\ Placed
  BY FileTypeParts DEF FileIInv
<1> USE <1>0, StepAfter DEF Contents, Placed, Holds
<1>1. CASE SaveBegins
  BY <1>1 DEF SaveBegins
<1>2. CASE BackupGoes
  BY <1>2 DEF BackupGoes
<1>3. CASE Rename
  BY <1>3 DEF Rename
<1>4. CASE OpensFile
  BY <1>4 DEF OpensFile
<1>5. CASE WritesFile
  BY <1>5 DEF WritesFile
<1>6. CASE UndoesWrite
  BY <1>6 DEF UndoesWrite
<1>7. CASE Restores
  BY <1>7 DEF Restores
<1>8. CASE DeletesFile
  BY <1>8 DEF DeletesFile
<1>9. CASE DeletesBackup
  BY <1>9 DEF DeletesBackup
<1>10. CASE UsingChanges
  BY <1>10 DEF UsingChanges
<1>11. CASE AppWritesFile
  <2>1. save.step = "idle" /\ save' = save
    BY <1>11, Zenon DEF AppWritesFile
  <2>2. text' = kept' /\ text' \notin {Absent, Broken}
    BY <1>11 DEF AppWritesFile
  <2>3. Holds(text)'
    BY <2>2
  <2>. QED BY <2>1, <2>2, <2>3
<1>12. CASE PowerIsCut
  <2>1. save.step \in SaveStep /\ save'.step = "idle" /\ ~using'
    BY <1>12 DEF PowerIsCut, Steps, SaveRecord
  <2>2. UNCHANGED <<text, bak, kept, spoilt>>
    BY <1>12 DEF PowerIsCut
  <2>. QED BY <2>1, <2>2 DEF SaveStep
<1>13. CASE UNCHANGED fileVars
  BY <1>13 DEF fileVars
<1>. QED
  BY <1>1, <1>2, <1>3, <1>4, <1>5, <1>6, <1>7, <1>8, <1>9, <1>10, <1>11, <1>12, <1>13
     DEF FileNext
-----------------------------------------------------------------------------
\* The last whole content of a file is on the card, in the file or in its .bak,
\* with any number of writes, failures and power cuts.
THEOREM LastContentIsKept == FileSpec => []LastContentKept
<1>1. FileInit => FileIInv
  BY FileInitOK
<1>2. FileIInv /\ [FileNext]_fileVars => FileIInv'
  BY FileTypeStep, PlacedStep DEF FileIInv
<1>3. FileIInv => LastContentKept
  BY DEF FileIInv, FileTypeOK, Placed, Holds, LastContentKept
<1>. QED BY <1>1, <1>2, <1>3, PTL DEF FileSpec

\* The range of every variable of the three components.
THEOREM CardTypes ==
  /\ SettingsSpec => []SettingsTypeOK
  /\ GlobSpec => []GlobTypeOK
  /\ FileSpec => []FileTypeOK
<1>1. SettingsSpec => []SettingsTypeOK
  <2>1. SettingsIInv => SettingsTypeOK
    BY DEF SettingsIInv
  <2>. QED
    BY <2>1, SettingsInitOK, SettingsStep, PTL DEF SettingsSpec
<1>2. GlobSpec => []GlobTypeOK
  <2>1. GlobIInv => GlobTypeOK
    BY DEF GlobIInv
  <2>. QED
    BY <2>1, GlobInitOK, GlobKeeps, PTL DEF GlobSpec
<1>3. FileSpec => []FileTypeOK
  <2>1. FileInit => FileTypeOK
    BY FileInitOK DEF FileIInv
  <2>2. FileTypeOK /\ [FileNext]_fileVars => FileTypeOK'
    BY FileTypeStep
  <2>. QED
    BY <2>1, <2>2, PTL DEF FileSpec
<1>. QED
  BY <1>1, <1>2, <1>3
=============================================================================
