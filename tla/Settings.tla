------------------------------- MODULE Settings -------------------------------
(***************************************************************************)
(* settings.json on the card and the Screen button of the store            *)
(* (papp_store.cpp; papp_canvas.h): each app's canvas size, the favourite  *)
(* apps and the favourite games, which three setters rewrite as a whole.   *)
(* All of it runs in the main loop.                                        *)
(*                                                                         *)
(* A size is its place in the order of areas; no size ("") is 0.  The text *)
(* of the file is its entries, each of length 1.                           *)
(***************************************************************************)
EXTENDS Integers, FiniteSets, Sequences, Functions

CONSTANTS
  Titles,      \* apps, by their settings key
  Games,       \* games, each of one app
  Sizes,       \* canvas sizes, ordered by area
  Fitting,     \* those this panel can show (size_ok)
  Standard,    \* the panel, 1024x600, 800x480 and 640x480
  MaxFields,   \* SETTINGS_MAX_BYTES, in entries
  CardFails    \* BOOLEAN: a read may fail, and a write may stop half-way

ASSUME SettingsAssumption ==
  /\ IsFiniteSet(Titles) /\ IsFiniteSet(Games) /\ IsFiniteSet(Sizes)
  /\ Sizes \subseteq Nat \ {0} /\ Fitting \subseteq Sizes /\ Standard \subseteq Sizes
  /\ MaxFields \in Nat /\ CardFails \in BOOLEAN

VARIABLES
  json,     \* the file: "none", "whole" or "torn", and its entries when whole
  chosen,   \* history: what every setter that reported success has made of it
  outgrown  \* history: the file was torn, longer than is read, or rewritten unread

settingsVars == <<json, chosen, outgrown>>

NoSize == 0

Entries == [canvas : [Titles -> Sizes \cup {NoSize}], favorites : SUBSET Titles,
            games : SUBSET Games]

NoEntries == [canvas |-> [t \in Titles |-> NoSize], favorites |-> {}, games |-> {}]

Fields(e) == Cardinality({t \in Titles : e.canvas[t] # NoSize})
             + Cardinality(e.favorites) + Cardinality(e.games)

SettingsInit ==
  /\ json = [text |-> "none", entries |-> NoEntries]
  /\ chosen = NoEntries /\ outgrown = FALSE
-----------------------------------------------------------------------------
(***************************************************************************)
(* The sizes of the Screen button (papp_canvas.h)                          *)
(***************************************************************************)

\* What a listing says of the canvas: any size or these, and the wanted one.
Listings == {l \in [any : BOOLEAN, sizes : SUBSET Sizes, wanted : Sizes \cup {NoSize}] :
               l.any => l.sizes = {}}

Supports(l) == l.any \/ l.sizes # {}

Recommended(l) ==
  IF l.wanted \in Fitting /\ (l.any \/ l.wanted \in l.sizes) THEN l.wanted ELSE NoSize

\* Largest first: in the k-th place the one that k - 1 others are larger than.
LargestFirst(sizes) ==
  [k \in 1 .. Cardinality(sizes) |->
     CHOOSE s \in sizes : Cardinality({larger \in sizes : larger > s}) = k - 1]

\* Those that fit.
ScreenChoices(listed) ==
  LargestFirst((IF listed = {} THEN Standard ELSE listed) \cap Fitting)

\* Faulty variant: the recommended size is offered only if the list has it.
OfferedOfList(l) == ScreenChoices(l.sizes)

\* With the recommended size, which an app that takes any may make up.
Offered(l) ==
  IF Recommended(l) \in {NoSize} \cup Range(ScreenChoices(l.sizes)) THEN ScreenChoices(l.sizes)
  ELSE ScreenChoices(Range(ScreenChoices(l.sizes)) \cup {Recommended(l)})

\* What one press steps through: the recommended size, or else the device's
\* canvas in the first place, is "no setting".
Options(l) ==
  (IF Recommended(l) = NoSize THEN <<NoSize>> ELSE <<>>)
  \o [i \in DOMAIN Offered(l) |->
        IF Offered(l)[i] = Recommended(l) THEN NoSize ELSE Offered(l)[i]]

NextOption(options, current) ==
  IF current \notin Range(options) THEN NoSize
  ELSE LET at == CHOOSE i \in DOMAIN options : options[i] = current
       IN options[(at % Len(options)) + 1]

\* The option after the saved setting, which may be the recommended size itself.
Pressed(l, setting) ==
  NextOption(Options(l), IF setting = Recommended(l) THEN NoSize ELSE setting)

\* prepare_canvas_for_app_: what an app is offered when it starts, or NoSize for
\* the device's canvas.
Given(l, setting) == IF setting \in Fitting THEN setting ELSE Recommended(l)

\* screen_label_: what the button shows.
Label(l, setting) == IF setting # NoSize THEN setting ELSE Recommended(l)
-----------------------------------------------------------------------------
(***************************************************************************)
(* The file                                                                *)
(***************************************************************************)

\* A file that is not there, torn, or longer than is read counts as empty.
Read ==
  IF json.text = "whole" /\ Fields(json.entries) <= MaxFields THEN json.entries ELSE NoEntries

\* And one that does not open, or whose reading stops half-way.
Readings == {Read} \cup (IF CardFails THEN {NoEntries} ELSE {})

\* What was read is rewritten with one change.  The file may not open, and stays;
\* a write that stops half-way leaves what cannot be parsed.
Rewrite(read, entries, wanted) ==
  \/ /\ json' = [text |-> "whole", entries |-> entries]
     /\ chosen' = IF outgrown THEN NoEntries ELSE wanted
     /\ outgrown' = (outgrown \/ Fields(entries) > MaxFields \/ read # Read)
  \/ UNCHANGED settingsVars
  \/ /\ CardFails
     /\ json' = [text |-> "torn", entries |-> NoEntries]
     /\ outgrown' = TRUE /\ UNCHANGED chosen

\* Faulty variant: a size that is taken back takes the app's whole entry along.
WithCanvasAlone(e, t, s) ==
  [e EXCEPT !.canvas[t] = s, !.favorites = IF s = NoSize THEN @ \ {t} ELSE @]

\* An entry without fields is removed.
WithCanvas(e, t, s) == [e EXCEPT !.canvas[t] = s]

\* set_app_canvas, from a lambda; a size the panel cannot show is refused.
SetCanvas(t, s) ==
  /\ s \in Fitting \cup {NoSize}
  /\ \E read \in Readings :
       Rewrite(read, WithCanvas(read, t, s), [chosen EXCEPT !.canvas[t] = s])

\* cycle_screen_setting_, of an app whose listing says something of the canvas.
PressScreen(t) ==
  \E s \in {Pressed(l, shown.canvas[t]) :
              l \in {m \in Listings : Supports(m)}, shown \in Readings} : SetCanvas(t, s)

Turned(set, x, on) == IF on THEN set \cup {x} ELSE set \ {x}

\* toggle_app_favorite_: the opposite of what is_app_favorite_ read; the setter
\* reads the file again.
ToggleFavorite(t) ==
  \E shown \in Readings, read \in Readings :
    LET on == t \notin shown.favorites
    IN Rewrite(read, [read EXCEPT !.favorites = Turned(@, t, on)],
               [chosen EXCEPT !.favorites = Turned(@, t, on)])

\* toggle_selected_rom_favorite
ToggleGame(g) ==
  \E shown \in Readings, read \in Readings :
    LET on == g \notin shown.games
    IN Rewrite(read, [read EXCEPT !.games = Turned(@, g, on)],
               [chosen EXCEPT !.games = Turned(@, g, on)])
-----------------------------------------------------------------------------
SettingsNext ==
  \/ \E t \in Titles : PressScreen(t) \/ ToggleFavorite(t)
  \/ \E t \in Titles, s \in Sizes \cup {NoSize} : SetCanvas(t, s)
  \/ \E g \in Games : ToggleGame(g)

SettingsSpec == SettingsInit /\ [][SettingsNext]_settingsVars
-----------------------------------------------------------------------------
SettingsTypeOK ==
  /\ json \in [text : {"none", "whole", "torn"}, entries : Entries]
  /\ chosen \in Entries /\ outgrown \in BOOLEAN

\* "Other entries and fields are kept when the store rewrites it": what is read is
\* what every setter so far has been told was saved.
NothingForgotten == Read = chosen

\* It is, until the file has grown past what is read, a write has torn it, or a
\* setter that could not read it has rewritten it.
SettingsKept == outgrown \/ NothingForgotten

\* The stops of the button from a setting on: one press more than there are options.
Stops(l, setting) ==
  LET stop[i \in 0 .. Len(Options(l))] ==
        Pressed(l, IF i = 0 THEN setting ELSE stop[i - 1])
  IN {stop[i] : i \in DOMAIN stop}

\* "Each press moves to the next choice ... The app gets it the next time it
\* starts": from whatever is saved, which another listing may have offered, the
\* button comes past every choice and no other, the device's canvas or the
\* recommended size among them, and each is given to the app as it is shown.
EveryChoiceComes ==
  json.text = "whole" =>
    \A l \in Listings : Supports(l) =>
      /\ \A t \in Titles : Stops(l, Read.canvas[t]) = Range(Options(l))
      /\ NoSize \in Range(Options(l))
      /\ {Given(l, o) : o \in Range(Options(l))}
           = {Recommended(l)} \cup Range(ScreenChoices(l.sizes))
      /\ \A o \in Range(Options(l)) : Label(l, o) = Given(l, o)
=============================================================================
