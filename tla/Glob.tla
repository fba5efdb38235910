--------------------------------- MODULE Glob ---------------------------------
(***************************************************************************)
(* glob_match (papp_files.h): how the store compares the last part of a    *)
(* path that a listing requires with the names in a folder.  One action    *)
(* per branch of the loop, which goes back to the last '*' only.           *)
(***************************************************************************)
EXTENDS Integers, Sequences

CONSTANTS
  Letters,     \* the letters of patterns
  Names,       \* the letters of names
  lower,       \* the lower case of each
  MaxPattern,  \* bound: the longest pattern
  MaxName      \* bound: the longest name

ASSUME GlobAssumption ==
  /\ lower \in [Letters \cup Names -> Letters \cup Names]
  /\ MaxPattern \in Nat /\ MaxName \in Nat

VARIABLES
  pattern, name,  \* what is compared with what
  at,             \* the place of the next character of the pattern
  to,             \* the place of the next character of the name
  star,           \* the place of the last '*' seen, or 0
  resume,         \* where its run ends in the name
  search          \* "idle", "on", or what is returned: "yes" or "no"

globVars == <<pattern, name, at, to, star, resume, search>>

AnyRun == "*"
AnyOne == "?"

GlobInit ==
  /\ pattern = <<>> /\ name = <<>>
  /\ at = 1 /\ to = 1 /\ star = 0 /\ resume = 0 /\ search = "idle"

Words(chars, max) == UNION {[1 .. n -> chars] : n \in 0 .. max}

GlobCall ==
  /\ search = "idle" /\ search' = "on"
  /\ pattern' \in Words(Letters \cup {AnyRun, AnyOne}, MaxPattern)
  /\ name' \in Words(Names, MaxName)
  /\ UNCHANGED <<at, to, star, resume>>
-----------------------------------------------------------------------------
(***************************************************************************)
(* While there is a next character of the name                             *)
(***************************************************************************)
Comparing == search = "on" /\ to <= Len(name)

Sees(char) == at <= Len(pattern) /\ pattern[at] = char

SameChar(p, c) == p = AnyOne \/ (p \in Letters /\ lower[p] = lower[c])

Fits == ~Sees(AnyRun) /\ at <= Len(pattern) /\ SameChar(pattern[at], name[to])

\* A '*': its run is empty for now.
StarSeen ==
  /\ Comparing /\ Sees(AnyRun)
  /\ star' = at /\ at' = at + 1 /\ resume' = to
  /\ UNCHANGED <<pattern, name, to, search>>

CharFits ==
  /\ Comparing /\ Fits
  /\ at' = at + 1 /\ to' = to + 1
  /\ UNCHANGED <<pattern, name, star, resume, search>>

\* Faulty variant: the run of the last '*' ends where the comparison has failed.
RunGrowsFromHere ==
  /\ Comparing /\ ~Sees(AnyRun) /\ ~Fits /\ star # 0
  /\ at' = star + 1 /\ resume' = to + 1 /\ to' = resume'
  /\ UNCHANGED <<pattern, name, star, search>>

\* The run of the last '*' is one character longer.
RunGrows ==
  /\ Comparing /\ ~Sees(AnyRun) /\ ~Fits /\ star # 0
  /\ at' = star + 1 /\ resume' = resume + 1 /\ to' = resume'
  /\ UNCHANGED <<pattern, name, star, search>>

NothingFits ==
  /\ Comparing /\ ~Sees(AnyRun) /\ ~Fits /\ star = 0
  /\ search' = "no"
  /\ UNCHANGED <<pattern, name, at, to, star, resume>>
-----------------------------------------------------------------------------
(***************************************************************************)
(* At the end of the name                                                  *)
(***************************************************************************)
NameOver == search = "on" /\ to > Len(name)

StarLeft ==
  /\ NameOver /\ Sees(AnyRun)
  /\ at' = at + 1
  /\ UNCHANGED <<pattern, name, to, star, resume, search>>

GlobReturns ==
  /\ NameOver /\ ~Sees(AnyRun)
  /\ search' = IF at > Len(pattern) THEN "yes" ELSE "no"
  /\ UNCHANGED <<pattern, name, at, to, star, resume>>
-----------------------------------------------------------------------------
GlobStep == StarSeen \/ CharFits \/ RunGrows \/ NothingFits \/ StarLeft \/ GlobReturns

GlobNext == GlobCall \/ GlobStep

GlobSpec == GlobInit /\ [][GlobNext]_globVars
-----------------------------------------------------------------------------
GlobTypeOK ==
  /\ pattern \in Seq(Letters \cup {AnyRun, AnyOne}) /\ name \in Seq(Names)
  /\ at \in 1 .. Len(pattern) + 1 /\ to \in 1 .. Len(name) + 1
  /\ star \in 0 .. Len(pattern) /\ resume \in 0 .. Len(name) + 1
  /\ search \in {"idle", "on", "yes", "no"}

\* Reference: pattern p from its i-th character on can be laid over name n from its
\* j-th on, up to the end of both.  Each character of the pattern begins where the
\* one before ends: a '*' ends anywhere from there on, any other fits the one
\* character it begins at.
Over(p, n, i, j) ==
  \E begins \in [i .. Len(p) + 1 -> 1 .. Len(n) + 1] :
    /\ begins[i] = j /\ begins[Len(p) + 1] = Len(n) + 1
    /\ \A h \in i .. Len(p) :
         IF p[h] = AnyRun THEN begins[h] <= begins[h + 1]
         ELSE begins[h + 1] = begins[h] + 1 /\ SameChar(p[h], n[begins[h]])

Matches == Over(pattern, name, 1, 1)

\* "'*' (any run of characters) and '?' (one character), ignoring case": the search,
\* which goes back to the last '*' only, answers as one that tries every run of
\* every '*'.
SearchIsRight == search \in {"yes", "no"} => (search = "yes" <=> Matches)
=============================================================================
