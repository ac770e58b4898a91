-------------------------------- MODULE SemVer --------------------------------
(***************************************************************************)
(* The sem_ver operator (src/operators/sem_ver.rs): versions are parsed,   *)
(* ordered by precedence and compared with an operator.                    *)
(*                                                                         *)
(* A text has the parts of its core, a prerelease and build metadata.  An  *)
(* identifier of a prerelease is its number, when it parses as a u64, and  *)
(* its rank among all texts in byte order.                                 *)
(***************************************************************************)
EXTENDS Values

CONSTANT MaxNumber    \* u64::MAX

ASSUME NumberAssumption == MaxNumber \in Nat

Identifier(number, rank) == [number |-> number, rank |-> rank]

\* A part that is no number, or too large for a u64, makes the version invalid.
Valid(text) ==
    /\ Len(text.parts) \in 1 .. 3
    /\ \A i \in DOMAIN text.parts : text.parts[i] \in 0 .. MaxNumber

Core(text, i) == IF i <= Len(text.parts) THEN text.parts[i] ELSE 0

Parse(text) ==
    [major |-> Core(text, 1), minor |-> Core(text, 2), patch |-> Core(text, 3),
     prerelease |-> text.prerelease, build |-> text.build]

\* Less, Equal and Greater are -1, 0 and 1.
Order(m, n) == IF m < n THEN -1 ELSE IF m > n THEN 1 ELSE 0

\* The first comparison that is not Equal decides.
FirstDifference(orders) ==
    LET different == {i \in DOMAIN orders : orders[i] # 0}
    IN  IF different = {} THEN 0
        ELSE orders[CHOOSE i \in different : \A j \in different : i <= j]

IsNumeric(id) == id.number \in 0 .. MaxNumber

\* Mutant of CompareIdentifiers: a number and a word are compared as texts.
MutantLexical(a, b) ==
    IF IsNumeric(a) /\ IsNumeric(b) THEN Order(a.number, b.number)
    ELSE Order(a.rank, b.rank)

CompareIdentifiers(a, b) ==
    CASE IsNumeric(a) /\ IsNumeric(b) -> Order(a.number, b.number)
      [] IsNumeric(a) /\ ~IsNumeric(b) -> -1
      [] ~IsNumeric(a) /\ IsNumeric(b) -> 1
      [] OTHER -> Order(a.rank, b.rank)

\* A version without a prerelease comes after those with one.
ComparePrerelease(a, b) ==
    IF a = <<>> \/ b = <<>> THEN Order(Len(b), Len(a))
    ELSE LET common == 1 .. IF Len(a[1]) < Len(b[1]) THEN Len(a[1]) ELSE Len(b[1])
         IN  FirstDifference([i \in common |-> CompareIdentifiers(a[1][i], b[1][i])]
                                 \o <<Order(Len(a[1]), Len(b[1]))>>)

\* Build metadata is ignored.
Compare(v, w) ==
    FirstDifference(<<Order(v.major, w.major), Order(v.minor, w.minor),
                      Order(v.patch, w.patch),
                      ComparePrerelease(v.prerelease, w.prerelease)>>)

\* Mutant of CaretRange: 0.x.y is treated like any other version.
MutantCaretMajor(v, target) ==
    Compare(v, target) # -1 /\ v.major = target.major

CaretRange(v, target) ==
    /\ Compare(v, target) # -1
    /\ v.major = target.major
    /\ target.major = 0 => v.minor = target.minor
    /\ target.major = 0 /\ target.minor = 0 => v.patch = target.patch

TildeRange(v, target) ==
    /\ Compare(v, target) # -1
    /\ v.major = target.major /\ v.minor = target.minor

Operators == {"=", "!=", "<", "<=", ">", ">=", "^", "~"}

Holds(v, operator, target) ==
    CASE operator = "="  -> Compare(v, target) = 0
      [] operator = "!=" -> Compare(v, target) # 0
      [] operator = "<"  -> Compare(v, target) = -1
      [] operator = "<=" -> Compare(v, target) # 1
      [] operator = ">"  -> Compare(v, target) = 1
      [] operator = ">=" -> Compare(v, target) # -1
      [] operator = "^"  -> CaretRange(v, target)
      [] operator = "~"  -> TildeRange(v, target)

\* An invalid version, or an unknown operator, compares false.
SemVer(version, operator, target) ==
    /\ Valid(version) /\ Valid(target)
    /\ operator \in Operators
    /\ Holds(Parse(version), operator, Parse(target))

\* The operator on its arguments, or Absent for an error.
SemVerResult(args, data) ==
    IF /\ Len(args) >= 3
       /\ args[2].type = "string"
       /\ ResolveString(args[1], data) # Unresolved
       /\ ResolveString(args[3], data) # Unresolved
    THEN Bool(SemVer(ResolveString(args[1], data), args[2].text.word,
                     ResolveString(args[3], data)))
    ELSE Absent

-----------------------------------------------------------------------------
(***************************************************************************)
(* What the operators promise for one target, over a set of texts.         *)
(***************************************************************************)
\* <= is a total preorder of the valid versions, and each other comparison is
\* the one it defines; nothing holds of a text that is no version.
Precedence(texts, target) ==
    LET Is(v, op, w) == SemVer(v, op, w)
    IN  \A v \in texts :
          IF Valid(v) /\ Valid(target)
          THEN /\ Is(v, ">=", target) <=> Is(target, "<=", v)
               /\ Is(v, "=", target) <=> Is(v, "<=", target) /\ Is(target, "<=", v)
               /\ Is(v, "!=", target) <=> ~Is(v, "=", target)
               /\ Is(v, "<", target) <=> ~Is(target, "<=", v)
               /\ Is(v, ">", target) <=> ~Is(v, "<=", target)
               /\ Is(v, "<=", target) \/ Is(target, "<=", v)
               /\ \A w \in texts :
                     Is(v, "<=", w) /\ Is(w, "<=", target) => Is(v, "<=", target)
          ELSE \A op \in Operators : ~Is(v, op, target)

\* The first version above the ranges, as a function of the target.
Release(major, minor, patch) ==
    [major |-> major, minor |-> minor, patch |-> patch, prerelease |-> <<>>, build |-> ""]

CaretEnd(t) ==
    CASE t.major > 0 -> Release(t.major + 1, 0, 0)
      [] t.major = 0 /\ t.minor > 0 -> Release(0, t.minor + 1, 0)
      [] OTHER -> Release(0, 0, t.patch + 1)

TildeEnd(t) == Release(t.major, t.minor + 1, 0)

\* The release a version is, or is a prerelease of.
ReleaseOf(v) == Release(v.major, v.minor, v.patch)

\* The ranges are the intervals the comments in sem_ver give, less the prereleases
\* of the end.  (The comments would admit those, which come before it: 2.0.0-alpha
\* is below 2.0.0.  The code does not.)
RangesAreIntervals(texts, target) ==
    \A v \in texts :
        Valid(v) /\ Valid(target) =>
            LET between(end) == /\ SemVer(v, ">=", target)
                                /\ Compare(ReleaseOf(Parse(v)), end) = -1
            IN  /\ SemVer(v, "^", target) <=> between(CaretEnd(Parse(target)))
                /\ SemVer(v, "~", target) <=> between(TildeEnd(Parse(target)))

=============================================================================
