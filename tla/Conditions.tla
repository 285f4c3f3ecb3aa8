----------------------------- MODULE Conditions -----------------------------
(***************************************************************************)
(* The pure part of evaluator.go: where the value of a condition comes     *)
(* from and how it is compared with the condition's target.  Conditions    *)
(* that read shared state (gates, ID lists) are in module Evaluator.       *)
(*                                                                         *)
(* Values are what interface{} holds: nil, a string, an int64, a float64   *)
(* or a list.  A string is a name; what parsing, lower-casing, splitting   *)
(* and printing make of it is given by the table Text.  Versions, numbers  *)
(* and times are compared as the code compares them.                       *)
(***************************************************************************)
EXTENDS Integers, Sequences, SequencesExt

CONSTANTS
    Text,           \* [string -> [lower, starts, ends, subs, number, int, version,
                    \*  rfc3339]]: see Texts
    Shown,          \* [number -> string]: fmt.Sprintf("%v")
    Country,        \* [string -> string]: what the IP table says of an address, or None
    Browser,        \* [string -> string]: what the parser makes of a user agent
    None,
    Users, Targets, Fields,
    Params, Tier,   \* options.Environment
    TopField,       \* [field -> top-level field of User, or None]
    Lower,          \* [field -> field]: strings.ToLower
    Now,            \* time.Now(), in seconds
    FarFuture,      \* the last second of the year a hundred years from now
    LocalZone,      \* offset of the local time zone, in seconds
    Day             \* seconds of a day

\* A string: in lower case; the strings it starts with, ends with and
\* contains; what ParseFloat and ParseInt make of it; the parts of the version
\* in front of its first "-"; the time it denotes in RFC 3339.
Texts ==
    [lower : STRING, starts : SUBSET STRING, ends : SUBSET STRING, subs : SUBSET STRING,
     number : Int \cup {None}, int : Int \cup {None}, version : Seq(Int \cup {None}),
     rfc3339 : [at : Int, zone : Int] \cup {None}]

Nil == [type |-> "nil"]
Str(s) == [type |-> "string", s |-> s]
Num(type, n) == [type |-> type, n |-> n]
List(vs) == [type |-> "list", list |-> vs]

Blank == ""

Strings == DOMAIN Text

IsValue(v) ==
    /\ v.type \in {"nil", "string", "int64", "float64", "list"}
    /\ v.type = "string" => v.s \in Strings
    /\ v.type \in {"int64", "float64"} => v.n \in Int

\* The fields of User that getFromUser and getUnitID read.
TopFields == {"userid"} \cup ({TopField[f] : f \in Fields} \ {None})

\* User: top-level fields, Custom, PrivateAttributes, StatsigEnvironment,
\* CustomIDs, and the hash of the unit id that user_bucket takes.
IsUser(u) ==
    /\ {"top", "custom", "private", "env", "customIDs", "bucket"} \subseteq DOMAIN u
    /\ u = [x \in DOMAIN u |-> u[x]]
    /\ \A n \in TopFields : u.top[n] \in Strings
    /\ \A f \in Fields :
        /\ u.custom[f] # None => IsValue(u.custom[f])
        /\ u.private[f] # None => IsValue(u.private[f])
        /\ u.env[f] # None => u.env[f] \in Strings
        /\ u.customIDs[f] # None => u.customIDs[f] \in Strings
    /\ u.bucket # None => u.bucket \in Int

\* All strings that a condition meets are in the table.
ASSUME ConditionsAssumption ==
    /\ \A s \in Strings : Text[s] \in Texts
    /\ Blank \in Strings
    /\ \A s \in Strings : (Country[s] # None => Country[s] \in Strings) /\ Browser[s] \in Strings
    /\ \A u \in Users : IsUser(u)
    /\ \A v \in Targets : IsValue(v)
    /\ {"ip", "useragent"} \subseteq Fields
    /\ Lower \in [Fields -> Fields]
    /\ \A f \in Fields : Params[f] # None => Params[f] \in Strings
    /\ Tier # None => Tier \in Strings
    /\ {Now, FarFuture, LocalZone, Day} \subseteq Int
    /\ FarFuture >= Now /\ Now > 0 /\ Day > 0

IsEmpty(v) == v = Nil \/ v = Str(Blank)

-----------------------------------------------------------------------------
(***************************************************************************)
(* Where values come from.                                                 *)
(***************************************************************************)
FirstPresent(vs, otherwise) ==
    LET present == {i \in DOMAIN vs : vs[i] # None}
    IN  IF present = {} THEN otherwise
        ELSE vs[CHOOSE i \in present : \A j \in present : i <= j]

\* The top-level field, else custom, else private attributes, each under
\* the field's own name and then in lower case.
getFromUser(user, field) ==
    LET name == TopField[field]
        top == IF name = None THEN Nil
               ELSE IF name = "useragent" /\ user.top[name] = Blank THEN Nil
               ELSE Str(user.top[name])
    IN  IF ~IsEmpty(top) THEN top
        ELSE FirstPresent(<<user.custom[field], user.custom[Lower[field]],
                            user.private[field], user.private[Lower[field]]>>, top)

\* Unlike getFromUser, the lower-case name goes first.
getFromEnvironment(user, field) ==
    Str(FirstPresent(<<user.env[Lower[field]], user.env[field]>>, Blank))

getFromIP(user, field) ==
    LET ip == getFromUser(user, "ip")
    IN  IF Lower[field] = "country" /\ ip.type = "string" /\ Country[ip.s] # None
        THEN Str(Country[ip.s]) ELSE Str(Blank)

\* One field stands for the four names of parts of the user agent.
getFromUserAgent(user, field) ==
    LET ua == getFromUser(user, "useragent")
    IN  IF ua.type = "string" /\ Lower[field] = "browser_name"
        THEN Str(Browser[ua.s]) ELSE Str(Blank)

getUnitID(user, idType) ==
    IF idType = Blank \/ Lower[idType] = "userid" THEN Str(user.top["userid"])
    ELSE Str(FirstPresent(<<user.customIDs[idType], user.customIDs[Lower[idType]]>>, Blank))

\* options.Environment first, its tier over its params, the user's own last.
normalizeUser(user, params, tier) ==
    [user EXCEPT !.env = [f \in Fields |->
        FirstPresent(<<user.env[f], IF f = "tier" THEN tier ELSE None, params[f]>>, None)]]

ValueTypes ==
    {"ip_based", "ua_based", "user_field", "environment_field", "current_time",
     "user_bucket", "unit_id"}

\* The value of a condition of one of the ValueTypes.  bucket is the hash
\* modulo 1000, or None if AdditionalValues has no salt.
ValueOf(user, cond) ==
    LET own == getFromUser(user, cond.field)
    IN  CASE cond.type = "ip_based" ->
               IF IsEmpty(own) THEN getFromIP(user, cond.field) ELSE own
          [] cond.type = "ua_based" ->
               IF IsEmpty(own) THEN getFromUserAgent(user, cond.field) ELSE own
          [] cond.type = "user_field" -> own
          [] cond.type = "environment_field" -> getFromEnvironment(user, cond.field)
          [] cond.type = "current_time" -> Num("int64", Now)
          [] cond.type = "user_bucket" ->
               IF user.bucket = None THEN Nil ELSE Num("int64", user.bucket)
          [] cond.type = "unit_id" -> getUnitID(user, cond.field)

-----------------------------------------------------------------------------
(***************************************************************************)
(* How values are compared.                                                *)
(***************************************************************************)
getNumericValue(v) ==
    CASE v.type \in {"int64", "float64"} -> v.n
      [] v.type = "string" -> Text[v.s].number
      [] OTHER -> None

\* The sign of a comparison; an operator is the set of signs it accepts.
Sign(x, y) == IF x < y THEN -1 ELSE IF x > y THEN 1 ELSE 0

compareNumbers(a, b, signs) ==
    /\ getNumericValue(a) # None /\ getNumericValue(b) # None
    /\ Sign(getNumericValue(a), getNumericValue(b)) \in signs

ShowValue(v) ==
    CASE v.type = "string" -> v.s
      [] v.type \in {"int64", "float64"} -> Shown[v.n]
      [] v.type = "list" -> "[list]"

\* found gives for a string those that it equals, starts with, and so on.
compareStrings(a, b, ignoreCase, found) ==
    /\ a # Nil /\ b # Nil
    /\ IF ignoreCase THEN Text[ShowValue(b)].lower \in found[Text[ShowValue(a)].lower]
                     ELSE ShowValue(b) \in found[ShowValue(a)]

arrayAny(arr, val, ignoreCase, found) ==
    /\ arr.type = "list"
    /\ \E x \in ToSet(arr.list) : compareStrings(val, x, ignoreCase, found)

\* ParseInt(p, 10, 64), its error ignored: 0 for what is no number.
ParseInt(p) == IF p = None THEN 0 ELSE p

\* Mutant: the shorter version decides where it ends.
PartShort(v, i) == IF i > Len(v) THEN -1 ELSE ParseInt(v[i])

Part(v, i) == IF i > Len(v) THEN 0 ELSE ParseInt(v[i])

\* The loop over the parts, as a function of the index it is at.
compareVersionsHelper(v, w) ==
    LET n == IF Len(v) > Len(w) THEN Len(v) ELSE Len(w)
        at[i \in 1..(n + 1)] ==
            IF i > n THEN 0
            ELSE IF Part(v, i) # Part(w, i) THEN Sign(Part(v, i), Part(w, i))
            ELSE at[i + 1]
    IN  at[1]

\* Text[s].version has no parts if nothing is left in front of the first "-".
compareVersions(a, b, signs) ==
    /\ a.type = "string" /\ b.type = "string"
    /\ Text[a.s].version # <<>> /\ Text[b.s].version # <<>>
    /\ compareVersionsHelper(Text[a.s].version, Text[b.s].version) \in signs

\* A point in time and the zone its calendar date is taken in.
ZeroTime == [at |-> -(10 * Day), zone |-> 0]

\* Mutant: milliseconds are not told from seconds.
UnixSeconds(n) == [at |-> n, zone |-> LocalZone]

Unix(n) == [at |-> IF n > FarFuture THEN n \div 1000 ELSE n, zone |-> LocalZone]

getTime(v) ==
    CASE v.type \in {"int64", "float64"} -> Unix(v.n)
      [] v.type = "string" ->
           IF Text[v.s].rfc3339 # None THEN Text[v.s].rfc3339
           ELSE IF Text[v.s].int # None THEN Unix(Text[v.s].int)
           ELSE ZeroTime
      [] OTHER -> ZeroTime

Date(t) == (t.at + t.zone) \div Day

\* A regular expression without special characters, found anywhere; what is
\* not a string is taken for the empty one.
strMatches(value, target) ==
    LET toString(v) == IF v.type = "string" THEN v.s ELSE Blank
    IN  IF target = Nil \/ value = Nil THEN target = Nil /\ value = Nil
        ELSE toString(target) \in Text[toString(value)].subs

\* Mutant: the empty string is not nil.
EqualStrict(value, target) == value = target

\* eq and neq; reflect.DeepEqual also compares the types.
Equal(value, target) == IF target = Nil THEN IsEmpty(value) ELSE value = target

EqualTo  == [x \in Strings |-> {x}]
StartsOf == [x \in Strings |-> Text[x].starts]
EndsOf   == [x \in Strings |-> Text[x].ends]
SubsOf   == [x \in Strings |-> Text[x].subs]

Operators ==
    {"gt", "gte", "lt", "lte", "version_gt", "version_gte", "version_lt", "version_lte",
     "version_eq", "version_neq", "any", "none", "any_case_sensitive", "none_case_sensitive",
     "str_starts_with_any", "str_ends_with_any", "str_contains_any", "str_contains_none",
     "str_matches", "eq", "neq", "before", "after", "on"}

\* The switch over the operators.
Compare(op, v, target) ==
    CASE op = "gt"  -> compareNumbers(v, target, {1})
      [] op = "gte" -> compareNumbers(v, target, {0, 1})
      [] op = "lt"  -> compareNumbers(v, target, {-1})
      [] op = "lte" -> compareNumbers(v, target, {-1, 0})
      [] op = "version_gt"  -> compareVersions(v, target, {1})
      [] op = "version_gte" -> compareVersions(v, target, {0, 1})
      [] op = "version_lt"  -> compareVersions(v, target, {-1})
      [] op = "version_lte" -> compareVersions(v, target, {-1, 0})
      [] op = "version_eq"  -> compareVersions(v, target, {0})
      [] op = "version_neq" -> compareVersions(v, target, {-1, 1})
      [] op = "any"  -> arrayAny(target, v, TRUE, EqualTo)
      [] op = "none" -> ~arrayAny(target, v, TRUE, EqualTo)
      [] op = "any_case_sensitive"  -> arrayAny(target, v, FALSE, EqualTo)
      [] op = "none_case_sensitive" -> ~arrayAny(target, v, FALSE, EqualTo)
      [] op = "str_starts_with_any" -> arrayAny(target, v, TRUE, StartsOf)
      [] op = "str_ends_with_any"   -> arrayAny(target, v, TRUE, EndsOf)
      [] op = "str_contains_any"    -> arrayAny(target, v, TRUE, SubsOf)
      [] op = "str_contains_none"   -> ~arrayAny(target, v, TRUE, SubsOf)
      [] op = "str_matches" -> strMatches(v, target)
      [] op = "eq"  -> Equal(v, target)
      [] op = "neq" -> ~Equal(v, target)
      [] op = "before" -> getTime(v).at < getTime(target).at
      [] op = "after"  -> getTime(v).at > getTime(target).at
      [] op = "on"     -> Date(getTime(v)) = Date(getTime(target))

-----------------------------------------------------------------------------
(***************************************************************************)
(* Each behaviour evaluates one condition for one user, with every         *)
(* operator, so that the operators can be held against each other.         *)
(***************************************************************************)
VARIABLES user, cond, passes

vars == <<user, cond, passes>>

Init ==
    /\ user \in Users
    /\ cond \in [type : ValueTypes, field : Fields, target : Targets]
    /\ passes = None

\* The client normalizes the user before it evaluates.
Value == ValueOf(normalizeUser(user, Params, Tier), cond)

evalCondition ==
    /\ passes = None
    /\ passes' = [op \in Operators |-> Compare(op, Value, cond.target)]
    /\ UNCHANGED <<user, cond>>

Next == evalCondition

Spec == Init /\ [][Next]_vars

-----------------------------------------------------------------------------
(***************************************************************************)
(* Properties.                                                             *)
(***************************************************************************)
Evaluated == passes # None

\* The reference order of versions: pad with zeros, compare part by part.
Padded(v, n) == [i \in 1..n |-> IF i \in DOMAIN v /\ v[i] # None THEN v[i] ELSE 0]

VersionLess(v, w) ==
    LET n == Len(v) + Len(w) IN
    \E i \in 1..n :
        /\ Padded(v, n)[i] < Padded(w, n)[i]
        /\ \A j \in 1..(i - 1) : Padded(v, n)[j] = Padded(w, n)[j]

(***************************************************************************)
(* The version operators are the reference order on what is in front of    *)
(* the first "-", 1 and 1.0 being equal; and if one side is no version at  *)
(* all none of the six passes, not even version_neq.                       *)
(***************************************************************************)
VersionOrder ==
    Evaluated =>
        LET v == Value
            w == cond.target
            comparable == /\ v.type = "string" /\ w.type = "string"
                          /\ Text[v.s].version # <<>> /\ Text[w.s].version # <<>>
            less == comparable /\ VersionLess(Text[v.s].version, Text[w.s].version)
            greater == comparable /\ VersionLess(Text[w.s].version, Text[v.s].version)
        IN  /\ passes["version_lt"] = less /\ passes["version_gt"] = greater
            /\ passes["version_neq"] = (less \/ greater)
            /\ passes["version_eq"] = (comparable /\ ~less /\ ~greater)
            /\ passes["version_lte"] = (comparable /\ ~greater)
            /\ passes["version_gte"] = (comparable /\ ~less)

(***************************************************************************)
(* "because certain user values are of string type, which cannot be nil,   *)
(* we should check for both nil and empty string" (evaluator.go:468): a    *)
(* condition on an attribute the user does not have, wherever it could     *)
(* have come from, passes eq with a nil target and fails neq.              *)
(***************************************************************************)
MissingEqualsNil ==
    Evaluated /\ cond.type = "user_field" /\ cond.target = Nil =>
        LET f == cond.field
            missing == /\ TopField[f] # None => user.top[TopField[f]] = Blank
                       /\ \A g \in {f, Lower[f]} : user.custom[g] = None /\ user.private[g] = None
        IN  missing => passes["eq"] /\ ~passes["neq"]

(***************************************************************************)
(* Seconds and milliseconds of the same moment, as the server's targets    *)
(* and the application's attributes mix them, are neither before nor after *)
(* each other and on the same day, for moments that are not so early that  *)
(* their milliseconds look like seconds.                                   *)
(***************************************************************************)
TimeUnitsAgree ==
    Evaluated =>
        LET v == Value
            w == cond.target
            numbers == v.type \in {"int64", "float64"} /\ w.type \in {"int64", "float64"}
            Milli(a, b) == a.n = 1000 * b.n /\ b.n <= FarFuture /\ a.n > FarFuture
        IN  numbers /\ (Milli(v, w) \/ Milli(w, v)) =>
                ~passes["before"] /\ ~passes["after"] /\ passes["on"]
=============================================================================
