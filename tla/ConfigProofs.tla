---------------------------- MODULE ConfigProofs ----------------------------
(***************************************************************************)
(* The configuration file means what it says, for every well-formed        *)
(* document.  What was read so far is the meaning of the declarations that *)
(* are behind, and of the part of the next one that was read: its values   *)
(* up to the last item.                                                    *)
(***************************************************************************)
EXTENDS ConfigFile, SequenceLemmas, TLAPS

(* The fields of a configuration that hold one value.                      *)
Scalars == DOMAIN Default \ {"SpecialPermission", "BasePermission", "Blacklist", "Whitelist"}

(* Two configurations decide the same for the users.                       *)
Agrees(c, m) ==
    /\ DOMAIN c = DOMAIN Default
    /\ DOMAIN m = DOMAIN Default
    /\ \A field \in DOMAIN Default \ {"SpecialPermission"} : c[field] = m[field]
    /\ \A user \in Users : Permissions(c, user) = Permissions(m, user)

-----------------------------------------------------------------------------
(* The keys.                                                               *)

LEMMA ScalarKeys ==
  /\ DOMAIN Field = SettingKeys
  /\ \A key \in SettingKeys : Field[key] \in Scalars
  /\ SettingKeys \cap (DOMAIN ListField \union {"special-permission"}) = {}
BY DEF Field, SettingKeys, ListField, Scalars, Default

LEMMA ListKeys ==
  /\ DOMAIN ListField = {"base-permission", "blacklist", "whitelist"}
  /\ "special-permission" \notin DOMAIN ListField
  /\ \A key \in DOMAIN ListField :
        ListField[key] \in {"BasePermission", "Blacklist", "Whitelist"}
  /\ \A key, other \in DOMAIN ListField : ListField[key] = ListField[other] => key = other
BY DEF ListField

-----------------------------------------------------------------------------
(* What one declaration does.                                              *)

LEMMA GrantGives ==
  ASSUME NEW c, DOMAIN c = DOMAIN Default, NEW user, NEW perms
  PROVE  /\ DOMAIN Grant(c, user, perms) = DOMAIN Default
         /\ \A field \in DOMAIN Default \ {"SpecialPermission"} :
               Grant(c, user, perms)[field] = c[field]
         /\ \A u : Permissions(Grant(c, user, perms), u)
                      = IF u = user THEN perms ELSE Permissions(c, u)
BY DEF Grant, Permissions, Default

LEMMA SetSets ==
  ASSUME NEW c, DOMAIN c = DOMAIN Default, NEW field \in Scalars, NEW value
  PROVE  /\ DOMAIN Set(c, field, value) = DOMAIN Default
         /\ \A f \in DOMAIN Default \ {field} : Set(c, field, value)[f] = c[f]
         /\ Set(c, field, value)[field] =
               IF field \in Switches THEN value = "true"
               ELSE IF field \in Numbers /\ value \notin Numerals THEN c[field]
               ELSE value
         /\ \A u : Permissions(Set(c, field, value), u) = Permissions(c, u)
BY DEF Set, Permissions, Scalars, Default

(* A list or the permissions of a user, set to part of the values that a   *)
(* declaration gives them.                                                 *)
Partly(c, d, values) ==
    IF d.target \in DOMAIN ListField THEN [c EXCEPT ![ListField[d.target]] = values]
    ELSE IF d.target = "special-permission" THEN Grant(c, d.user, values)
    ELSE c

(* Nothing has set the list or the permissions before.                     *)
Fresh(c, d) ==
    /\ d.target \in DOMAIN ListField => c[ListField[d.target]] = {}
    /\ d.target = "special-permission" => Permissions(c, d.user) = {}

LEMMA PartlySets ==
  ASSUME NEW c, DOMAIN c = DOMAIN Default, NEW d, NEW values
  PROVE  /\ DOMAIN Partly(c, d, values) = DOMAIN Default
         /\ \A field \in DOMAIN Default \ {"SpecialPermission"} :
               Partly(c, d, values)[field] =
                  IF d.target \in DOMAIN ListField /\ field = ListField[d.target]
                    THEN values ELSE c[field]
         /\ \A u : Permissions(Partly(c, d, values), u) =
                     IF d.target = "special-permission" /\ u = d.user
                       THEN values ELSE Permissions(c, u)
<1>1. CASE d.target \in DOMAIN ListField
  <2> DEFINE l == ListField[d.target]
  <2>1. l \in DOMAIN Default \ {"SpecialPermission"} /\ d.target # "special-permission"
    BY <1>1, ListKeys DEF Default
  <2>2. Partly(c, d, values) = [c EXCEPT ![l] = values]
    BY <1>1 DEF Partly
  <2> HIDE DEF l
  <2>3. /\ DOMAIN [c EXCEPT ![l] = values] = DOMAIN Default
        /\ \A field \in DOMAIN Default :
              [c EXCEPT ![l] = values][field] = IF field = l THEN values ELSE c[field]
        /\ \A u : Permissions([c EXCEPT ![l] = values], u) = Permissions(c, u)
    BY <2>1 DEF Permissions, Default
  <2> QED
    BY <1>1, <2>1, <2>2, <2>3 DEF l
<1>2. CASE d.target = "special-permission"
  <2>1. Partly(c, d, values) = Grant(c, d.user, values)
    BY <1>2, ListKeys DEF Partly
  <2>2. d.target \notin DOMAIN ListField
    BY <1>2, ListKeys
  <2> QED
    BY <1>2, <2>1, <2>2, GrantGives
<1>3. CASE d.target \notin DOMAIN ListField \union {"special-permission"}
  BY <1>3 DEF Partly
<1> QED
  BY <1>1, <1>2, <1>3

LEMMA AgreesTwice ==
  ASSUME NEW a, NEW b, NEW c, Agrees(a, b), Agrees(b, c)
  PROVE  Agrees(a, c)
BY DEF Agrees

LEMMA PartlyAgrees ==
  ASSUME NEW c, NEW m, Agrees(c, m), NEW d, NEW values
  PROVE  Agrees(Partly(c, d, values), Partly(m, d, values))
<1>1. DOMAIN c = DOMAIN Default /\ DOMAIN m = DOMAIN Default
  BY DEF Agrees
<1> QED
  BY <1>1, PartlySets DEF Agrees

(* What was read last stays.                                               *)
LEMMA PartlyReplaces ==
  ASSUME NEW m, DOMAIN m = DOMAIN Default, NEW d, NEW values, NEW more
  PROVE  Agrees(Partly(Partly(m, d, values), d, more), Partly(m, d, more))
<1>1. DOMAIN Partly(m, d, values) = DOMAIN Default
  BY PartlySets
<1> QED
  BY <1>1, PartlySets DEF Agrees

LEMMA FreshIsNothing ==
  ASSUME NEW m, DOMAIN m = DOMAIN Default, NEW d, Fresh(m, d)
  PROVE  Agrees(m, Partly(m, d, {}))
<1> DEFINE p == Partly(m, d, {})
<1>1. /\ DOMAIN p = DOMAIN Default
      /\ \A field \in DOMAIN Default \ {"SpecialPermission"} :
            p[field] = IF d.target \in DOMAIN ListField /\ field = ListField[d.target]
                         THEN {} ELSE m[field]
      /\ \A u : Permissions(p, u) = IF d.target = "special-permission" /\ u = d.user
                                       THEN {} ELSE Permissions(m, u)
  BY PartlySets
<1> HIDE DEF p
<1>2. \A field \in DOMAIN Default \ {"SpecialPermission"} : p[field] = m[field]
  BY <1>1 DEF Fresh
<1>3. \A u : Permissions(p, u) = Permissions(m, u)
  BY <1>1 DEF Fresh
<1> QED
  BY <1>1, <1>2, <1>3 DEF Agrees, p

(* What is granted to nobody that counts changes nothing.                  *)
LEMMA GrantElsewhere ==
  ASSUME NEW c, NEW m, Agrees(c, m), NEW user, user \notin Users, NEW perms
  PROVE  Agrees(Grant(c, user, perms), m)
<1>1. DOMAIN c = DOMAIN Default
  BY DEF Agrees
<1> DEFINE g == Grant(c, user, perms)
<1>2. /\ DOMAIN g = DOMAIN Default
      /\ \A field \in DOMAIN Default \ {"SpecialPermission"} : g[field] = c[field]
      /\ \A u : Permissions(g, u) = IF u = user THEN perms ELSE Permissions(c, u)
  BY <1>1, GrantGives
<1> HIDE DEF g
<1> QED
  BY <1>2 DEF Agrees, g

(* What was read is what is there.                                         *)
LEMMA PartlyHolds ==
  ASSUME NEW c, NEW m, DOMAIN m = DOMAIN Default, NEW d, NEW values,
         Agrees(c, Partly(m, d, values))
  PROVE  /\ d.target \in DOMAIN ListField => c[ListField[d.target]] = values
         /\ d.target = "special-permission" /\ d.user \in Users
               => Permissions(c, d.user) = values
<1> DEFINE p == Partly(m, d, values)
<1>1. /\ \A field \in DOMAIN Default \ {"SpecialPermission"} :
            p[field] = IF d.target \in DOMAIN ListField /\ field = ListField[d.target]
                         THEN values ELSE m[field]
      /\ \A u : Permissions(p, u) = IF d.target = "special-permission" /\ u = d.user
                                       THEN values ELSE Permissions(m, u)
  BY PartlySets
<1> HIDE DEF p
<1>2. ASSUME d.target \in DOMAIN ListField
      PROVE  c[ListField[d.target]] = values
  <2> DEFINE l == ListField[d.target]
  <2>1. l \in DOMAIN Default \ {"SpecialPermission"}
    BY <1>2, ListKeys DEF Default
  <2>2. p[l] = values
    BY <1>1, <1>2, <2>1
  <2> HIDE DEF l
  <2>3. c[l] = p[l]
    BY <2>1 DEF Agrees, p
  <2> QED
    BY <2>2, <2>3 DEF l
<1>3. ASSUME d.target = "special-permission", d.user \in Users
      PROVE  Permissions(c, d.user) = values
  <2>1. Permissions(p, d.user) = values
    BY <1>1, <1>3
  <2>2. Permissions(c, d.user) = Permissions(p, d.user)
    BY <1>3 DEF Agrees, p
  <2> QED
    BY <2>1, <2>2
<1> QED
  BY <1>2, <1>3

LEMMA DeclareAgrees ==
  ASSUME NEW c, NEW m, Agrees(c, m), NEW d
  PROVE  Agrees(Declare(c, d), Declare(m, d))
<1>1. DOMAIN c = DOMAIN Default /\ DOMAIN m = DOMAIN Default
  BY DEF Agrees
<1>2. CASE d.target \in DOMAIN Field
  <2> DEFINE f == Field[d.target]
             v == CHOOSE v \in d.values : TRUE
  <2>1. f \in Scalars /\ Declare(c, d) = Set(c, f, v) /\ Declare(m, d) = Set(m, f, v)
    BY <1>2, ScalarKeys DEF Declare
  <2> HIDE DEF f, v
  <2>2. f \in DOMAIN Default \ {"SpecialPermission"}
    BY <2>1 DEF Scalars
  <2> QED
    BY <1>1, <2>1, <2>2, SetSets DEF Agrees
<1>3. CASE d.target \notin DOMAIN Field
  <2>1. Declare(c, d) = Partly(c, d, d.values) /\ Declare(m, d) = Partly(m, d, d.values)
    BY <1>3 DEF Declare, Partly
  <2> QED
    BY <2>1, PartlyAgrees
<1> QED
  BY <1>2, <1>3

(* One declaration leaves the other lists and users alone.                 *)
LEMMA DeclareLeaves ==
  ASSUME NEW c, DOMAIN c = DOMAIN Default, NEW d
  PROVE  /\ DOMAIN Declare(c, d) = DOMAIN Default
         /\ \A key \in DOMAIN ListField :
               d.target # key => Declare(c, d)[ListField[key]] = c[ListField[key]]
         /\ \A u : d.target # "special-permission" \/ d.user # u
                     => Permissions(Declare(c, d), u) = Permissions(c, u)
<1>1. \A key \in DOMAIN ListField :
         /\ ListField[key] \in DOMAIN Default \ {"SpecialPermission"}
         /\ ListField[key] \notin Scalars
  BY ListKeys DEF Default, Scalars
<1>2. CASE d.target \in DOMAIN Field
  <2> DEFINE f == Field[d.target]
             v == CHOOSE v \in d.values : TRUE
  <2>1. f \in Scalars /\ Declare(c, d) = Set(c, f, v)
    BY <1>2, ScalarKeys DEF Declare
  <2> HIDE DEF f, v
  <2> QED
    BY <1>1, <2>1, SetSets
<1>3. CASE d.target \notin DOMAIN Field
  <2>1. Declare(c, d) = Partly(c, d, d.values)
    BY <1>3 DEF Declare, Partly
  <2> HIDE DEF Declare
  <2>2. \A key \in DOMAIN ListField : d.target # key =>
           ~(d.target \in DOMAIN ListField /\ ListField[key] = ListField[d.target])
    BY ListKeys
  <2> QED
    BY <1>1, <2>1, <2>2, PartlySets
<1> QED
  BY <1>2, <1>3

-----------------------------------------------------------------------------
(* The meaning of a document.                                              *)

(* f is c after each of the first n declarations.                          *)
DeclaresBy(f, c, document, n) ==
    f = [k \in 0 .. n |-> IF k = 0 THEN c ELSE Declare(f[k - 1], document[k])]

LEMMA DeclaresRuns ==
  ASSUME NEW c, NEW document, NEW n \in Nat
  PROVE  \E f : DeclaresBy(f, c, document, n)
<1> DEFINE T == {k \in 0 .. n : \E f : DeclaresBy(f, c, document, k)}
<1>1. 0 \in T
  <2>1. DeclaresBy([k \in 0 .. 0 |-> c], c, document, 0)
    BY DEF DeclaresBy
  <2> QED
    BY <2>1
<1>2. ASSUME NEW k \in 0 .. n - 1, k \in T
      PROVE  k + 1 \in T
  <2>1. PICK f : DeclaresBy(f, c, document, k)
    BY <1>2
  <2> DEFINE next == Declare(f[k], document[k + 1])
             g == [i \in 0 .. k + 1 |-> IF i = k + 1 THEN next ELSE f[i]]
  <2>2. \A i \in 0 .. k : f[i] = IF i = 0 THEN c ELSE Declare(f[i - 1], document[i])
    BY <2>1 DEF DeclaresBy
  <2>3. g[k + 1] = next /\ \A i \in 0 .. k : g[i] = f[i]
    OBVIOUS
  <2>4. g = [i \in 0 .. k + 1 |-> g[i]]
    OBVIOUS
  <2>5. ASSUME NEW i \in 0 .. k + 1
        PROVE  g[i] = IF i = 0 THEN c ELSE Declare(g[i - 1], document[i])
    <3>1. CASE i = k + 1
      <4>1. i # 0 /\ i - 1 = k /\ k \in 0 .. k /\ g[k] = f[k]
        BY <2>3, <3>1
      <4> HIDE DEF g
      <4> QED
        BY <2>3, <3>1, <4>1
    <3>2. CASE i # k + 1
      <4>1. i \in 0 .. k /\ (i # 0 => i - 1 \in 0 .. k)
        BY <3>2
      <4> HIDE DEF g
      <4> QED
        BY <2>2, <2>3, <4>1
    <3> QED
      BY <3>1, <3>2
  <2> HIDE DEF g
  <2>6. DeclaresBy(g, c, document, k + 1)
    BY <2>4, <2>5 DEF DeclaresBy
  <2> QED
    BY <2>6
<1> HIDE DEF T
<1>3. \A k \in 0 .. n : k \in T
  BY <1>1, <1>2, UpTo
<1> QED
  BY <1>3 DEF T

LEMMA AfterDeclares ==
  ASSUME NEW c, NEW S, NEW document \in Seq(S)
  PROVE  /\ After(c, document)[0] = c
         /\ \A n \in 1 .. Len(document) :
               After(c, document)[n] = Declare(After(c, document)[n - 1], document[n])
<1> DEFINE f == After(c, document)
           n == Len(document)
<1>1. n \in Nat
  OBVIOUS
<1>2. f = CHOOSE g : DeclaresBy(g, c, document, n)
  BY DEF After, DeclaresBy
<1>3. DeclaresBy(f, c, document, n)
  BY <1>1, <1>2, DeclaresRuns, Zenon
<1> HIDE DEF f, n
<1>4. \A k \in 0 .. n : f[k] = IF k = 0 THEN c ELSE Declare(f[k - 1], document[k])
  BY <1>3 DEF DeclaresBy
<1>5. f[0] = c /\ \A k \in 1 .. n : f[k] = Declare(f[k - 1], document[k])
  BY <1>1, <1>4
<1> QED
  BY <1>5 DEF f, n

(* A list, or a user, that no declaration so far was for is as it was.     *)
Untouched(c, f, document, n) ==
    /\ DOMAIN f[n] = DOMAIN Default
    /\ \A key \in DOMAIN ListField :
          (\A j \in 1 .. n : document[j].target # key)
             => f[n][ListField[key]] = c[ListField[key]]
    /\ \A u : (\A j \in 1 .. n : document[j].target # "special-permission" \/ document[j].user # u)
                  => Permissions(f[n], u) = Permissions(c, u)

LEMMA AfterLeaves ==
  ASSUME NEW c, DOMAIN c = DOMAIN Default, NEW S, NEW document \in Seq(S)
  PROVE  \A n \in 0 .. Len(document) : Untouched(c, After(c, document), document, n)
<1> DEFINE f == After(c, document)
           m == Len(document)
           T == {n \in 0 .. m : Untouched(c, f, document, n)}
<1>1. m \in Nat /\ f[0] = c /\ \A n \in 1 .. m : f[n] = Declare(f[n - 1], document[n])
  BY AfterDeclares
<1> HIDE DEF f, m
<1>2. 0 \in T
  BY <1>1 DEF Untouched
<1>3. ASSUME NEW n \in 0 .. m - 1, n \in T
      PROVE  n + 1 \in T
  <2> DEFINE d == document[n + 1]
             a == f[n]
             b == f[n + 1]
  <2>1. n + 1 \in 1 .. m /\ n + 1 \in 0 .. m /\ n + 1 \in 1 .. n + 1 /\ b = Declare(a, d)
        /\ \A j \in 1 .. n : j \in 1 .. n + 1
    <3>1. n + 1 \in 1 .. m /\ n + 1 \in 0 .. m /\ n + 1 \in 1 .. n + 1 /\ (n + 1) - 1 = n
          /\ \A j \in 1 .. n : j \in 1 .. n + 1
      BY <1>1
    <3>2. f[n + 1] = Declare(f[(n + 1) - 1], document[n + 1])
      BY <1>1, <3>1
    <3> QED
      BY <3>1, <3>2
  <2>2. Untouched(c, f, document, n)
    BY <1>3
  <2>3. DOMAIN a = DOMAIN Default
    BY <2>2 DEF Untouched
  <2>4. /\ DOMAIN b = DOMAIN Default
        /\ \A key \in DOMAIN ListField : d.target # key => b[ListField[key]] = a[ListField[key]]
        /\ \A u : d.target # "special-permission" \/ d.user # u
                    => Permissions(b, u) = Permissions(a, u)
    <3> HIDE DEF a, b, d
    <3>1. b = Declare(a, d)
      BY <2>1
    <3> QED
      BY <2>3, <3>1, DeclareLeaves
  <2>5. Untouched(c, f, document, n + 1)
    <3> HIDE DEF a, b
    <3>1. ASSUME NEW key \in DOMAIN ListField, \A j \in 1 .. n + 1 : document[j].target # key
          PROVE  b[ListField[key]] = c[ListField[key]]
      <4>1. d.target # key /\ a[ListField[key]] = c[ListField[key]]
        BY <2>1, <2>2, <3>1 DEF Untouched, a
      <4> QED
        BY <2>4, <4>1
    <3>2. ASSUME NEW u,
                 \A j \in 1 .. n + 1 :
                    document[j].target # "special-permission" \/ document[j].user # u
          PROVE  Permissions(b, u) = Permissions(c, u)
      <4>1. /\ d.target # "special-permission" \/ d.user # u
            /\ Permissions(a, u) = Permissions(c, u)
        BY <2>1, <2>2, <3>2 DEF Untouched, a
      <4> QED
        BY <2>4, <4>1
    <3> QED
      BY <2>4, <3>1, <3>2 DEF Untouched, b
  <2> QED
    BY <2>1, <2>5
<1> HIDE DEF T
<1>4. \A n \in 0 .. m : n \in T
  BY <1>1, <1>2, <1>3, UpTo
<1> QED
  BY <1>4 DEF T, f, m

(* The command line sets no list, and a list or a user is declared once:   *)
(* a declaration finds nothing there.                                      *)
LEMMA NextIsFresh ==
  ASSUME NEW c \in Given, NEW S, NEW document \in Seq(S), WellFormed(document),
         NEW i \in 1 .. Len(document)
  PROVE  /\ DOMAIN After(c, document)[i - 1] = DOMAIN Default
         /\ Fresh(After(c, document)[i - 1], document[i])
<1> DEFINE d == document[i]
           m == After(c, document)[i - 1]
<1>1. /\ DOMAIN c = DOMAIN Default
      /\ \A key \in DOMAIN ListField : c[ListField[key]] = {}
      /\ \A u : Permissions(c, u) = {}
  <2>1. /\ DOMAIN c = DOMAIN Default
        /\ \A field \in DOMAIN Default \ Flags : c[field] = Default[field]
    BY FlagsAssumption
  <2>2. \A field \in {"BasePermission", "Blacklist", "Whitelist"} :
           field \in DOMAIN Default \ Flags /\ Default[field] = {}
    BY DEF Default, Flags
  <2>3. /\ "SpecialPermission" \in DOMAIN Default \ Flags
        /\ Default.SpecialPermission = [u \in {} |-> {}]
    BY DEF Default, Flags
  <2>4. DOMAIN c.SpecialPermission = {}
    BY <2>1, <2>3
  <2> QED
    BY <2>1, <2>2, <2>4, ListKeys DEF Permissions
<1>2. /\ i - 1 \in 0 .. Len(document)
      /\ \A j \in 1 .. i - 1 : j \in 1 .. Len(document) /\ j # i
  OBVIOUS
<1>3. Untouched(c, After(c, document), document, i - 1)
  BY <1>1, <1>2, AfterLeaves
<1>4. /\ DOMAIN m = DOMAIN Default
      /\ \A key \in DOMAIN ListField :
            (\A j \in 1 .. i - 1 : document[j].target # key) => m[ListField[key]] = {}
      /\ \A u : (\A j \in 1 .. i - 1 : \/ document[j].target # "special-permission"
                                       \/ document[j].user # u)
                   => Permissions(m, u) = {}
  BY <1>1, <1>3 DEF Untouched
<1> HIDE DEF m
<1>5. ASSUME d.target \in DOMAIN ListField
      PROVE  m[ListField[d.target]] = {}
  <2>1. d.target # "special-permission"
    BY <1>5, ListKeys
  <2>2. \A j \in 1 .. i - 1 : document[j].target # d.target
    BY <1>2, <1>5, <2>1 DEF WellFormed
  <2> QED
    BY <1>4, <1>5, <2>2
<1>6. ASSUME d.target = "special-permission"
      PROVE  Permissions(m, d.user) = {}
  <2>1. \A j \in 1 .. i - 1 : \/ document[j].target # "special-permission"
                              \/ document[j].user # d.user
    BY <1>2, <1>6 DEF WellFormed
  <2> QED
    BY <1>4, <2>1
<1> QED
  BY <1>4, <1>5, <1>6 DEF Fresh, m

-----------------------------------------------------------------------------
(* The lines of a declaration.                                             *)

LEMMA SetToSeqLists ==
  ASSUME NEW V, IsFiniteSet(V)
  PROVE  /\ SetToSeq(V) \in Seq(V)
         /\ V = {SetToSeq(V)[j] : j \in 1 .. Len(SetToSeq(V))}
<1> DEFINE n == Cardinality(V)
           s == SetToSeq(V)
<1>1. n \in Nat /\ ExistsBijection(1 .. n, V)
  BY FS_CardinalityType
<1>2. PICK g \in Bijection(1 .. n, V) : TRUE
  BY <1>1 DEF ExistsBijection
<1>3. g \in [1 .. n -> V] /\ IsInjective(g)
  BY <1>2 DEF Bijection, Injection, Surjection, IsInjective
<1>4. s \in [1 .. n -> V] /\ IsInjective(s)
  <2>1. \E f \in [1 .. n -> V] : IsInjective(f)
    BY <1>3
  <2> QED
    BY <2>1 DEF SetToSeq
<1> HIDE DEF s, n
<1>5. s \in Injection(1 .. n, V)
  BY <1>4 DEF Injection, IsInjective
<1>6. Cardinality(1 .. n) = n
  BY <1>1, FS_Interval, 1 \in Int, n \in Int
<1>7. s \in Surjection(1 .. n, V)
  BY <1>5, <1>6, FS_Injection DEF n
<1>8. s \in Seq(V) /\ Len(s) = n
  BY <1>1, <1>4
<1>9. V = {s[j] : j \in 1 .. n}
  BY <1>4, <1>7 DEF Surjection
<1> QED
  BY <1>8, <1>9 DEF s

LEMMA ItemsList ==
  ASSUME NEW V, IsFiniteSet(V)
  PROVE  /\ Items(V) \in Seq({Line("item", "", "", {v}) : v \in V})
         /\ Len(Items(V)) = Len(SetToSeq(V))
         /\ \A j \in 1 .. Len(SetToSeq(V)) :
               Items(V)[j] = Line("item", "", "", {SetToSeq(V)[j]})
<1> DEFINE s == SetToSeq(V)
           n == Len(s)
           L == {Line("item", "", "", {v}) : v \in V}
           t == [j \in 1 .. n |-> Line("item", "", "", {s[j]})]
<1>1. n \in Nat /\ \A j \in 1 .. n : s[j] \in V
  <2>1. s \in Seq(V)
    BY SetToSeqLists
  <2> QED
    BY <2>1
<1>2. Items(V) = t
  BY DEF Items
<1>3. \A j \in 1 .. n : t[j] = Line("item", "", "", {s[j]}) /\ t[j] \in L
  BY <1>1
<1>4. t = [j \in 1 .. n |-> t[j]]
  OBVIOUS
<1> HIDE DEF t, L, n
<1>5. t \in [1 .. n -> L]
  BY <1>3, <1>4
<1>6. t \in Seq(L) /\ Len(t) = n
  BY <1>1, <1>5
<1> QED
  BY <1>2, <1>3, <1>6 DEF L, n

(* The lines before the items, and the items.                              *)
Headings(d) == IF d.form \in Opening THEN 2 ELSE 1

WithItems == {"block", "header", "user block", "user header", "next user block"}

Elements(d) == IF d.form \in WithItems THEN SetToSeq(d.values) ELSE <<>>

(* s is a heading, or two, followed by the items of values.                *)
Heads(s, top, values) ==
    /\ \E L : s \in Seq(L)
    /\ Len(s) = Len(top) + Len(SetToSeq(values))
    /\ \A k \in 1 .. Len(top) : s[k] = top[k]
    /\ \A k \in 1 .. Len(SetToSeq(values)) :
          s[Len(top) + k] = Line("item", "", "", {SetToSeq(values)[k]})

LEMMA TopThenItems ==
  ASSUME NEW V, IsFiniteSet(V), NEW L, NEW top \in Seq(L)
  PROVE  Heads(top \o Items(V), top, V)
<1> DEFINE M == L \union {Line("item", "", "", {v}) : v \in V}
           t == Items(V)
           s == SetToSeq(V)
<1>1. /\ t \in Seq({Line("item", "", "", {v}) : v \in V})
      /\ Len(t) = Len(s)
      /\ \A j \in 1 .. Len(s) : t[j] = Line("item", "", "", {s[j]})
  BY ItemsList
<1>2. top \in Seq(M) /\ t \in Seq(M)
  <2> DEFINE I == {Line("item", "", "", {v}) : v \in V}
  <2>1. t \in Seq(I)
    BY <1>1
  <2> HIDE DEF t, I
  <2>2. top \in Seq(L \union I) /\ t \in Seq(L \union I)
    BY <2>1
  <2> QED
    BY <2>2 DEF I
<1> HIDE DEF M, t
<1>3. /\ top \o t \in Seq(M)
      /\ Len(top) \in Nat /\ Len(t) \in Nat
      /\ Len(top \o t) = Len(top) + Len(t)
      /\ \A k \in 1 .. Len(top) + Len(t) :
            (top \o t)[k] = IF k <= Len(top) THEN top[k] ELSE t[k - Len(top)]
  BY <1>2, ConcatProperties
<1> DEFINE x == Len(top)
           y == Len(t)
<1> HIDE DEF x, y
<1>4. /\ \A k \in 1 .. x : (top \o t)[k] = top[k]
      /\ \A k \in 1 .. y : (top \o t)[x + k] = t[k]
  <2>1. /\ x \in Nat /\ y \in Nat
        /\ \A k \in 1 .. x + y : (top \o t)[k] = IF k <= x THEN top[k] ELSE t[k - x]
    BY <1>3 DEF x, y
  <2>2. \A k \in 1 .. x : k \in 1 .. x + y /\ k <= x
    BY <2>1
  <2>3. \A k \in 1 .. y : x + k \in 1 .. x + y /\ ~(x + k <= x) /\ (x + k) - x = k
    BY <2>1
  <2> QED
    BY <2>1, <2>2, <2>3
<1> QED
  BY <1>1, <1>3, <1>4 DEF Heads, x, y, t

AllForms == {"pair", "block", "header", "inline user", "equals"} \union Opening \union Following

(* The heading or the two headings of each form.                           *)
Top(d) ==
    CASE d.form = "pair" -> <<Line("pair", d.target, "", d.values)>>
      [] d.form = "block" -> <<Line("pair", d.target, "", {})>>
      [] d.form = "header" -> <<Line("header", d.target, "", {})>>
      [] d.form = "inline user" -> <<Line("pair", d.target, d.user, d.values)>>
      [] d.form = "user pair" ->
            <<Line("pair", d.target, "", {}), Line("pair", d.user, "", d.values)>>
      [] d.form = "user block" ->
            <<Line("pair", d.target, "", {}), Line("pair", d.user, "", {})>>
      [] d.form = "user header" ->
            <<Line("header", d.target, "", {}), Line("pair", d.user, "", {})>>
      [] d.form = "next user pair" -> <<Line("pair", d.user, "", d.values)>>
      [] d.form = "next user block" -> <<Line("pair", d.user, "", {})>>
      [] d.form = "equals" -> <<Line("other", d.target, "", d.values)>>

LEMMA TopLength ==
  ASSUME NEW d, d.form \in AllForms
  PROVE  (\E L : Top(d) \in Seq(L)) /\ Len(Top(d)) = Headings(d)
<1>1. CASE d.form \in Opening
  <2>1. PICK x, y : Top(d) = <<x, y>>
    BY <1>1 DEF Top, Opening
  <2>2. <<x, y>> \in Seq({x, y}) /\ Len(<<x, y>>) = 2
    OBVIOUS
  <2> QED
    BY <1>1, <2>1, <2>2 DEF Headings
<1>2. CASE d.form \notin Opening
  <2>1. PICK x : Top(d) = <<x>>
    BY <1>2 DEF Top, Opening, Following, AllForms
  <2>2. <<x>> \in Seq({x}) /\ Len(<<x>>) = 1
    OBVIOUS
  <2> QED
    BY <1>2, <2>1, <2>2 DEF Headings
<1> QED
  BY <1>1, <1>2

(* The lines of a declaration are its headings and its elements.           *)
Shape(d) ==
    /\ \E L : Lines(d) \in Seq(L)
    /\ Elements(d) \in Seq(d.values)
    /\ Len(Lines(d)) = Headings(d) + Len(Elements(d))
    /\ \A k \in 1 .. Headings(d) : Lines(d)[k] = Top(d)[k]
    /\ \A k \in 1 .. Len(Elements(d)) :
          Lines(d)[Headings(d) + k] = Line("item", "", "", {Elements(d)[k]})

LEMMA LinesShape ==
  ASSUME NEW d, IsFiniteSet(d.values), d.form \in AllForms
  PROVE  Shape(d)
<1> DEFINE U == {"pair", "block", "header", "inline user", "user pair", "user block",
                 "user header", "next user pair", "next user block", "equals"}
<1>1. d.form \in U
  BY DEF AllForms, Opening, Following
<1>2. CASE d.form \in {"pair", "inline user", "user pair", "next user pair", "equals"}
  <2>1. Lines(d) = Top(d)
    BY <1>2 DEF Lines, Top
  <2>2. Elements(d) = <<>>
    BY <1>2 DEF Elements, WithItems
  <2>3. (\E L : Top(d) \in Seq(L)) /\ Len(Top(d)) = Headings(d)
    BY <1>1, TopLength DEF AllForms
  <2> QED
    BY <2>1, <2>2, <2>3, EmptySeq DEF Shape
<1>3. CASE d.form \in {"block", "header", "user block", "user header", "next user block"}
  <2>1. Lines(d) = Top(d) \o Items(d.values)
    BY <1>3 DEF Lines, Top
  <2>2. Elements(d) = SetToSeq(d.values)
    BY <1>3 DEF Elements, WithItems
  <2>3. (\E L : Top(d) \in Seq(L)) /\ Len(Top(d)) = Headings(d)
    BY <1>1, TopLength DEF AllForms
  <2>4. Heads(Lines(d), Top(d), d.values)
    BY <2>1, <2>3, TopThenItems
  <2> QED
    BY <2>2, <2>3, <2>4, SetToSeqLists DEF Shape, Heads
<1> QED
  BY <1>1, <1>2, <1>3

-----------------------------------------------------------------------------
(* One line.                                                               *)

(* What the next line does to the configuration and the section.           *)
LEMMA ReadingLine ==
  ASSUME ConfigNext, doc # <<>>
  PROVE  /\ file # <<>> /\ file' = Tail(file) /\ doc' = doc /\ given' = given
         /\ line.kind = "header" => conf' = conf /\ section' = line.key
         /\ line.kind = "other" => conf' = conf /\ section' = section
         /\ line.kind = "item" =>
               /\ section' = section /\ mapKey' = mapKey
               /\ section \in DOMAIN ListField =>
                     conf' = [conf EXCEPT ![ListField[section]] = @ \union line.values]
               /\ section = "special-permission" /\ mapKey # "" =>
                     conf' = Grant(conf, mapKey, Permissions(conf, mapKey) \union line.values)
               /\ section \notin DOMAIN ListField \union {"special-permission"} => conf' = conf
         /\ line.kind = "pair" /\ line.key \in DOMAIN Field =>
               /\ conf' = Set(conf, Field[line.key], CHOOSE v \in line.values : TRUE)
               /\ section' = section
         /\ line.kind = "pair" /\ line.key \in DOMAIN ListField =>
               /\ conf' = [conf EXCEPT ![ListField[line.key]] = line.values]
               /\ section' = line.key
         /\ line.kind = "pair" /\ line.key = "special-permission" =>
               /\ line.user # "" => /\ conf' = Grant(conf, line.user, line.values)
                                    /\ section' = section
               /\ line.user = "" /\ line.values = {} => /\ conf' = conf
                                                        /\ section' = "special-permission"
         /\ line.kind = "pair" /\ line.key \notin Keys =>
               /\ section' = section
               /\ section # "special-permission" => conf' = conf
               /\ section = "special-permission" /\ line.values # {} =>
                     conf' = Grant(conf, line.key, line.values)
               /\ section = "special-permission" /\ line.values = {} =>
                     conf' = conf /\ mapKey' = line.key
<1>1. "special-permission" \notin DOMAIN ListField \union DOMAIN Field
      /\ DOMAIN Field \cap DOMAIN ListField = {}
      /\ Keys = DOMAIN Field \union DOMAIN ListField \union {"special-permission"}
  BY ScalarKeys, ListKeys DEF Keys
<1>2. CASE ReadHeader
  BY <1>2 DEF ReadHeader, Reads
<1>3. CASE ReadItem
  BY <1>1, <1>3 DEF ReadItem, Reads
<1>4. CASE ReadSetting
  BY <1>1, <1>4 DEF ReadSetting, Reads
<1>5. CASE ReadList
  BY <1>1, <1>5 DEF ReadList, Reads
<1>6. CASE ReadSpecial
  BY <1>1, <1>6 DEF ReadSpecial, Reads
<1>7. CASE ReadSubKey
  BY <1>1, <1>7 DEF ReadSubKey, Reads, OtherKey
<1>8. CASE SkipLine
  BY <1>8 DEF SkipLine, Reads
<1> QED
  BY <1>2, <1>3, <1>4, <1>5, <1>6, <1>7, <1>8 DEF ConfigNext, Load

(* What WellFormed says of a declaration by itself.                        *)
Sound(d) ==
    /\ d.form \in Forms(d.target)
    /\ IsFiniteSet(d.values)
    /\ d.target = "special-permission" => d.user \in Users \ (Keys \union {""})
    /\ d.target \notin Keys => d.target \notin Users

LEMMA FormsOfTarget ==
  ASSUME NEW d, Sound(d)
  PROVE  /\ d.form \in AllForms
         /\ d.form \in {"inline user"} \union Opening \union Following
              <=> d.target = "special-permission"
         /\ d.form = "block" => d.target \in DOMAIN ListField
         /\ d.form = "equals" => d.target \notin Keys
         /\ d.form = "header" => \/ d.target \in DOMAIN ListField
                                 \/ d.target \notin Keys
         /\ d.form = "pair" => \/ d.target \in DOMAIN Field
                               \/ d.target \in DOMAIN ListField
                               \/ d.target \notin Keys
<1>1. /\ "special-permission" \notin DOMAIN ListField \union DOMAIN Field
      /\ DOMAIN Field \cap DOMAIN ListField = {}
      /\ Keys = DOMAIN Field \union DOMAIN ListField \union {"special-permission"}
  BY ScalarKeys, ListKeys DEF Keys
<1>2. CASE d.target \in DOMAIN Field
  BY <1>1, <1>2 DEF Sound, Forms, AllForms, Opening, Following
<1>3. CASE d.target \in DOMAIN ListField
  BY <1>1, <1>3 DEF Sound, Forms, AllForms, Opening, Following
<1>4. CASE d.target = "special-permission"
  BY <1>1, <1>4 DEF Sound, Forms, AllForms, Opening, Following
<1>5. CASE d.target \notin Keys
  BY <1>1, <1>5 DEF Sound, Forms, AllForms, Opening, Following
<1> QED
  BY <1>1, <1>2, <1>3, <1>4, <1>5

(* The next line is heading k.                                             *)
AtHeading(d, k) == line = Top(d)[k]

(* The heading in front of the items, or of the user, empties what the     *)
(* declaration is for, or finds it empty, and opens its section.           *)
Opened(m, d) == Agrees(conf', Partly(m, d, {})) /\ section' = d.target

(* The declaration has a heading in a line of its own.                     *)
Headed(d) == d.form \in WithItems \/ d.form = "user pair"

LEMMA FirstHeading ==
  ASSUME ConfigNext, doc # <<>>, NEW d, Sound(d), Headed(d),
         AtHeading(d, 1),
         NEW m, Agrees(conf, m), Fresh(m, d),
         d.form \in Following => section = "special-permission"
  PROVE  /\ Opened(m, d)
         /\ d.form = "next user block" => mapKey' = d.user
<1>1. DOMAIN m = DOMAIN Default /\ DOMAIN conf = DOMAIN Default
  BY DEF Agrees
<1>2. Agrees(m, Partly(m, d, {}))
  BY <1>1, FreshIsNothing
<1>3. conf' = conf => Agrees(conf', Partly(m, d, {}))
  BY <1>2, AgreesTwice
<1>4. CASE d.form = "block"
  <2>1. d.target \in DOMAIN ListField /\ line = Line("pair", d.target, "", {})
    BY <1>4, FormsOfTarget DEF AtHeading, Top
  <2>2. line.kind = "pair" /\ line.key = d.target /\ line.values = {}
    BY <2>1 DEF Line
  <2>3. conf' = [conf EXCEPT ![ListField[d.target]] = {}] /\ section' = d.target
    BY <2>1, <2>2, ReadingLine
  <2>4. conf' = Partly(conf, d, {})
    BY <2>1, <2>3 DEF Partly
  <2>5. Agrees(Partly(conf, d, {}), Partly(m, d, {}))
    BY PartlyAgrees
  <2> QED
    BY <1>4, <2>3, <2>4, <2>5 DEF Opened
<1>5. CASE d.form \in {"header", "user header"}
  <2>1. line = Line("header", d.target, "", {})
    BY <1>5 DEF AtHeading, Top
  <2>2. line.kind = "header" /\ line.key = d.target
    BY <2>1 DEF Line
  <2>3. conf' = conf /\ section' = d.target
    BY <2>2, ReadingLine
  <2> QED
    BY <1>3, <1>5, <2>3 DEF Opened
<1>6. CASE d.form \in {"user pair", "user block"}
  <2>1. d.target = "special-permission" /\ line = Line("pair", d.target, "", {})
    BY <1>6, FormsOfTarget DEF AtHeading, Top, Opening
  <2>2. line.kind = "pair" /\ line.key = "special-permission" /\ line.user = "" /\ line.values = {}
    BY <2>1 DEF Line
  <2>3. conf' = conf /\ section' = d.target
    BY <2>1, <2>2, ReadingLine
  <2> QED
    BY <1>3, <1>6, <2>3 DEF Opened
<1>7. CASE d.form = "next user block"
  <2>1. d.target = "special-permission" /\ line = Line("pair", d.user, "", {})
    BY <1>7, FormsOfTarget DEF AtHeading, Top, Following
  <2>2. line.kind = "pair" /\ line.key = d.user /\ line.values = {}
    BY <2>1 DEF Line
  <2>3. d.user \notin Keys /\ section = "special-permission"
    BY <1>7, <2>1 DEF Sound, Following
  <2>4. conf' = conf /\ section' = section /\ mapKey' = d.user
    BY <2>2, <2>3, ReadingLine
  <2> QED
    BY <1>3, <1>7, <2>1, <2>3, <2>4 DEF Opened
<1> QED
  BY <1>4, <1>5, <1>6, <1>7 DEF Headed, WithItems

(* The user's own line in its section.                                     *)
LEMMA SecondHeading ==
  ASSUME ConfigNext, doc # <<>>, NEW d, Sound(d), d.form \in Opening,
         AtHeading(d, 2),
         NEW m, DOMAIN m = DOMAIN Default, Agrees(conf, Partly(m, d, {})),
         section = d.target
  PROVE  /\ section' = d.target
         /\ d.form \in WithItems => Agrees(conf', Partly(m, d, {})) /\ mapKey' = d.user
         /\ d.form \notin WithItems => Agrees(conf', Declare(m, d))
<1>1. d.target = "special-permission" /\ d.user \notin Keys
  BY FormsOfTarget DEF Sound
<1>2. d.target \notin DOMAIN Field \union DOMAIN ListField
  BY <1>1, ScalarKeys, ListKeys
<1>3. Declare(m, d) = Partly(m, d, d.values)
  BY <1>2 DEF Declare, Partly
<1>4. CASE d.form \in {"user block", "user header"}
  <2>1. line = Line("pair", d.user, "", {})
    BY <1>4 DEF AtHeading, Top
  <2>2. line.kind = "pair" /\ line.key = d.user /\ line.values = {}
    BY <2>1 DEF Line
  <2>3. conf' = conf /\ section' = section /\ mapKey' = d.user
    BY <1>1, <2>2, ReadingLine
  <2> QED
    BY <1>4, <2>3 DEF WithItems
<1>5. CASE d.form = "user pair"
  <2>1. line = Line("pair", d.user, "", d.values)
    BY <1>5 DEF AtHeading, Top
  <2>2. line.kind = "pair" /\ line.key = d.user /\ line.values = d.values
    BY <2>1 DEF Line
  <2>3. section' = section
    BY <1>1, <2>2, ReadingLine
  <2>4. CASE d.values = {}
    <3>1. conf' = conf
      BY <1>1, <2>2, <2>4, ReadingLine
    <3> QED
      BY <1>3, <1>5, <2>3, <2>4, <3>1 DEF WithItems
  <2>5. CASE d.values # {}
    <3>1. conf' = Grant(conf, d.user, d.values)
      BY <1>1, <2>2, <2>5, ReadingLine
    <3>2. conf' = Partly(conf, d, d.values)
      BY <1>1, <1>2, <3>1 DEF Partly
    <3>3. Agrees(conf', Partly(Partly(m, d, {}), d, d.values))
      BY <3>2, PartlyAgrees
    <3>4. Agrees(conf', Declare(m, d))
      BY <1>3, <3>3, PartlyReplaces, AgreesTwice
    <3> QED
      BY <1>5, <2>3, <3>4 DEF WithItems
  <2> QED
    BY <2>4, <2>5
<1> QED
  BY <1>4, <1>5 DEF Opening

(* A declaration of one line.                                              *)
LEMMA SingleLine ==
  ASSUME ConfigNext, doc # <<>>, NEW d, Sound(d), ~Headed(d),
         AtHeading(d, 1),
         NEW m, Agrees(conf, m), Fresh(m, d),
         d.form \in Following => section = "special-permission"
  PROVE  /\ Agrees(conf', Declare(m, d))
         /\ d.target \notin DOMAIN ListField => section' = section
<1>1. DOMAIN m = DOMAIN Default /\ DOMAIN conf = DOMAIN Default
  BY DEF Agrees
<1>2. Agrees(Declare(conf, d), Declare(m, d))
  BY DeclareAgrees
<1>3. d.form \in {"pair", "inline user", "next user pair", "equals"}
  BY FormsOfTarget DEF Headed, AllForms, WithItems, Opening, Following
<1>4. CASE d.form = "pair"
  <2>1. line = Line("pair", d.target, "", d.values)
    BY <1>4 DEF AtHeading, Top
  <2>2. line.kind = "pair" /\ line.key = d.target /\ line.values = d.values
    BY <2>1 DEF Line
  <2>3. CASE d.target \in DOMAIN Field
    <3>1. conf' = Declare(conf, d) /\ section' = section
      BY <2>2, <2>3, ReadingLine DEF Declare
    <3> QED
      BY <1>2, <3>1
  <2>4. CASE d.target \in DOMAIN ListField
    <3>1. d.target \notin DOMAIN Field
      BY <2>4, ScalarKeys
    <3>2. conf' = Declare(conf, d)
      BY <2>2, <2>4, <3>1, ReadingLine DEF Declare
    <3> QED
      BY <1>2, <2>4, <3>2
  <2>5. CASE d.target \notin Keys
    <3>1. d.target \notin Users /\ Declare(m, d) = m
      BY <2>5 DEF Sound, Declare, Keys
    <3>2. conf' = conf \/ conf' = Grant(conf, d.target, d.values)
      BY <2>2, <2>5, ReadingLine
    <3>3. Agrees(Grant(conf, d.target, d.values), m)
      BY <3>1, GrantElsewhere
    <3>4. section' = section
      BY <2>2, <2>5, ReadingLine
    <3> QED
      BY <3>1, <3>2, <3>3, <3>4
  <2> QED
    BY <1>4, <2>3, <2>4, <2>5, FormsOfTarget
<1>5. CASE d.form = "inline user"
  <2>1. d.target = "special-permission" /\ line = Line("pair", d.target, d.user, d.values)
    BY <1>5, FormsOfTarget DEF AtHeading, Top
  <2>2. /\ line.kind = "pair" /\ line.key = "special-permission"
        /\ line.user = d.user /\ line.values = d.values
    BY <2>1 DEF Line
  <2>3. d.user # "" /\ d.target \notin DOMAIN Field \union DOMAIN ListField
    BY <2>1, ScalarKeys, ListKeys DEF Sound
  <2>4. conf' = Grant(conf, d.user, d.values) /\ section' = section
    BY <2>2, <2>3, ReadingLine
  <2>5. conf' = Declare(conf, d)
    BY <2>1, <2>3, <2>4 DEF Declare
  <2> QED
    BY <1>2, <2>4, <2>5
<1>6. CASE d.form = "next user pair"
  <2>1. d.target = "special-permission" /\ line = Line("pair", d.user, "", d.values)
    BY <1>6, FormsOfTarget DEF AtHeading, Top, Following
  <2>2. line.kind = "pair" /\ line.key = d.user /\ line.values = d.values
    BY <2>1 DEF Line
  <2>3. /\ d.user \notin Keys /\ section = "special-permission"
        /\ d.target \notin DOMAIN Field \union DOMAIN ListField
    BY <1>6, <2>1, ScalarKeys, ListKeys DEF Sound, Following
  <2>4. section' = section
    BY <2>2, <2>3, ReadingLine
  <2>5. CASE d.values = {}
    <3>1. conf' = conf
      BY <2>2, <2>3, <2>5, ReadingLine
    <3>2. Agrees(m, Partly(m, d, {}))
      BY <1>1, FreshIsNothing
    <3>3. Declare(m, d) = Partly(m, d, {})
      BY <2>1, <2>3, <2>5 DEF Declare, Partly
    <3> QED
      BY <2>4, <3>1, <3>2, <3>3, AgreesTwice
  <2>6. CASE d.values # {}
    <3>1. conf' = Grant(conf, d.user, d.values)
      BY <2>2, <2>3, <2>6, ReadingLine
    <3>2. conf' = Declare(conf, d)
      BY <2>1, <2>3, <3>1 DEF Declare
    <3> QED
      BY <1>2, <2>4, <3>2
  <2> QED
    BY <2>5, <2>6
<1>7. CASE d.form = "equals"
  <2>1. d.target \notin Keys /\ line = Line("other", d.target, "", d.values)
    BY <1>7, FormsOfTarget DEF AtHeading, Top
  <2>2. line.kind = "other"
    BY <2>1 DEF Line
  <2>3. conf' = conf /\ section' = section
    BY <2>2, ReadingLine
  <2>4. Declare(m, d) = m
    BY <2>1 DEF Declare, Keys
  <2> QED
    BY <2>3, <2>4
<1> QED
  BY <1>3, <1>4, <1>5, <1>6, <1>7

(* An item is added to what was read.                                      *)
LEMMA ItemRead ==
  ASSUME ConfigNext, doc # <<>>, NEW d, Sound(d), d.form \in WithItems,
         NEW e, line = Line("item", "", "", {e}),
         NEW m, DOMAIN m = DOMAIN Default, NEW V, Agrees(conf, Partly(m, d, V)),
         section = d.target, d.target = "special-permission" => mapKey = d.user
  PROVE  /\ Agrees(conf', Partly(m, d, V \union {e}))
         /\ section' = section /\ mapKey' = mapKey
<1>1. line.kind = "item" /\ line.values = {e}
  BY DEF Line
<1>2. section' = section /\ mapKey' = mapKey
  BY <1>1, ReadingLine
<1> DEFINE W == V \union {e}
<1>3. Agrees(Partly(conf, d, W), Partly(m, d, W))
  <2> HIDE DEF W
  <2>1. Agrees(Partly(conf, d, W), Partly(Partly(m, d, V), d, W))
    BY PartlyAgrees
  <2> QED
    BY <2>1, PartlyReplaces, AgreesTwice
<1>4. CASE d.target \in DOMAIN ListField
  <2> DEFINE l == ListField[d.target]
  <2>1. conf[l] = V
    BY <1>4, PartlyHolds
  <2>2. conf' = [conf EXCEPT ![l] = @ \union {e}]
    BY <1>1, <1>4, ReadingLine
  <2>3. conf' = [conf EXCEPT ![l] = W]
    BY <2>1, <2>2
  <2>4. conf' = Partly(conf, d, W)
    BY <1>4, <2>3 DEF Partly
  <2> QED
    BY <1>2, <1>3, <2>4
<1>5. CASE d.target = "special-permission"
  <2>1. d.user \in Users /\ d.user # "" /\ mapKey = d.user /\ d.target \notin DOMAIN ListField
    BY <1>5, ListKeys DEF Sound
  <2>2. Permissions(conf, d.user) = V
    BY <1>5, <2>1, PartlyHolds
  <2>3. conf' = Grant(conf, mapKey, Permissions(conf, mapKey) \union {e})
    BY <1>1, <1>5, <2>1, ReadingLine
  <2>4. conf' = Partly(conf, d, W)
    BY <1>5, <2>1, <2>2, <2>3 DEF Partly
  <2> QED
    BY <1>2, <1>3, <2>4
<1>6. CASE d.target \notin DOMAIN ListField \union {"special-permission"}
  <2>1. conf' = conf
    BY <1>1, <1>6, ReadingLine
  <2>2. Partly(m, d, W) = m /\ Partly(m, d, V) = m
    BY <1>6 DEF Partly
  <2> QED
    BY <1>2, <2>1, <2>2
<1> QED
  BY <1>4, <1>5, <1>6

-----------------------------------------------------------------------------
(* Any line of a declaration.                                              *)

(* m and the part of d that its first k lines declare.                     *)
Values(d, n) == {Elements(d)[j] : j \in 1 .. n}

SoFar(m, d, k) == IF k = 0 THEN m ELSE Partly(m, d, Values(d, k - Headings(d)))

(* What holds of the reader between two lines of d.                        *)
Midway(c, sec, key, m, d, k) ==
    /\ Agrees(c, SoFar(m, d, k))
    /\ k > 0 => sec = d.target
    /\ k >= Headings(d) /\ d.target = "special-permission" => key = d.user

(* What holds behind the last line, if special-permission was open before. *)
Behind(c, sec, m, d, open) ==
    /\ Agrees(c, Declare(m, d))
    /\ d.form \in Opening => sec = "special-permission"
    /\ open /\ LeavesOpen(d) => sec = "special-permission"

NextLineOf(d, k) == line = Lines(d)[k + 1]

LEMMA NothingRead ==
  ASSUME NEW d, NEW n \in Int, n <= 0
  PROVE  Values(d, n) = {}
BY DEF Values

LEMMA OneMoreRead ==
  ASSUME NEW d, NEW n \in Nat
  PROVE  Values(d, n + 1) = Values(d, n) \union {Elements(d)[n + 1]}
<1>1. 1 .. n + 1 = (1 .. n) \union {n + 1}
  OBVIOUS
<1> QED
  BY <1>1 DEF Values

LEMMA AllRead ==
  ASSUME NEW d, Sound(d), d.form \in WithItems, NEW m
  PROVE  Partly(m, d, Values(d, Len(Elements(d)))) = Declare(m, d)
<1>1. Values(d, Len(Elements(d))) = d.values
  <2> DEFINE s == SetToSeq(d.values)
  <2>1. Elements(d) = s
    BY DEF Elements
  <2>2. IsFiniteSet(d.values)
    BY DEF Sound
  <2>3. d.values = {s[j] : j \in 1 .. Len(s)}
    BY <2>2, SetToSeqLists
  <2> HIDE DEF s
  <2> QED
    BY <2>1, <2>3 DEF Values
<1>2. d.target \notin DOMAIN Field
  <2>1. /\ "special-permission" \notin DOMAIN Field
        /\ DOMAIN Field \cap DOMAIN ListField = {}
        /\ DOMAIN Field \subseteq Keys
    BY ScalarKeys DEF Keys
  <2> QED
    BY <2>1, FormsOfTarget DEF WithItems, Opening, Following
<1> QED
  BY <1>1, <1>2 DEF Declare, Partly

LEMMA ShapeCounts ==
  ASSUME NEW d, Sound(d)
  PROVE  /\ Shape(d)
         /\ Headings(d) \in {1, 2}
         /\ (Headings(d) = 2 <=> d.form \in Opening)
         /\ Len(Elements(d)) \in Nat
         /\ Len(Lines(d)) = Headings(d) + Len(Elements(d))
         /\ d.form \notin WithItems => Len(Elements(d)) = 0
<1>1. Shape(d)
  BY FormsOfTarget, LinesShape DEF Sound
<1>2. Len(Elements(d)) \in Nat /\ Len(Lines(d)) = Headings(d) + Len(Elements(d))
  <2> DEFINE e == Elements(d)
  <2>1. e \in Seq(d.values) /\ Len(Lines(d)) = Headings(d) + Len(e)
    BY <1>1 DEF Shape
  <2> HIDE DEF e
  <2>2. Len(e) \in Nat
    BY <2>1, LenProperties
  <2> QED
    BY <2>1, <2>2 DEF e
<1>3. Headings(d) \in {1, 2} /\ (Headings(d) = 2 <=> d.form \in Opening)
  BY DEF Headings
<1>4. d.form \notin WithItems => Len(Elements(d)) = 0
  BY EmptySeq DEF Elements
<1> QED
  BY <1>1, <1>2, <1>3, <1>4

LEMMA LinesCount ==
  ASSUME NEW d, Sound(d)
  PROVE  Len(Lines(d)) \in Nat /\ Len(Lines(d)) > 0
<1> DEFINE h == Headings(d)
           e == Len(Elements(d))
           l == Len(Lines(d))
<1>1. h \in {1, 2} /\ e \in Nat /\ l = h + e
  BY ShapeCounts
<1> HIDE DEF h, e, l
<1>2. l \in Nat /\ l > 0
  BY <1>1
<1> QED
  BY <1>2 DEF l

LEMMA HeadingRead ==
  ASSUME ConfigNext, doc # <<>>, NEW d, Sound(d),
         Headed(d),
         NEW m, DOMAIN m = DOMAIN Default, Fresh(m, d),
         NEW k \in 0 .. Headings(d) - 1, NextLineOf(d, k),
         Midway(conf, section, mapKey, m, d, k),
         k = 0 /\ d.form \in Following => section = "special-permission"
  PROVE  /\ section' = d.target
         /\ k + 1 < Len(Lines(d)) => Midway(conf', section', mapKey', m, d, k + 1)
         /\ k + 1 = Len(Lines(d)) => Agrees(conf', Declare(m, d))
<1>1. /\ Shape(d) /\ Headings(d) \in {1, 2}
      /\ (Headings(d) = 2 <=> d.form \in Opening)
      /\ Len(Elements(d)) \in Nat
      /\ Len(Lines(d)) = Headings(d) + Len(Elements(d))
      /\ d.form \notin WithItems => Len(Elements(d)) = 0
  BY ShapeCounts
<1>2. AtHeading(d, k + 1)
  <2>1. k + 1 \in 1 .. Headings(d)
    BY <1>1
  <2> QED
    BY <1>1, <2>1 DEF NextLineOf, AtHeading, Shape
<1>3. SoFar(m, d, 0) = m /\ \A n \in 1 .. Headings(d) : SoFar(m, d, n) = Partly(m, d, {})
  <2> SUFFICES ASSUME NEW n \in 1 .. Headings(d)
               PROVE  SoFar(m, d, n) = Partly(m, d, {})
    BY DEF SoFar
  <2> DEFINE r == n - Headings(d)
  <2>1. n # 0 /\ r \in Int /\ r <= 0
    BY <1>1
  <2>2. SoFar(m, d, n) = Partly(m, d, Values(d, r))
    BY <2>1 DEF SoFar
  <2> HIDE DEF r
  <2>3. Values(d, r) = {}
    BY <2>1, NothingRead
  <2> QED
    BY <2>2, <2>3
<1>4. CASE k = 0
  <2>1. Agrees(conf, m) /\ AtHeading(d, 1)
    BY <1>2, <1>3, <1>4 DEF Midway
  <2>2. Opened(m, d) /\ (d.form = "next user block" => mapKey' = d.user)
    BY <1>4, <2>1, FirstHeading
  <2>3. SoFar(m, d, 1) = Partly(m, d, {})
    BY <1>1, <1>3
  <2>4. ASSUME 1 >= Headings(d), d.target = "special-permission"
        PROVE  mapKey' = d.user
    <3>1. d.form \notin Opening
      BY <1>1, <2>4
    <3>2. d.form = "next user block"
      BY <2>4, <3>1, FormsOfTarget DEF Headed, WithItems, Opening, Following
    <3> QED
      BY <2>2, <3>2
  <2>5. ASSUME Len(Lines(d)) = 1
        PROVE  Agrees(conf', Declare(m, d))
    <3> DEFINE h == Headings(d)
               n == Len(Elements(d))
    <3>1. h \in {1, 2} /\ n \in Nat /\ h + n = 1
      BY <1>1, <2>5
    <3> HIDE DEF h, n
    <3>2. h = 1 /\ n = 0
      BY <3>1
    <3>3. Len(Elements(d)) = 0 /\ d.form \notin Opening
      BY <1>1, <3>2 DEF h, n
    <3>4. d.form \in WithItems
      BY <3>3 DEF Headed, Opening
    <3>5. Values(d, 0) = {}
      BY DEF Values
    <3>6. Partly(m, d, {}) = Declare(m, d)
      BY <3>3, <3>4, <3>5, AllRead
    <3> QED
      BY <2>2, <3>6 DEF Opened
  <2>6. section' = d.target /\ Agrees(conf', SoFar(m, d, 1))
    BY <2>2, <2>3 DEF Opened
  <2>7. Midway(conf', section', mapKey', m, d, 1)
    BY <2>4, <2>6 DEF Midway
  <2> QED
    BY <1>4, <2>5, <2>6, <2>7
<1>5. CASE k = 1
  <2>1. Headings(d) = 2 /\ d.form \in Opening
    BY <1>1, <1>5
  <2>2. SoFar(m, d, 1) = Partly(m, d, {}) /\ SoFar(m, d, 2) = Partly(m, d, {})
    BY <1>3, <2>1
  <2>3. AtHeading(d, 2) /\ Agrees(conf, Partly(m, d, {})) /\ section = d.target
    BY <1>2, <1>5, <2>2 DEF Midway
  <2>4. /\ section' = d.target
        /\ d.form \in WithItems => Agrees(conf', Partly(m, d, {})) /\ mapKey' = d.user
        /\ d.form \notin WithItems => Agrees(conf', Declare(m, d))
    BY <2>1, <2>3, SecondHeading
  <2>5. CASE d.form \in WithItems
    <3>1. Values(d, 0) = {}
      BY DEF Values
    <3>2. ASSUME Len(Lines(d)) = 2
          PROVE  Partly(m, d, {}) = Declare(m, d)
      <4> DEFINE n == Len(Elements(d))
      <4>1. n \in Nat /\ 2 = 2 + n
        BY <1>1, <2>1, <3>2
      <4> HIDE DEF n
      <4>2. n = 0
        BY <4>1
      <4> QED
        BY <2>5, <3>1, <4>2, AllRead DEF n
    <3> QED
      BY <1>5, <2>2, <2>4, <2>5, <3>2 DEF Midway
  <2>6. CASE d.form \notin WithItems
    <3>1. Len(Lines(d)) = 2
      BY <1>1, <2>1, <2>6
    <3> QED
      BY <1>5, <2>4, <2>6, <3>1
  <2> QED
    BY <2>5, <2>6
<1> QED
  BY <1>1, <1>4, <1>5

(* An item is the next of the elements.                                    *)
LEMMA NextItem ==
  ASSUME ConfigNext, doc # <<>>, NEW d, Sound(d),
         NEW m, DOMAIN m = DOMAIN Default,
         NEW k \in Nat, Headings(d) <= k, k < Len(Lines(d)), NextLineOf(d, k),
         Midway(conf, section, mapKey, m, d, k)
  PROVE  /\ section' = d.target
         /\ k + 1 < Len(Lines(d)) => Midway(conf', section', mapKey', m, d, k + 1)
         /\ k + 1 = Len(Lines(d)) => Agrees(conf', Declare(m, d))
<1> DEFINE h == Headings(d)
           n == Len(Elements(d))
           j == k - h
           e == Elements(d)[j + 1]
           V == Values(d, j)
<1>1. /\ Shape(d) /\ h \in {1, 2} /\ n \in Nat /\ Len(Lines(d)) = h + n
      /\ (d.form \notin WithItems => n = 0)
  BY ShapeCounts
<1>2. h <= k /\ k < Len(Lines(d))
  OBVIOUS
<1>3. \A i \in 1 .. n : Lines(d)[h + i] = Line("item", "", "", {Elements(d)[i]})
  BY <1>1 DEF Shape
<1>4. section = d.target /\ (d.target = "special-permission" => mapKey = d.user)
  BY <1>1, <1>2 DEF Midway
<1>5. Agrees(conf, Partly(m, d, V))
  <2>1. k # 0
    BY <1>1, <1>2
  <2> QED
    BY <2>1 DEF Midway, SoFar
<1>6. Values(d, j + 1) = V \union {e}
  <2>1. j \in Nat
    BY <1>1, <1>2
  <2> HIDE DEF j
  <2> QED
    BY <2>1, OneMoreRead
<1>7. SoFar(m, d, k + 1) = Partly(m, d, Values(d, j + 1))
  <2>1. (k + 1) - h = j + 1 /\ k + 1 # 0
    BY <1>1
  <2> QED
    BY <2>1 DEF SoFar
<1>8. k + 1 = Len(Lines(d)) => j + 1 = n
  BY <1>1
<1>9. j + 1 \in 1 .. n /\ h + (j + 1) = k + 1 /\ n # 0
  <2> HIDE DEF h, n
  <2> QED
    BY <1>1, <1>2
<1>10. line = Line("item", "", "", {e}) /\ d.form \in WithItems
  BY <1>1, <1>3, <1>9 DEF NextLineOf
<1> HIDE DEF e, V
<1>11. /\ Agrees(conf', Partly(m, d, V \union {e}))
       /\ section' = section /\ mapKey' = mapKey
  BY <1>4, <1>5, <1>10, ItemRead
<1>12. Midway(conf', section', mapKey', m, d, k + 1)
  BY <1>4, <1>6, <1>7, <1>11 DEF Midway
<1>13. k + 1 = Len(Lines(d)) => Agrees(conf', Declare(m, d))
  <2> SUFFICES ASSUME k + 1 = Len(Lines(d))
               PROVE  Agrees(conf', Declare(m, d))
    OBVIOUS
  <2>1. Values(d, n) = V \union {e}
    BY <1>6, <1>8
  <2>2. Partly(m, d, Values(d, n)) = Declare(m, d)
    BY <1>10, AllRead
  <2> HIDE DEF n
  <2> QED
    BY <1>11, <2>1, <2>2
<1> QED
  BY <1>4, <1>11, <1>12, <1>13

(* Any line of d: the reader stays within d, or has it behind it.          *)
LEMMA LineRead ==
  ASSUME ConfigNext, doc # <<>>, NEW d, Sound(d),
         NEW m, DOMAIN m = DOMAIN Default, Fresh(m, d),
         NEW k \in Nat, k < Len(Lines(d)), NextLineOf(d, k),
         Midway(conf, section, mapKey, m, d, k),
         k = 0 /\ d.form \in Following => section = "special-permission",
         NEW open \in BOOLEAN, k = 0 /\ open => section = "special-permission"
  PROVE  /\ k + 1 < Len(Lines(d)) => Midway(conf', section', mapKey', m, d, k + 1)
         /\ k + 1 = Len(Lines(d)) => Behind(conf', section', m, d, open)
<1>1. /\ Shape(d) /\ Headings(d) \in {1, 2}
      /\ (Headings(d) = 2 <=> d.form \in Opening)
      /\ Len(Elements(d)) \in Nat
      /\ Len(Lines(d)) = Headings(d) + Len(Elements(d))
      /\ d.form \notin WithItems => Len(Elements(d)) = 0
  BY ShapeCounts
<1>2. /\ d.form \in Opening => d.target = "special-permission"
      /\ d.form \in WithItems /\ LeavesOpen(d) => d.target = "special-permission"
      /\ d.form = "user pair" => d.target = "special-permission"
  BY FormsOfTarget DEF WithItems, Opening, Following, LeavesOpen
<1>3. CASE Headed(d)
  <2>1. /\ section' = d.target
        /\ k + 1 < Len(Lines(d)) => Midway(conf', section', mapKey', m, d, k + 1)
        /\ k + 1 = Len(Lines(d)) => Agrees(conf', Declare(m, d))
    <3>1. CASE Headings(d) <= k
      BY <3>1, NextItem
    <3>2. CASE ~(Headings(d) <= k)
      <4>1. k \in 0 .. Headings(d) - 1
        BY <1>1, <3>2
      <4> QED
        BY <1>3, <4>1, HeadingRead
    <3> QED
      BY <3>1, <3>2
  <2>2. LeavesOpen(d) \/ d.form \in Opening => d.target = "special-permission"
    BY <1>2, <1>3 DEF Headed
  <2> QED
    BY <2>1, <2>2 DEF Behind
<1>4. CASE ~Headed(d)
  <2>1. d.form \notin Opening /\ d.form \notin WithItems
    BY <1>4 DEF Headed, Opening, WithItems
  <2>2. Len(Lines(d)) = 1 /\ Headings(d) = 1
    BY <1>1, <2>1
  <2>3. k = 0 /\ k + 1 = Len(Lines(d))
    <3> DEFINE x == Len(Lines(d))
    <3>1. x = 1 /\ k < x
      BY <2>2
    <3> HIDE DEF x
    <3>2. k = 0 /\ k + 1 = x
      BY <3>1
    <3> QED
      BY <3>2 DEF x
  <2>4. Agrees(conf, m)
    BY <2>3 DEF Midway, SoFar
  <2>5. AtHeading(d, 1)
    <3>1. 1 \in 1 .. Headings(d)
      BY <2>2
    <3>2. Lines(d)[1] = Top(d)[1]
      BY <1>1, <3>1 DEF Shape
    <3>3. line = Lines(d)[1]
      BY <2>3 DEF NextLineOf
    <3> QED
      BY <3>2, <3>3 DEF AtHeading
  <2>6. /\ Agrees(conf', Declare(m, d))
        /\ d.target \notin DOMAIN ListField => section' = section
    BY <1>4, <2>3, <2>4, <2>5, SingleLine
  <2>7. open /\ LeavesOpen(d) => section' = "special-permission"
    BY <2>3, <2>6 DEF LeavesOpen
  <2> QED
    BY <2>1, <2>2, <2>3, <2>6, <2>7 DEF Behind
<1> QED
  BY <1>3, <1>4

-----------------------------------------------------------------------------
(* Where the lines of a declaration are in the file.                       *)

(* The first b[i] lines of the document are its first i declarations.      *)
Places(b, document) ==
    /\ b \in [0 .. Len(document) -> Nat]
    /\ b[0] = 0
    /\ b[Len(document)] = Len(AllLines(document))
    /\ \A i \in 1 .. Len(document) :
          /\ b[i] = b[i - 1] + Len(Lines(document[i]))
          /\ b[i] <= Len(AllLines(document))
          /\ \A k \in 1 .. Len(Lines(document[i])) :
                AllLines(document)[b[i - 1] + k] = Lines(document[i])[k]

LEMMA TextPlaces ==
  ASSUME NEW S, NEW document \in Seq(S), WellFormed(document)
  PROVE  /\ \E L : AllLines(document) \in Seq(L)
         /\ \E b : Places(b, document)
<1> DEFINE n == Len(document)
           all == {Lines(document[p[1]])[p[2]] : p \in Nat \X Nat}
           parts == [i \in 1 .. n |-> Lines(document[i])]
<1>1. n \in Nat
  OBVIOUS
<1>2. ASSUME NEW i \in 1 .. n
      PROVE  Lines(document[i]) \in Seq(all)
  <2> DEFINE s == Lines(document[i])
  <2>1. Sound(document[i])
    BY <1>2 DEF WellFormed, Sound
  <2>2. PICK L : s \in Seq(L)
    BY <2>1, ShapeCounts DEF Shape
  <2>3. \A k \in 1 .. Len(s) : s[k] \in all
    <3>1. ASSUME NEW k \in 1 .. Len(s)
          PROVE  s[k] \in all
      <4>1. <<i, k>> \in Nat \X Nat
        BY <1>1, <2>2
      <4>2. s[k] = Lines(document[<<i, k>>[1]])[<<i, k>>[2]]
        OBVIOUS
      <4> QED
        BY <4>1, <4>2
    <3> QED
      BY <3>1
  <2> HIDE DEF s, all
  <2>4. s \in [1 .. Len(s) -> all] /\ Len(s) \in Nat
    BY <2>2, <2>3, LenProperties
  <2> QED
    BY <2>4, IsASeq DEF s
<1> HIDE DEF all
<1>3. parts \in Seq(Seq(all)) /\ Len(parts) = n /\ \A i \in 1 .. n : parts[i] = Lines(document[i])
  BY <1>1, <1>2, IsASeq
<1>4. AllLines(document) = FlattenSeq(parts)
  BY DEF AllLines
<1> HIDE DEF parts
<1>5. /\ AllLines(document) \in Seq(all)
      /\ \E b : PartsBy(b, parts, AllLines(document))
  BY <1>3, <1>4, FlattenPlaces
<1>6. PICK b : PartsBy(b, parts, AllLines(document))
  BY <1>5
<1>7. Places(b, document)
  <2> DEFINE t == AllLines(document)
  <2> HIDE DEF t, n
  <2>1. /\ b \in [0 .. n -> Nat] /\ b[0] = 0 /\ b[n] = Len(t)
        /\ \A i \in 1 .. n :
              /\ b[i] = b[i - 1] + Len(parts[i])
              /\ b[i] <= Len(t)
              /\ \A k \in 1 .. Len(parts[i]) : t[b[i - 1] + k] = parts[i][k]
    BY <1>3, <1>6 DEF PartsBy, t
  <2>2. \A i \in 1 .. n :
           /\ b[i] = b[i - 1] + Len(Lines(document[i]))
           /\ b[i] <= Len(t)
           /\ \A k \in 1 .. Len(Lines(document[i])) : t[b[i - 1] + k] = Lines(document[i])[k]
    BY <1>3, <2>1
  <2> QED
    BY <2>1, <2>2 DEF Places, t, n
<1> QED
  BY <1>5, <1>7

(* The lines after the k-th of declaration i + 1.                          *)
Rest(b, document, i, k) == SubSeq(AllLines(document), b[i] + k + 1, Len(AllLines(document)))

LEMMA RestReads ==
  ASSUME NEW S, NEW document \in Seq(S), NEW L, AllLines(document) \in Seq(L),
         NEW b, Places(b, document),
         NEW i \in 0 .. Len(document) - 1, NEW k \in 0 .. Len(Lines(document[i + 1])) - 1,
         Len(Lines(document[i + 1])) \in Nat
  PROVE  /\ Rest(b, document, i, k) # <<>>
         /\ Head(Rest(b, document, i, k)) = Lines(document[i + 1])[k + 1]
         /\ Tail(Rest(b, document, i, k)) = Rest(b, document, i, k + 1)
         /\ k + 1 = Len(Lines(document[i + 1])) =>
               Tail(Rest(b, document, i, k)) = Rest(b, document, i + 1, 0)
<1> DEFINE t == AllLines(document)
           n == Len(document)
           s == Lines(document[i + 1])
           x == b[i]
           y == b[i + 1]
<1>1. n \in Nat /\ i + 1 \in 1 .. n /\ i \in 0 .. n /\ (i + 1) - 1 = i
  OBVIOUS
<1>2. /\ x \in Nat /\ y = x + Len(s) /\ y <= Len(t)
      /\ \A j \in 1 .. Len(s) : t[x + j] = s[j]
  BY <1>1 DEF Places
<1>3. k + 1 \in 1 .. Len(s) /\ k \in Nat /\ Len(s) \in Nat
  OBVIOUS
<1>4. t \in Seq(L) /\ Len(t) \in Nat
  OBVIOUS
<1> DEFINE z == x + k + 1
           w == Len(t)
<1>5. z \in 1 .. w /\ w \in z .. w /\ z = x + (k + 1) /\ z + 1 = x + (k + 1) + 1
      /\ (k + 1 = Len(s) => z + 1 = y + 0 + 1)
  <2> DEFINE l == Len(s)
  <2>1. /\ x \in Nat /\ y = x + l /\ y <= w /\ w \in Nat
        /\ k \in Nat /\ k + 1 \in 1 .. l /\ l \in Nat
    BY <1>2, <1>3, <1>4
  <2> HIDE DEF x, y, l, w
  <2>2. /\ z \in 1 .. w /\ w \in z .. w /\ z = x + (k + 1) /\ z + 1 = x + (k + 1) + 1
        /\ (k + 1 = l => z + 1 = y + 0 + 1)
    BY <2>1
  <2> QED
    BY <2>2 DEF l
<1>6. Rest(b, document, i, k) = SubSeq(t, z, w)
  BY DEF Rest
<1>7. /\ Rest(b, document, i, k + 1) = SubSeq(t, x + (k + 1) + 1, w)
      /\ Rest(b, document, i + 1, 0) = SubSeq(t, y + 0 + 1, w)
  BY DEF Rest
<1>8. Head(SubSeq(t, z, w)) = t[z] /\ Tail(SubSeq(t, z, w)) = SubSeq(t, z + 1, w)
  <2> HIDE DEF z, t
  <2> QED
    BY <1>4, <1>5, HeadTailOfSubSeq DEF w
<1>9. SubSeq(t, z, w) # <<>>
  <2>1. Len(SubSeq(t, z, w)) = w - z + 1
    BY <1>4, <1>5, SubSeqProperties
  <2> HIDE DEF z, w
  <2>2. w - z + 1 # 0
    BY <1>5
  <2> QED
    BY <2>1, <2>2, EmptySeq
<1>10. t[z] = s[k + 1]
  <2>1. t[x + (k + 1)] = s[k + 1]
    BY <1>2, <1>3
  <2> HIDE DEF t, s, x, z, w
  <2> QED
    BY <1>5, <2>1
<1> HIDE DEF t, s, x, y, z, w
<1> QED
  BY <1>5, <1>6, <1>7, <1>8, <1>9, <1>10 DEF s

LEMMA RestEnds ==
  ASSUME NEW S, NEW document \in Seq(S), NEW L, AllLines(document) \in Seq(L),
         NEW b, Places(b, document)
  PROVE  Rest(b, document, Len(document), 0) = <<>>
<1> DEFINE t == AllLines(document)
           w == Len(t)
<1>1. b[Len(document)] = w /\ w \in Nat /\ t \in Seq(L)
  BY DEF Places
<1>2. Rest(b, document, Len(document), 0) = SubSeq(t, w + 0 + 1, w)
  BY <1>1 DEF Rest
<1> HIDE DEF t, w
<1>3. w + 0 + 1 = w + 1 /\ w + 1 \in Int /\ w \in Int /\ w < w + 1
  BY <1>1
<1> QED
  BY <1>1, <1>2, <1>3, SubSeqEmpty

-----------------------------------------------------------------------------
(* The invariant.                                                          *)

(* k lines of declaration i + 1 were read, and the i declarations before   *)
(* it: c is what these mean and what those lines declared, sec and key are *)
(* what it has opened, and left is still to be read.                       *)
At(b, i, k, document, g, c, sec, key, left) ==
    /\ Places(b, document)
    /\ i \in 0 .. Len(document) /\ k \in Nat
    /\ k > 0 => i < Len(document) /\ k < Len(Lines(document[i + 1]))
    /\ left = Rest(b, document, i, k)
    /\ k = 0 => Agrees(c, After(g, document)[i])
    /\ k > 0 => Midway(c, sec, key, After(g, document)[i], document[i + 1], k)
    /\ k = 0 /\ OpenAfter(document, i) => sec = "special-permission"

Inside(b, i, k) == At(b, i, k, doc, given, conf, section, mapKey, file)

(* The document is behind, or the next line is one of the next declaration.*)
ConfigInv ==
    /\ doc = <<>> => file = <<>> /\ conf = given
    /\ doc # <<>> => /\ doc \in Documents /\ given \in Given
                     /\ \E b, i, k : Inside(b, i, k)

LEMMA OpenNext ==
  ASSUME NEW document, NEW n \in Nat, OpenAfter(document, n + 1)
  PROVE  \/ document[n + 1].form \in Opening
         \/ OpenAfter(document, n) /\ LeavesOpen(document[n + 1])
<1>1. PICK j \in 1 .. n + 1 :
         /\ document[j].form \in Opening
         /\ \A k \in j + 1 .. n + 1 : LeavesOpen(document[k])
  BY DEF OpenAfter
<1>2. CASE j = n + 1
  BY <1>1, <1>2
<1>3. CASE j # n + 1
  <2>1. j \in 1 .. n /\ n + 1 \in j + 1 .. n + 1 /\ \A k \in j + 1 .. n : k \in j + 1 .. n + 1
    BY <1>3
  <2> QED
    BY <1>1, <2>1 DEF OpenAfter
<1> QED
  BY <1>2, <1>3

(* Every line stays within the invariant.                                  *)
LEMMA InsideStays ==
  ASSUME ConfigNext, doc # <<>>, NEW S, doc \in Seq(S), WellFormed(doc), given \in Given,
         NEW b, NEW i, NEW k, Inside(b, i, k)
  PROVE  \E u, v : At(b, u, v, doc, given, conf', section', mapKey', file')
<1> DEFINE n == Len(doc)
           d == doc[i + 1]
           m == After(given, doc)[i]
           open == OpenAfter(doc, i)
           l == Len(Lines(d))
<1>1. /\ Places(b, doc) /\ i \in 0 .. n /\ k \in Nat
      /\ k > 0 => i < n /\ k < l
      /\ file = Rest(b, doc, i, k)
      /\ k = 0 => Agrees(conf, m)
      /\ k > 0 => Midway(conf, section, mapKey, m, d, k)
      /\ k = 0 /\ open => section = "special-permission"
  BY DEF Inside, At
<1>2. n \in Nat /\ doc \in Seq(S)
  OBVIOUS
<1>3. PICK L : AllLines(doc) \in Seq(L)
  BY TextPlaces
<1>4. /\ file # <<>> /\ file' = Tail(file)
      /\ line = Head(file)
  BY ReadingLine DEF line
<1>5. i < n
  <2>1. i = n => k = 0 /\ Rest(b, doc, n, 0) = <<>>
    BY <1>1, <1>2, <1>3, RestEnds
  <2>2. i # n
    BY <1>1, <1>4, <2>1
  <2> HIDE DEF n
  <2> QED
    BY <1>1, <1>2, <2>2
<1>6. /\ i \in 0 .. n - 1 /\ i + 1 \in 1 .. n /\ (i + 1) - 1 = i /\ i \in Nat /\ i + 1 \in 0 .. n
      /\ i \in 0 .. Len(doc) - 1
  BY <1>1, <1>2, <1>5
<1>7. Sound(d)
  BY <1>6 DEF WellFormed, Sound
<1>8. l \in Nat /\ l > 0
  BY <1>7, LinesCount
<1>9. k < l /\ k \in 0 .. l - 1
  <2> HIDE DEF l
  <2> QED
    BY <1>1, <1>8
<1>10. DOMAIN m = DOMAIN Default /\ Fresh(m, d)
  BY <1>6, NextIsFresh
<1>11. Midway(conf, section, mapKey, m, d, k)
  <2>1. CASE k = 0
    BY <1>1, <2>1 DEF Midway, SoFar, Headings
  <2>2. CASE k # 0
    BY <1>1, <2>2
  <2> QED
    BY <2>1, <2>2
<1>12. k = 0 /\ d.form \in Following => section = "special-permission"
  <2>1. d.form \in Following => open
    BY <1>6 DEF WellFormed
  <2> QED
    BY <1>1, <2>1
<1>13. /\ Head(file) = Lines(d)[k + 1]
       /\ Tail(file) = Rest(b, doc, i, k + 1)
       /\ k + 1 = l => Tail(file) = Rest(b, doc, i + 1, 0)
  BY <1>1, <1>3, <1>6, <1>8, <1>9, RestReads
<1>14. NextLineOf(d, k)
  BY <1>4, <1>13 DEF NextLineOf
<1>15. open \in BOOLEAN
  BY DEF OpenAfter
<1> HIDE DEF m, d, open
<1>16. /\ k + 1 < l => Midway(conf', section', mapKey', m, d, k + 1)
       /\ k + 1 = l => Behind(conf', section', m, d, open)
  BY <1>1, <1>7, <1>9, <1>10, <1>11, <1>12, <1>14, <1>15, LineRead
<1>17. CASE k + 1 < l
  <2>1. At(b, i, k + 1, doc, given, conf', section', mapKey', file')
    BY <1>1, <1>4, <1>5, <1>13, <1>16, <1>17 DEF At, m, d
  <2> QED
    BY <2>1
<1>18. CASE k + 1 = l
  <2>1. After(given, doc)[i + 1] = Declare(m, d)
    <3>1. After(given, doc)[i + 1] = Declare(After(given, doc)[(i + 1) - 1], doc[i + 1])
      BY <1>6, AfterDeclares
    <3> QED
      BY <1>6, <3>1 DEF m, d
  <2>2. OpenAfter(doc, i + 1) => section' = "special-permission"
    BY <1>6, <1>16, <1>18, OpenNext DEF Behind, d, open
  <2>3. Agrees(conf', After(given, doc)[i + 1])
    BY <1>16, <1>18, <2>1 DEF Behind
  <2>4. file' = Rest(b, doc, i + 1, 0)
    BY <1>4, <1>13, <1>18
  <2>5. At(b, i + 1, 0, doc, given, conf', section', mapKey', file')
    BY <1>1, <1>6, <2>2, <2>3, <2>4 DEF At
  <2> QED
    BY <2>5
<1>19. k + 1 < l \/ k + 1 = l
  <2> HIDE DEF l
  <2> QED
    BY <1>8, <1>9
<1> QED
  BY <1>17, <1>18, <1>19

(* The file is loaded: all of the document is still to be read.            *)
LEMMA LoadStarts ==
  ASSUME NEW S, Documents \subseteq {document \in Seq(S) : WellFormed(document)},
         ConfigInv, doc = <<>>, Load
  PROVE  ConfigInv'
<1>1. /\ doc' \in Documents /\ given' \in Given /\ conf' = given' /\ file' = AllLines(doc')
      /\ section' = section /\ mapKey' = mapKey
  BY DEF Load
<1>2. doc' \in Seq(S) /\ WellFormed(doc')
  BY <1>1
<1>3. (\E L : AllLines(doc') \in Seq(L)) /\ (\E b : Places(b, doc'))
  BY <1>2, TextPlaces
<1>4. PICK L : AllLines(doc') \in Seq(L)
  BY <1>3
<1>5. PICK b : Places(b, doc')
  BY <1>3
<1>6. CASE doc' = <<>>
  <2>1. Len(AllLines(<<>>)) = 0
    BY <1>5, <1>6, EmptySeq DEF Places
  <2>2. AllLines(<<>>) = <<>>
    BY <1>4, <1>6, <2>1, EmptySeq
  <2> QED
    BY <1>1, <1>6, <2>2 DEF ConfigInv
<1>7. CASE doc' # <<>>
  <2>1. DOMAIN given' = DOMAIN Default
    BY <1>1, FlagsAssumption
  <2>2. Agrees(conf', After(given', doc')[0])
    BY <1>1, <1>2, <2>1, AfterDeclares DEF Agrees
  <2>3. file' = Rest(b, doc', 0, 0)
    <3>1. b[0] = 0
      BY <1>5 DEF Places
    <3>2. Rest(b, doc', 0, 0) = SubSeq(AllLines(doc'), 1, Len(AllLines(doc')))
      BY <3>1 DEF Rest
    <3> QED
      BY <1>1, <1>4, <3>2, SubSeqFull
  <2>4. ~OpenAfter(doc', 0)
    BY DEF OpenAfter
  <2>5. 0 \in 0 .. Len(doc') /\ 0 \in Nat
    BY <1>2
  <2>6. At(b, 0, 0, doc', given', conf', section', mapKey', file')
    BY <1>5, <2>2, <2>3, <2>4, <2>5 DEF At
  <2> QED
    BY <1>1, <1>7, <2>6 DEF ConfigInv, Inside
<1> QED
  BY <1>6, <1>7

LEMMA InvStays ==
  ASSUME NEW S, Documents \subseteq {document \in Seq(S) : WellFormed(document)},
         ConfigInv, [ConfigNext]_configVars
  PROVE  ConfigInv'
<1>1. CASE UNCHANGED configVars
  BY <1>1 DEF configVars, ConfigInv, Inside
<1>2. CASE ConfigNext /\ doc = <<>>
  <2>1. file = <<>>
    BY <1>2 DEF ConfigInv
  <2>2. Load
    BY <1>2, <2>1 DEF ConfigNext, ReadHeader, ReadItem, ReadSetting, ReadList, ReadSpecial,
                      ReadSubKey, SkipLine, Reads
  <2> QED
    BY <1>2, <2>2, LoadStarts
<1>3. CASE ConfigNext /\ doc # <<>>
  <2>1. PICK b, i, k : Inside(b, i, k)
    BY <1>3 DEF ConfigInv
  <2>2. doc \in Seq(S) /\ WellFormed(doc) /\ doc \in Documents /\ given \in Given
    BY <1>3 DEF ConfigInv
  <2>3. \E u, v : At(b, u, v, doc, given, conf', section', mapKey', file')
    BY <1>3, <2>1, <2>2, InsideStays
  <2>4. doc' = doc /\ given' = given
    BY <1>3, ReadingLine
  <2> QED
    BY <1>3, <2>2, <2>3, <2>4 DEF ConfigInv, Inside
<1> QED
  BY <1>1, <1>2, <1>3

(* With no line left, the whole document is behind.                        *)
LEMMA InvDecides ==
  ASSUME NEW S, Documents \subseteq {document \in Seq(S) : WellFormed(document)}, ConfigInv
  PROVE  FileMeansWhatItSays
<1> SUFFICES ASSUME file = <<>>
             PROVE  /\ \A field \in DOMAIN conf \ {"SpecialPermission"} :
                          conf[field] = Meaning[field]
                    /\ \A user \in Users : Permissions(conf, user) = Permissions(Meaning, user)
  BY DEF FileMeansWhatItSays, ConfIs
<1>1. CASE doc = <<>>
  <2>1. doc \in Seq({}) /\ Len(doc) = 0 /\ conf = given
    BY <1>1, EmptySeq DEF ConfigInv
  <2>2. Meaning = given
    BY <2>1, AfterDeclares DEF Meaning
  <2> QED
    BY <2>1, <2>2
<1>2. CASE doc # <<>>
  <2>1. PICK b, i, k : Inside(b, i, k)
    BY <1>2 DEF ConfigInv
  <2>2. doc \in Seq(S) /\ WellFormed(doc)
    BY <1>2 DEF ConfigInv
  <2>3. i = Len(doc) /\ k = 0
    <3> DEFINE n == Len(doc)
               l == Len(Lines(doc[i + 1]))
    <3>1. /\ Places(b, doc) /\ i \in 0 .. n /\ k \in Nat /\ n \in Nat
          /\ k > 0 => i < n /\ k < l
          /\ Rest(b, doc, i, k) = <<>>
      BY <2>1, <2>2 DEF Inside, At
    <3>2. PICK L : AllLines(doc) \in Seq(L)
      BY <2>2, TextPlaces
    <3>3. ~(i < n)
      <4> SUFFICES ASSUME i < n
                   PROVE  FALSE
        OBVIOUS
      <4>1. i \in 0 .. Len(doc) - 1 /\ i + 1 \in 1 .. n
        BY <3>1
      <4>2. Sound(doc[i + 1])
        BY <2>2, <4>1 DEF WellFormed, Sound
      <4>3. l \in Nat /\ l > 0
        BY <4>2, LinesCount
      <4>4. k \in 0 .. l - 1
        <5> HIDE DEF l
        <5> QED
          BY <3>1, <4>3
      <4> QED
        BY <2>2, <3>1, <3>2, <4>1, <4>3, <4>4, RestReads
    <3> HIDE DEF n, l
    <3>4. i = n /\ k = 0
      BY <3>1, <3>3
    <3> QED
      BY <3>4 DEF n
  <2>4. Agrees(conf, Meaning)
    BY <2>1, <2>3 DEF Inside, At, Meaning
  <2> QED
    BY <2>4 DEF Agrees
<1> QED
  BY <1>1, <1>2

(* Once the file is read, the configuration is the one that the file       *)
(* declares: every declaration of a well-formed document takes effect, in  *)
(* whichever of its forms and places, for its own list or user and for no  *)
(* other, over what the command line gave (config.go, parseYAML).          *)
THEOREM ConfigMeans ==
  ASSUME NEW S, Documents \subseteq {document \in Seq(S) : WellFormed(document)}
  PROVE  ConfigSpec => []FileMeansWhatItSays
<1>1. ConfigInit => ConfigInv
  BY DEF ConfigInit, ConfigInv
<1>2. ConfigInv /\ [ConfigNext]_configVars => ConfigInv'
  BY InvStays
<1>3. ConfigInv => FileMeansWhatItSays
  BY InvDecides
<1> QED
  BY <1>1, <1>2, <1>3, PTL DEF ConfigSpec

=============================================================================
