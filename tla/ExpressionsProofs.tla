-------------------------- MODULE ExpressionsProofs --------------------------
(***************************************************************************)
(* The code the visitor builds is well typed, whatever the program, and    *)
(* the visitor uses the symbol table as a lexical environment.  A visit    *)
(* function relies on what its callee left in tmp_val and promises its own *)
(* caller a value of a type: the invariant is that every promise on the    *)
(* stack of visits is what the frame below needs.                          *)
(*                                                                         *)
(* First the symbol table by itself: the list of maps implements the       *)
(* lexical environment, for every set of names and values and every        *)
(* sequence of calls.  Then where the values come from: each was made      *)
(* before its use on every path, also those the visitor still holds, and   *)
(* no float is truncated but for its user.  Last, what ConstPropagation    *)
(* leaves of the types.                                                    *)
(***************************************************************************)
EXTENDS Folding, FiniteSetTheorems, SequenceTheorems, TLAPS

G == INSTANCE CfgProofs

Bindings == UNION {[S -> Values] : S \in SUBSET Names}

\* The symbol table is a list of maps from names to values.
ScopeTypeOK == inner \in Seq(Bindings)

-----------------------------------------------------------------------------
(* Find and View, for any list of maps.                                    *)
Below(s, n, k) == {i \in DOMAIN s : n \in DOMAIN s[i] /\ i <= k}
Last(B) == CHOOSE i \in B : \A j \in B : j <= i

EnvOf(s, k) ==
  [n \in Names |-> IF Below(s, n, k) = {} THEN Unbound ELSE s[Last(Below(s, n, k))][n]]
OwnOf(s, k) == IF k = 0 THEN {} ELSE DOMAIN s[k]
ViewOf(s, k) == [env |-> EnvOf(s, k), own |-> OwnOf(s, k)]

\* A bounded set of numbers that is not empty has a greatest element.
LEMMA LastIsGreatest ==
  ASSUME NEW k \in Nat, NEW B \in SUBSET (1 .. k), B # {}
  PROVE  Last(B) \in B /\ \A j \in B : j <= Last(B)
<1> DEFINE less == OpToRel(<, Nat)
           T == {k - i : i \in B}
<1>1. T \subseteq Nat /\ T # {}
  <2>1. \A i \in B : i \in 1 .. k /\ k - i \in Nat
    OBVIOUS
  <2>2. PICK i \in B : TRUE
    OBVIOUS
  <2>3. k - i \in T
    BY <2>2
  <2> QED BY <2>1, <2>3
<1>2. IsWellFoundedOn(less, Nat)
  BY NatLessThanWellFounded
<1>3. PICK x \in T : \A y \in T : ~ (<<y, x>> \in less)
  <2> HIDE DEF less, T
  <2> QED BY <1>1, <1>2, WFMin
<1>4. PICK i \in B : x = k - i
  OBVIOUS
<1>5. \A j \in B : j <= i
  <2>1. SUFFICES ASSUME NEW j \in B, j > i PROVE FALSE
    OBVIOUS
  <2>2. k - j \in T /\ k - j \in Nat /\ x \in Nat /\ k - j < x
    BY <2>1, <1>4
  <2>3. <<k - j, x>> \in less
    BY <2>2 DEF OpToRel
  <2> QED BY <2>2, <2>3, <1>3
<1> QED BY <1>5 DEF Last

LEMMA BindingFacts ==
  ASSUME NEW m \in Bindings
  PROVE  /\ DOMAIN m \subseteq Names
         /\ \A n \in DOMAIN m : m[n] \in Values
         /\ m = [n \in DOMAIN m |-> m[n]]
  BY DEF Bindings

LEMMA LastBelow ==
  ASSUME NEW s \in Seq(Bindings), NEW n, NEW k \in Nat, Below(s, n, k) # {}
  PROVE  /\ Last(Below(s, n, k)) \in Below(s, n, k)
         /\ Last(Below(s, n, k)) \in 1 .. k
         /\ \A j \in Below(s, n, k) : j <= Last(Below(s, n, k))
<1>1. Below(s, n, k) \in SUBSET (1 .. k)
  BY DEF Below
<1> QED BY <1>1, LastIsGreatest

-----------------------------------------------------------------------------
\* What lies above k has no influence on the k-th view.
LEMMA SameBelow ==
  ASSUME NEW s \in Seq(Bindings), NEW t \in Seq(Bindings), NEW k \in Nat,
         k <= Len(s), k <= Len(t), \A i \in 1 .. k : s[i] = t[i]
  PROVE  EnvOf(s, k) = EnvOf(t, k) /\ OwnOf(s, k) = OwnOf(t, k)
<1>1. ASSUME NEW n \in Names PROVE EnvOf(s, k)[n] = EnvOf(t, k)[n]
  <2>1. Below(s, n, k) = Below(t, n, k)
    BY DEF Below
  <2>2. CASE Below(s, n, k) = {}
    BY <2>1, <2>2 DEF EnvOf
  <2>3. CASE Below(s, n, k) # {}
    <3>1. Last(Below(s, n, k)) \in 1 .. k
      BY <2>3, LastBelow
    <3> QED BY <2>1, <2>3, <3>1 DEF EnvOf
  <2> QED BY <2>2, <2>3
<1>2. EnvOf(s, k) = EnvOf(t, k)
  BY <1>1 DEF EnvOf
<1>3. OwnOf(s, k) = OwnOf(t, k)
  BY DEF OwnOf
<1> QED BY <1>2, <1>3

\* An empty map on top hides nothing.
LEMMA EmptyOnTop ==
  ASSUME NEW s \in Seq(Bindings), NEW k \in Nat, Len(s) = k + 1, DOMAIN s[k + 1] = {}
  PROVE  EnvOf(s, k + 1) = EnvOf(s, k)
<1>1. \A n \in Names : Below(s, n, k + 1) = Below(s, n, k)
  BY DEF Below
<1> QED BY <1>1 DEF EnvOf

\* A name inserted into the map on top is bound there unless it was already.
LEMMA InsertOnTop ==
  ASSUME NEW s \in Seq(Bindings), NEW t \in Seq(Bindings), NEW k \in Nat \ {0},
         Len(s) = k, Len(t) = k, \A i \in 1 .. k - 1 : s[i] = t[i],
         NEW n \in Names, NEW value \in Values, t[k] = Inserted(s[k], n, value)
  PROVE  EnvOf(t, k) = IF n \in DOMAIN s[k] THEN EnvOf(s, k)
                       ELSE [EnvOf(s, k) EXCEPT ![n] = value]
<1> DEFINE want == IF n \in DOMAIN s[k] THEN EnvOf(s, k)
                   ELSE [EnvOf(s, k) EXCEPT ![n] = value]
<1>0. /\ DOMAIN t[k] = DOMAIN s[k] \cup {n}
      /\ \A m \in DOMAIN s[k] : t[k][m] = s[k][m]
      /\ n \notin DOMAIN s[k] => t[k][n] = value
  BY DEF Inserted
<1>1. ASSUME NEW m \in Names, m # n \/ n \in DOMAIN s[k] PROVE EnvOf(t, k)[m] = EnvOf(s, k)[m]
  <2>1. Below(t, m, k) = Below(s, m, k)
    BY <1>0, <1>1 DEF Below
  <2>2. CASE Below(s, m, k) = {}
    BY <2>1, <2>2 DEF EnvOf
  <2>3. CASE Below(s, m, k) # {}
    <3> DEFINE l == Last(Below(s, m, k))
    <3>1. l \in 1 .. k /\ m \in DOMAIN s[l]
      <4>1. l \in Below(s, m, k) /\ l \in 1 .. k
        BY <2>3, LastBelow
      <4> QED BY <4>1 DEF Below
    <3>2. t[l][m] = s[l][m]
      <4>1. CASE l = k
        BY <3>1, <4>1, <1>0
      <4>2. CASE l # k
        BY <3>1, <4>2
      <4> QED BY <4>1, <4>2
    <3> QED BY <2>1, <2>3, <3>2 DEF EnvOf
  <2> QED BY <2>2, <2>3
<1>2. ASSUME n \notin DOMAIN s[k] PROVE EnvOf(t, k)[n] = value
  <2>1. k \in Below(t, n, k)
    BY <1>0 DEF Below
  <2>2. Last(Below(t, n, k)) = k
    <3>1. Last(Below(t, n, k)) \in 1 .. k /\ k <= Last(Below(t, n, k))
      BY <2>1, LastBelow
    <3> QED BY <3>1
  <2> QED BY <2>1, <2>2, <1>0, <1>2 DEF EnvOf
<1>3. \A m \in Names : EnvOf(t, k)[m] = want[m]
  BY <1>1, <1>2 DEF EnvOf
<1>4. want = [m \in Names |-> want[m]]
  BY DEF EnvOf
<1> QED BY <1>3, <1>4 DEF EnvOf

-----------------------------------------------------------------------------
LEMMA TypeInductive == ScopeInit => ScopeTypeOK
  BY DEF ScopeInit, ScopeTypeOK

LEMMA EnterKeepsType ==
  ASSUME ScopeTypeOK, Enter
  PROVE  /\ ScopeTypeOK'
         /\ Len(inner') = Len(inner) + 1
         /\ \A i \in 1 .. Len(inner) : inner'[i] = inner[i]
         /\ DOMAIN inner'[Len(inner) + 1] = {}
<1> DEFINE none == [n \in {} |-> Unbound]
<1>1. none \in Bindings /\ DOMAIN none = {}
  BY DEF Bindings
<1> HIDE DEF none
<1>2. inner' = Append(inner, none)
  BY DEF Enter, none
<1> QED BY <1>1, <1>2 DEF ScopeTypeOK

LEMMA ExitKeepsType ==
  ASSUME ScopeTypeOK, Exit
  PROVE  /\ ScopeTypeOK'
         /\ inner # <<>> /\ Len(inner) \in Nat \ {0}
         /\ Len(inner') = Len(inner) - 1
         /\ \A i \in 1 .. Len(inner) - 1 : inner'[i] = inner[i]
<1>1. Len(inner) \in Nat \ {0} /\ inner \in Seq(Bindings) /\ inner # <<>>
  BY DEF ScopeTypeOK, Exit
<1>2. inner' = SubSeq(inner, 1, Len(inner) - 1)
  BY DEF Exit
<1>3. inner' \in Seq(Bindings) /\ Len(inner') = Len(inner) - 1
  <2> DEFINE n == Len(inner) - 1
  <2>1. n \in Nat /\ n \in (1 - 1) .. Len(inner) /\ 1 \in 1 .. Len(inner) + 1
    BY <1>1
  <2> HIDE DEF n
  <2>2. /\ SubSeq(inner, 1, n) \in Seq(Bindings)
        /\ Len(SubSeq(inner, 1, n)) = IF 1 <= n THEN n - 1 + 1 ELSE 0
    BY <1>1, <2>1, SubSeqProperties
  <2>3. Len(SubSeq(inner, 1, n)) = n
    BY <2>1, <2>2
  <2> QED BY <1>2, <2>2, <2>3 DEF n
<1>4. \A i \in 1 .. Len(inner) - 1 : inner'[i] = inner[i]
  BY <1>1, <1>2
<1> QED BY <1>1, <1>3, <1>4 DEF ScopeTypeOK

LEMMA PushKeepsType ==
  ASSUME ScopeTypeOK, NEW n \in Names, NEW value \in Values, Push(n, value)
  PROVE  /\ ScopeTypeOK'
         /\ Len(inner) \in Nat \ {0} /\ Len(inner') = Len(inner)
         /\ \A i \in 1 .. Len(inner) - 1 : inner'[i] = inner[i]
         /\ inner'[Len(inner)] = Inserted(inner[Len(inner)], n, value)
<1> DEFINE top == inner[Len(inner)]
           map == Inserted(top, n, value)
<1>1. Len(inner) \in Nat \ {0} /\ top \in Bindings
  BY DEF ScopeTypeOK, Push
<1>2. map \in Bindings
  <2>1. map \in [DOMAIN top \cup {n} -> Values]
    <3> HIDE DEF top
    <3> QED BY <1>1, BindingFacts DEF Inserted
  <2>2. DOMAIN top \cup {n} \in SUBSET Names
    <3> HIDE DEF top
    <3> QED BY <1>1, BindingFacts
  <2> QED BY <2>1, <2>2 DEF Bindings
<1>3. inner' = [inner EXCEPT ![Len(inner)] = map]
  BY DEF Push
<1> HIDE DEF map, top
<1> QED BY <1>1, <1>2, <1>3 DEF ScopeTypeOK, map, top

\* The module's Find and View are these views of the list.
LEMMA FindIsView ==
  ASSUME ScopeTypeOK
  PROVE  /\ [n \in Names |-> Find(n)] = EnvOf(inner, Len(inner))
         /\ \A k \in Nat : View(k) = ViewOf(inner, k)
<1>1. ASSUME NEW n \in Names PROVE Find(n) = EnvOf(inner, Len(inner))[n]
  <2>1. Binders(n) = Below(inner, n, Len(inner))
    BY DEF ScopeTypeOK, Binders, Below
  <2> QED BY <2>1 DEF Find, LastBinder, EnvOf, Last
<1>2. ASSUME NEW k \in Nat PROVE View(k) = ViewOf(inner, k)
  BY DEF View, ViewOf, EnvOf, OwnOf, Below, Last, Binders
<1> QED BY <1>1, <1>2 DEF EnvOf

-----------------------------------------------------------------------------
(* The refinement mapping in terms of the views.                           *)
Env == EnvOf(inner, Len(inner))
Own == OwnOf(inner, Len(inner))
Saved == [k \in DOMAIN inner |-> ViewOf(inner, k - 1)]

Mapped ==
  /\ [n \in Names |-> Find(n)] = Env
  /\ View(Len(inner)).own = Own
  /\ [k \in DOMAIN inner |-> View(k - 1)] = Saved

LEMMA MappingIsView == ScopeTypeOK => Mapped
<1> SUFFICES ASSUME ScopeTypeOK PROVE Mapped
  OBVIOUS
<1>1. Len(inner) \in Nat /\ DOMAIN inner = 1 .. Len(inner)
  BY DEF ScopeTypeOK
<1>2. View(Len(inner)) = ViewOf(inner, Len(inner))
  BY <1>1, FindIsView
<1>3. \A k \in DOMAIN inner : View(k - 1) = ViewOf(inner, k - 1)
  BY <1>1, FindIsView
<1> QED BY <1>2, <1>3, FindIsView DEF Mapped, Env, Own, Saved, ViewOf

LEMMA ViewFacts ==
  ASSUME ScopeTypeOK
  PROVE  /\ Len(inner) \in Nat /\ DOMAIN inner = 1 .. Len(inner)
         /\ inner \in Seq(Bindings)
         /\ Len(Saved) = Len(inner) /\ DOMAIN Saved = 1 .. Len(inner)
         /\ \A k \in 1 .. Len(inner) :
              Saved[k] = [env |-> EnvOf(inner, k - 1), own |-> OwnOf(inner, k - 1)]
<1>1. Len(inner) \in Nat /\ DOMAIN inner = 1 .. Len(inner) /\ inner \in Seq(Bindings)
  BY DEF ScopeTypeOK
<1>2. Saved = [k \in 1 .. Len(inner) |-> ViewOf(inner, k - 1)]
  BY <1>1 DEF Saved
<1>3. Len(Saved) = Len(inner)
  BY <1>1, <1>2
<1> QED BY <1>1, <1>2, <1>3 DEF ViewOf

\* Entering a block saves the environment.
LEMMA EnterRefines ==
  ASSUME ScopeTypeOK, Enter
  PROVE  /\ ScopeTypeOK'
         /\ Env' = Env /\ Own' = {}
         /\ Saved' = Append(Saved, [env |-> Env, own |-> Own])
<1> DEFINE l == Len(inner)
           s == inner
           t == inner'
<1>1. /\ ScopeTypeOK' /\ l \in Nat /\ s \in Seq(Bindings) /\ t \in Seq(Bindings)
      /\ Len(t) = l + 1 /\ DOMAIN t = 1 .. l + 1
      /\ \A i \in 1 .. l : s[i] = t[i]
      /\ DOMAIN t[l + 1] = {}
  BY EnterKeepsType DEF ScopeTypeOK
<1>2. \A k \in 0 .. l : EnvOf(t, k) = EnvOf(s, k) /\ OwnOf(t, k) = OwnOf(s, k)
  <2> HIDE DEF l, s, t
  <2>1. l = Len(s)
    BY DEF l, s
  <2> QED BY <1>1, <2>1, SameBelow
<1>3. Env' = Env /\ Own' = {}
  <2>1. Env' = EnvOf(t, l + 1) /\ Own' = OwnOf(t, l + 1) /\ Env = EnvOf(s, l)
    BY <1>1 DEF Env, Own
  <2>2. EnvOf(t, l + 1) = EnvOf(t, l)
    <3> HIDE DEF l, s, t
    <3> QED BY <1>1, EmptyOnTop
  <2>3. OwnOf(t, l + 1) = {}
    BY <1>1 DEF OwnOf
  <2>4. EnvOf(t, l) = EnvOf(s, l)
    BY <1>1, <1>2
  <2> HIDE DEF l, s, t
  <2> QED BY <2>1, <2>2, <2>3, <2>4
<1>4. Saved' = Append(Saved, [env |-> Env, own |-> Own])
  <2> DEFINE w == [env |-> Env, own |-> Own]
  <2>1. Saved' = [k \in 1 .. l + 1 |-> ViewOf(t, k - 1)]
    BY <1>1 DEF Saved
  <2>2. Saved = [k \in 1 .. l |-> ViewOf(s, k - 1)] /\ w = ViewOf(s, l)
    BY ViewFacts DEF Saved, ViewOf, Env, Own
  <2>3. \A k \in 0 .. l : ViewOf(t, k) = ViewOf(s, k)
    BY <1>2 DEF ViewOf
  <2> HIDE DEF w, l, s, t
  <2>4. \A k \in 1 .. l : ViewOf(t, k - 1) = ViewOf(s, k - 1)
    BY <2>3, <1>1
  <2>5. ViewOf(t, l) = w
    BY <2>2, <2>3, <1>1
  <2>6. Append(Saved, w) = [k \in 1 .. l + 1 |-> IF k = l + 1 THEN w ELSE ViewOf(s, k - 1)]
    BY <2>2, <1>1
  <2>7. Saved' = [k \in 1 .. l + 1 |-> IF k = l + 1 THEN w ELSE ViewOf(s, k - 1)]
    <3>1. \A k \in 1 .. l + 1 :
            ViewOf(t, k - 1) = IF k = l + 1 THEN w ELSE ViewOf(s, k - 1)
      BY <2>4, <2>5, <1>1
    <3> QED BY <2>1, <3>1
  <2>8. Saved' = Append(Saved, w)
    BY <2>6, <2>7
  <2> QED BY <2>8 DEF w
<1> QED BY <1>1, <1>3, <1>4

\* Leaving it restores what was saved.
LEMMA ExitRefines ==
  ASSUME ScopeTypeOK, Exit
  PROVE  /\ ScopeTypeOK'
         /\ Saved # <<>>
         /\ Env' = Saved[Len(Saved)].env /\ Own' = Saved[Len(Saved)].own
         /\ Saved' = SubSeq(Saved, 1, Len(Saved) - 1)
<1> DEFINE l == Len(inner)
           s == inner
           t == inner'
<1>1. /\ ScopeTypeOK' /\ l \in Nat \ {0} /\ s \in Seq(Bindings) /\ t \in Seq(Bindings)
      /\ Len(t) = l - 1 /\ DOMAIN t = 1 .. l - 1
      /\ \A i \in 1 .. l - 1 : s[i] = t[i]
  BY ExitKeepsType DEF ScopeTypeOK
<1>2. ASSUME NEW k \in 0 .. l - 1
      PROVE  EnvOf(t, k) = EnvOf(s, k) /\ OwnOf(t, k) = OwnOf(s, k)
  <2> HIDE DEF l, s, t
  <2>1. l = Len(s)
    BY DEF l, s
  <2>2. /\ k \in Nat /\ k <= Len(s) /\ k <= Len(t)
        /\ \A i \in 1 .. k : t[i] = s[i]
    BY <1>1, <2>1
  <2> QED BY <1>1, <2>2, SameBelow
<1>3. /\ Saved # <<>> /\ Len(Saved) = l
      /\ Saved[l] = [env |-> EnvOf(s, l - 1), own |-> OwnOf(s, l - 1)]
  BY <1>1, ViewFacts
<1>4. Env' = Saved[Len(Saved)].env /\ Own' = Saved[Len(Saved)].own
  <2>1. Env' = EnvOf(t, l - 1) /\ Own' = OwnOf(t, l - 1)
    BY <1>1 DEF Env, Own
  <2> HIDE DEF l, s, t
  <2> QED BY <2>1, <1>1, <1>2, <1>3
<1>5. Saved' = SubSeq(Saved, 1, Len(Saved) - 1)
  <2>1. Saved' = [k \in 1 .. l - 1 |-> ViewOf(t, k - 1)]
    BY <1>1 DEF Saved
  <2>2. Saved = [k \in 1 .. l |-> ViewOf(s, k - 1)]
    BY ViewFacts DEF Saved
  <2> HIDE DEF l, s, t
  <2>3. \A k \in 1 .. l - 1 : ViewOf(t, k - 1) = ViewOf(s, k - 1)
    BY <1>2, <1>1 DEF ViewOf
  <2>4. SubSeq(Saved, 1, l - 1) = [k \in 1 .. l - 1 |-> ViewOf(s, k - 1)]
    BY <2>2, <1>1
  <2> QED BY <2>1, <2>3, <2>4, <1>3
<1> QED BY <1>1, <1>3, <1>4, <1>5

\* A declaration binds its name, or changes nothing.
LEMMA PushRefines ==
  ASSUME ScopeTypeOK, NEW n \in Names, NEW value \in Values, Push(n, value)
  PROVE  /\ ScopeTypeOK'
         /\ Env' = IF n \in Own THEN Env ELSE [Env EXCEPT ![n] = value]
         /\ n \notin Own => Env'[n] = value
         /\ Own' = Own \cup {n} /\ Saved' = Saved
<1> DEFINE l == Len(inner)
           s == inner
           t == inner'
<1>1. /\ ScopeTypeOK' /\ l \in Nat \ {0} /\ s \in Seq(Bindings) /\ t \in Seq(Bindings)
      /\ Len(t) = l /\ DOMAIN t = 1 .. l /\ DOMAIN s = 1 .. l
      /\ \A i \in 1 .. l - 1 : s[i] = t[i]
      /\ t[l] = Inserted(s[l], n, value)
  BY PushKeepsType DEF ScopeTypeOK
<1>2. Env' = EnvOf(t, l) /\ Own' = DOMAIN t[l] /\ Env = EnvOf(s, l) /\ Own = DOMAIN s[l]
  BY <1>1 DEF Env, Own, OwnOf
<1>3. Env' = IF n \in Own THEN Env ELSE [Env EXCEPT ![n] = value]
  <2>1. Len(s) = l
    OBVIOUS
  <2> HIDE DEF l, s, t
  <2> QED BY <1>1, <1>2, <2>1, InsertOnTop
<1>4. n \notin Own => Env'[n] = value
  <2>1. n \in DOMAIN Env
    BY DEF Env, EnvOf
  <2> QED BY <1>3, <2>1
<1>5. Own' = Own \cup {n}
  <2> HIDE DEF l, s, t
  <2> QED BY <1>1, <1>2 DEF Inserted
<1>6. Saved' = Saved
  <2>1. Saved' = [k \in 1 .. l |-> ViewOf(t, k - 1)] /\ Saved = [k \in 1 .. l |-> ViewOf(s, k - 1)]
    BY <1>1 DEF Saved
  <2>2. Len(s) = l
    OBVIOUS
  <2> HIDE DEF l, s, t
  <2>3. \A k \in 0 .. l - 1 : ViewOf(t, k) = ViewOf(s, k)
    BY <1>1, <2>2, SameBelow DEF ViewOf
  <2> QED BY <2>1, <2>3, <1>1
<1> QED BY <1>1, <1>3, <1>4, <1>5, <1>6

-----------------------------------------------------------------------------
\* One step of the list is one step of the environment, or none.
LEMMA StepRefines ==
  ASSUME ScopeTypeOK, [ScopeNext]_inner
  PROVE  /\ ScopeTypeOK'
         /\ [Lexical!EnvironmentNext]_(Lexical!environmentVars)
<1>1. Mapped
  BY MappingIsView
<1>2. ScopeTypeOK' => Mapped'
  BY MappingIsView, PTL
<1>3. CASE Enter
  <2>1. /\ ScopeTypeOK' /\ Env' = Env /\ Own' = {}
        /\ Saved' = Append(Saved, [env |-> Env, own |-> Own])
    BY <1>3, EnterRefines
  <2>2. Lexical!EnterBlock
    BY <1>1, <1>2, <2>1 DEF Mapped, Lexical!EnterBlock
  <2> QED BY <2>1, <2>2 DEF Lexical!EnvironmentNext
<1>4. CASE Exit
  <2>1. /\ ScopeTypeOK' /\ Saved # <<>>
        /\ Env' = Saved[Len(Saved)].env /\ Own' = Saved[Len(Saved)].own
        /\ Saved' = SubSeq(Saved, 1, Len(Saved) - 1)
    BY <1>4, ExitRefines
  <2>2. Lexical!LeaveBlock
    BY <1>1, <1>2, <2>1 DEF Mapped, Lexical!LeaveBlock
  <2> QED BY <2>1, <2>2 DEF Lexical!EnvironmentNext
<1>5. ASSUME NEW n \in Names, NEW value \in Values, Push(n, value)
      PROVE  ScopeTypeOK' /\ Lexical!EnvironmentNext
  <2>1. /\ ScopeTypeOK'
        /\ Env' = IF n \in Own THEN Env ELSE [Env EXCEPT ![n] = value]
        /\ n \notin Own => Env'[n] = value
        /\ Own' = Own \cup {n} /\ Saved' = Saved
    BY <1>5, PushRefines
  <2>2. Lexical!Bind(n)
    BY <1>1, <1>2, <2>1 DEF Mapped, Lexical!Bind
  <2> QED BY <2>1, <2>2 DEF Lexical!EnvironmentNext
<1>6. CASE UNCHANGED inner
  <2>1. ScopeTypeOK'
    BY <1>6 DEF ScopeTypeOK
  <2>2. Env' = Env /\ Own' = Own /\ Saved' = Saved
    BY <1>6 DEF Env, Own, Saved
  <2>3. UNCHANGED Lexical!environmentVars
    BY <1>1, <1>2, <2>1, <2>2 DEF Mapped, Lexical!environmentVars
  <2> QED BY <2>1, <2>3
<1> QED BY <1>3, <1>4, <1>5, <1>6 DEF ScopeNext

LEMMA InitRefines == ScopeInit => Lexical!EnvironmentInit
<1> SUFFICES ASSUME ScopeInit PROVE Lexical!EnvironmentInit
  OBVIOUS
<1>1. ScopeTypeOK /\ inner = <<>> /\ Len(inner) = 0
  BY TypeInductive DEF ScopeInit
<1>2. Env = [n \in Names |-> Unbound] /\ Own = {} /\ Saved = <<>>
  <2>1. \A n \in Names : Below(inner, n, 0) = {}
    BY <1>1 DEF Below
  <2> QED BY <1>1, <2>1 DEF Env, EnvOf, Own, OwnOf, Saved
<1> QED BY <1>1, <1>2, MappingIsView DEF Mapped, Lexical!EnvironmentInit

(* The symbol table only ever holds lists of maps from names to values.    *)
THEOREM ScopeTypeCorrect == ScopeSpec => []ScopeTypeOK
  BY TypeInductive, StepRefines, PTL DEF ScopeSpec

(* The list of maps is a lexical environment: leaving a block restores the *)
(* bindings it was entered with, a declaration hides the outer ones of its *)
(* name and no others, and the first declaration of a block stays.         *)
THEOREM ScopeIsLexical == ScopeSpec => LexicalScoping
<1>1. ScopeInit => Lexical!EnvironmentInit
  BY InitRefines
<1>2. ScopeTypeOK /\ [ScopeNext]_inner
        => [Lexical!EnvironmentNext]_(Lexical!environmentVars)
  BY StepRefines
<1> QED BY <1>1, <1>2, ScopeTypeCorrect, PTL DEF ScopeSpec, LexicalScoping, Lexical!EnvironmentSpec

-----------------------------------------------------------------------------
(* Each kind of instruction, when its operands fit it.                     *)

\* What an instruction is besides: a result of the type of its operation, and
\* the operands a reader of it may rely on.
Formed(i) ==
  /\ i.op \in Arithmetic \cup {"zext", "fptosi"} => i.type = "i32"
  /\ i.op \in FArithmetic \cup {"sitofp"} => i.type = "float"
  /\ i.op \in Comparisons => i.type = "i1"
  /\ i.op = "load" => 1 \in DOMAIN i.args /\ i.type \in Pointees
  /\ i.op = "store" => {1, 2} \subseteq DOMAIN i.args /\ i.args[1].type \in Pointees
  /\ i.op = "call" => 1 \in DOMAIN i.args /\ i.args[1].kind = "function"

\* Instructions with operands of the types they require, and code made of them,
\* where no two blocks have an instruction of the same number.
Fit == {i \in Instruction : OperandsFit(i) /\ Formed(i)}
Numbered(f) ==
  \A b, d \in DOMAIN f.code : \A k \in DOMAIN f.code[b], j \in DOMAIN f.code[d] :
    /\ f.code[b][k].id \in 1 .. f.made
    /\ f.code[b][k].id = f.code[d][j].id => b = d
CodeShape == [code : Seq(Seq(Fit)), made : Nat]
Code == {f \in CodeShape : Numbered(f)}

\* An instruction with its fields, in the order Create is given them.
Instr(op, type, args, to, id) ==
  [op |-> op, type |-> type, args |-> args, to |-> to, id |-> id]

LEMMA Operations ==
  /\ FArithmetic = {"fadd", "fsub", "fmul", "fdiv"}
  /\ FComparisons = {"flt", "fle", "fgt", "fge", "feq", "fne"}
  /\ \A op \in Arithmetic : FloatOp[op] \in FArithmetic
  /\ \A op \in Comparisons : FloatOp[op] \in FComparisons
BY DEF FArithmetic, FComparisons, Arithmetic, Comparisons, FloatOp

LEMMA TypeFacts ==
  /\ \A t \in Pointees : PointerTo(t) \in Pointers /\ Pointee(PointerTo(t)) = t
  /\ \A p \in Pointers : Pointee(p) \in Pointees /\ PointerTo(Pointee(p)) = p
  /\ Pointees \subseteq TypeNames /\ Pointers \subseteq TypeNames
  /\ Scalars \subseteq Pointees /\ Arrays \subseteq Pointees
BY DEF Pointers, PointerTo, Pointee, Pointees, Scalars, Arrays, TypeNames

LEMMA SignatureFacts ==
  /\ CurrentFunction \in Nat /\ CurrentFunction > NegIdxExcept /\ NegIdxExcept \in Nat \ {0}
  /\ \A g \in 1 .. Len(Signatures) :
       /\ Signatures[g].ret \in Scalars \cup {"void"}
       /\ Signatures[g].params \in Seq(Scalars \cup {"i32*", "float*"})
  /\ ReturnType \in Scalars \cup {"void"}
<1>1. \A g \in 1 .. Len(Signatures) :
        /\ Signatures[g].ret \in Scalars \cup {"void"}
        /\ Signatures[g].params \in Seq(Scalars \cup {"i32*", "float*"})
  <2> DEFINE Signature == [ret : Scalars \cup {"void"},
                           params : Seq(Scalars \cup {"i32*", "float*"})]
  <2>1. Signatures \in Seq(Signature)
    BY ExpressionsAssumption
  <2>2. \A g \in 1 .. Len(Signatures) : Signatures[g] \in Signature
    <3> HIDE DEF Signature
    <3> QED BY <2>1
  <2> QED BY <2>2
<1>2. CurrentFunction \in Nat /\ CurrentFunction > NegIdxExcept /\ NegIdxExcept \in Nat \ {0}
  BY ExpressionsAssumption DEF CurrentFunction
<1> QED BY <1>1, <1>2 DEF ReturnType, CurrentFunction

LEMMA FitBinary ==
  ASSUME NEW l \in Value, NEW r \in Value, NEW id \in Nat, NEW op, NEW t,
         l.type = t, r.type = t,
         \/ t = "i32" /\ op \in Arithmetic \cup Comparisons
         \/ t = "float" /\ op \in FArithmetic \cup FComparisons,
         NEW type, type = ResultType(op, <<l, r>>)
  PROVE  Instr(op, type, <<l, r>>, <<>>, id) \in Fit
<1> DEFINE i == Instr(op, type, <<l, r>>, <<>>, id)
<1>0. op \in Opcodes
  BY DEF Opcodes
<1>1. type \in {"i32", "float", "i1"}
  BY Operations DEF ResultType, Arithmetic, Comparisons
<1>2. i \in Instruction
  BY <1>0, <1>1 DEF Instruction, Instr, Pointees, Scalars, TypeNames
<1>3. Types(i.args) = <<t, t>>
  BY DEF Types, Instr
<1>4. i.op = op
  BY DEF Instr
<1>5. OperandsFit(i)
  <2> HIDE DEF i
  <2>1. CASE t = "i32" /\ op \in Arithmetic \cup Comparisons
    BY <2>1, <1>3, <1>4, Operations DEF OperandsFit, Arithmetic, Comparisons
  <2>2. CASE t = "float" /\ op \in FArithmetic \cup FComparisons
    BY <2>2, <1>3, <1>4, Operations DEF OperandsFit, Arithmetic, Comparisons
  <2> QED BY <2>1, <2>2
<1>6. Formed(i)
  BY Operations DEF Formed, ResultType, Instr, Arithmetic, Comparisons
<1> QED BY <1>2, <1>5, <1>6 DEF Fit

LEMMA FitCast ==
  ASSUME NEW v \in Value, NEW id \in Nat, NEW op, NEW type,
         \/ op = "zext" /\ v.type = "i1" /\ type = "i32"
         \/ op = "sitofp" /\ v.type = "i32" /\ type = "float"
         \/ op = "fptosi" /\ v.type = "float" /\ type = "i32"
  PROVE  Instr(op, type, <<v>>, <<>>, id) \in Fit /\ type = ResultType(op, <<v>>)
<1> DEFINE i == Instr(op, type, <<v>>, <<>>, id)
<1>1. i \in Instruction
  BY DEF Instruction, Instr, Opcodes, Casts, Pointees, Scalars, TypeNames
<1>2. OperandsFit(i)
  <2>1. Types(i.args) = <<v.type>> /\ i.op = op
    BY DEF Types, Instr
  <2> HIDE DEF i
  <2> QED BY <2>1, Operations DEF OperandsFit, Arithmetic, Comparisons
<1>3. type = ResultType(op, <<v>>)
  BY Operations DEF ResultType, Arithmetic, Comparisons
<1>4. Formed(i)
  BY Operations DEF Formed, Instr, Arithmetic, Comparisons
<1> QED BY <1>1, <1>2, <1>3, <1>4 DEF Fit

LEMMA FitAlloca ==
  ASSUME NEW t \in Pointees, NEW id \in Nat
  PROVE  Instr("alloca", PointerTo(t), <<>>, <<>>, id) \in Fit
<1> DEFINE i == Instr("alloca", PointerTo(t), <<>>, <<>>, id)
<1>1. i \in Instruction
  BY TypeFacts DEF Instruction, Instr, Opcodes, Effects
<1>2. OperandsFit(i)
  BY Operations DEF OperandsFit, Types, Instr, Arithmetic, Comparisons
<1>3. Formed(i)
  BY Operations DEF Formed, Instr, Arithmetic, Comparisons
<1> QED BY <1>1, <1>2, <1>3 DEF Fit

LEMMA FitLoad ==
  ASSUME NEW v \in Value, v.type \in Pointers, NEW id \in Nat
  PROVE  /\ Instr("load", Pointee(v.type), <<v>>, <<>>, id) \in Fit
         /\ ResultType("load", <<v>>) = Pointee(v.type)
<1> DEFINE i == Instr("load", Pointee(v.type), <<v>>, <<>>, id)
<1>1. i \in Instruction
  BY TypeFacts DEF Instruction, Instr, Opcodes, Effects
<1>2. OperandsFit(i)
  BY TypeFacts, Operations DEF OperandsFit, Types, Instr, Arithmetic, Comparisons
<1>3. ResultType("load", <<v>>) = Pointee(v.type)
  BY Operations DEF ResultType, LoadType, Arithmetic, Comparisons
<1>4. Formed(i)
  BY TypeFacts, Operations DEF Formed, Instr, Arithmetic, Comparisons
<1> QED BY <1>1, <1>2, <1>3, <1>4 DEF Fit

LEMMA FitStore ==
  ASSUME NEW v \in Value, NEW a \in Value, a.type = PointerTo(v.type), NEW id \in Nat,
         v.type \in Pointees
  PROVE  /\ Instr("store", "void", <<v, a>>, <<>>, id) \in Fit
         /\ ResultType("store", <<v, a>>) = "void"
<1> DEFINE i == Instr("store", "void", <<v, a>>, <<>>, id)
<1>1. i \in Instruction
  BY DEF Instruction, Instr, Opcodes, Effects, TypeNames
<1>2. OperandsFit(i)
  BY Operations DEF OperandsFit, Types, Instr, Arithmetic, Comparisons
<1>3. ResultType("store", <<v, a>>) = "void"
  BY Operations DEF ResultType, Arithmetic, Comparisons
<1>4. Formed(i)
  BY Operations DEF Formed, Instr, Arithmetic, Comparisons
<1> QED BY <1>1, <1>2, <1>3, <1>4 DEF Fit

\* The address of an element of an array,
LEMMA FitGepArray ==
  ASSUME NEW v \in Value, NEW z \in Value, NEW k \in Value, NEW t \in Arrays,
         v.type = PointerTo(t), z.type = "i32", k.type = "i32", NEW id \in Nat
  PROVE  /\ Instr("gep", PointerTo(ElementOf(t)), <<v, z, k>>, <<>>, id) \in Fit
         /\ ResultType("gep", <<v, z, k>>) = PointerTo(ElementOf(t))
<1> DEFINE i == Instr("gep", PointerTo(ElementOf(t)), <<v, z, k>>, <<>>, id)
<1>1. i \in Instruction
  BY TypeFacts DEF Instruction, Instr, Opcodes, Effects, ElementOf, Pointees, Scalars
<1>2. OperandsFit(i)
  <2>1. Types(i.args) = <<PointerTo(t), "i32", "i32">> /\ i.op = "gep"
    BY DEF Types, Instr
  <2>2. i.type = PointerTo(ElementOf(t))
    BY DEF Instr
  <2> HIDE DEF i
  <2> QED BY <2>1, <2>2, Operations
          DEF OperandsFit, Arithmetic, Comparisons, Arrays, ElementOf, PointerTo
<1>3. ResultType("gep", <<v, z, k>>) = PointerTo(ElementOf(t))
  <2>1. Pointee(v.type) = t
    BY TypeFacts
  <2> QED BY <2>1, Operations DEF ResultType, GepType, Arithmetic, Comparisons
<1>4. Formed(i)
  BY Operations DEF Formed, Instr, Arithmetic, Comparisons
<1> QED BY <1>1, <1>2, <1>3, <1>4 DEF Fit

\* and of one a pointer leads to.
LEMMA FitGepPointer ==
  ASSUME NEW v \in Value, NEW k \in Value, v.type \in {"i32*", "float*"},
         k.type = "i32", NEW id \in Nat
  PROVE  /\ Instr("gep", v.type, <<v, k>>, <<>>, id) \in Fit
         /\ ResultType("gep", <<v, k>>) = v.type
<1> DEFINE i == Instr("gep", v.type, <<v, k>>, <<>>, id)
<1>1. i \in Instruction
  BY DEF Instruction, Instr, Opcodes, Effects, Value
<1>2. OperandsFit(i)
  <2>1. Types(i.args) = <<v.type, "i32">> /\ i.op = "gep" /\ i.type = v.type
    BY DEF Types, Instr
  <2> HIDE DEF i
  <2> QED BY <2>1, Operations DEF OperandsFit, Arithmetic, Comparisons
<1>3. ResultType("gep", <<v, k>>) = v.type
  BY Operations DEF ResultType, GepType, Arithmetic, Comparisons
<1>4. Formed(i)
  BY Operations DEF Formed, Instr, Arithmetic, Comparisons
<1> QED BY <1>1, <1>2, <1>3, <1>4 DEF Fit

LEMMA FitBr ==
  ASSUME NEW args \in Seq(Value), NEW to \in Seq(Nat), NEW id \in Nat,
         \/ args = <<>> /\ Len(to) = 1
         \/ Len(to) = 2 /\ \E c \in Value : c.type = "i1" /\ args = <<c>>
  PROVE  Instr("br", "void", args, to, id) \in Fit
<1> DEFINE i == Instr("br", "void", args, to, id)
<1>1. i \in Instruction
  BY DEF Instruction, Instr, Opcodes, Effects, TypeNames
<1>2. OperandsFit(i)
  <2>1. i.op = "br" /\ i.to = to /\ i.args = args
    BY DEF Instr
  <2>2. Types(args) = IF Len(to) = 2 THEN <<"i1">> ELSE <<>>
    <3>1. ASSUME NEW c \in Value, c.type = "i1" PROVE Types(<<c>>) = <<"i1">>
      BY <3>1 DEF Types
    <3>2. Types(<<>>) = <<>>
      BY DEF Types
    <3>3. CASE args = <<>> /\ Len(to) = 1
      BY <3>2, <3>3
    <3>4. CASE Len(to) = 2 /\ \E c \in Value : c.type = "i1" /\ args = <<c>>
      <4>1. PICK c \in Value : c.type = "i1" /\ args = <<c>>
        BY <3>4
      <4> QED BY <3>1, <3>4, <4>1
    <3> QED BY <3>3, <3>4
  <2> HIDE DEF i
  <2> QED BY <2>1, <2>2, Operations DEF OperandsFit, Arithmetic, Comparisons
<1>3. Formed(i)
  BY Operations DEF Formed, Instr, Arithmetic, Comparisons
<1> QED BY <1>1, <1>2, <1>3 DEF Fit

LEMMA FitRet ==
  ASSUME NEW args \in Seq(Value), NEW id \in Nat,
         Types(args) = IF ReturnType = "void" THEN <<>> ELSE <<ReturnType>>
  PROVE  Instr("ret", "void", args, <<>>, id) \in Fit
<1> DEFINE i == Instr("ret", "void", args, <<>>, id)
<1>1. i \in Instruction
  BY DEF Instruction, Instr, Opcodes, Effects, TypeNames
<1>2. OperandsFit(i)
  BY Operations DEF OperandsFit, Instr, Arithmetic, Comparisons
<1>3. Formed(i)
  BY Operations DEF Formed, Instr, Arithmetic, Comparisons
<1> QED BY <1>1, <1>2, <1>3 DEF Fit

LEMMA FitCall ==
  ASSUME NEW g \in 1 .. Len(Signatures), NEW args \in Seq(Value), NEW id \in Nat,
         Types(args) = Signatures[g].params
  PROVE  Instr("call", Signatures[g].ret, <<FunctionOf(g)>> \o args, <<>>, id) \in Fit
<1> DEFINE f == FunctionOf(g)
           all == <<f>> \o args
           i == Instr("call", Signatures[g].ret, all, <<>>, id)
<1>0. /\ Signatures[g].ret \in TypeNames
      /\ f \in Value /\ f.id = g /\ f.kind = "function"
  <2>1. f \in Value /\ f.id = g /\ f.kind = "function"
    BY ExpressionsAssumption DEF Value, FunctionOf, Kinds, TypeNames
  <2>2. Signatures[g].ret \in Scalars \cup {"void"}
    BY SignatureFacts
  <2> QED BY <2>1, <2>2 DEF TypeNames, Pointees
<1> HIDE DEF f
<1>1. all \in Seq(Value) /\ Len(all) = Len(args) + 1 /\ all[1] = f
      /\ \A k \in 1 .. Len(args) : all[k + 1] = args[k]
  BY <1>0
<1>2. i \in Instruction
  <2> HIDE DEF all
  <2> QED BY <1>0, <1>1 DEF Instruction, Instr, Opcodes, Effects
<1>3. Tail(Types(all)) = Signatures[g].params
  <2>1. /\ Types(all) = [k \in 1 .. Len(args) + 1 |-> all[k].type]
        /\ Types(args) = [k \in 1 .. Len(args) |-> args[k].type]
    <3> HIDE DEF all
    <3> QED BY <1>1 DEF Types
  <2> HIDE DEF all
  <2>2. Tail(Types(all)) = [k \in 1 .. Len(args) |-> all[k + 1].type]
    BY <2>1
  <2> QED BY <2>1, <2>2, <1>1
<1>4. OperandsFit(i)
  <2>1. i.op = "call" /\ i.args = all
    BY DEF Instr
  <2> HIDE DEF i, all
  <2> QED BY <2>1, <1>0, <1>1, <1>3, Operations DEF OperandsFit, Arithmetic, Comparisons
<1>6. Formed(i)
  <2>1. i.op = "call" /\ i.args = all
    BY DEF Instr
  <2>2. 1 \in DOMAIN all
    <3> HIDE DEF all
    <3> QED BY <1>1
  <2> HIDE DEF i, all
  <2> QED BY <2>1, <2>2, <1>0, <1>1, Operations DEF Formed, Arithmetic, Comparisons
<1> HIDE DEF i
<1>5. i \in Fit
  BY <1>2, <1>4, <1>6 DEF Fit
<1> QED BY <1>5 DEF f, i

-----------------------------------------------------------------------------
(* Emitting instructions that fit keeps the code one that fits.            *)

Continues(f, g) == g \in Code /\ Len(g.code) = Len(f.code)

LEMMA CodeFacts ==
  ASSUME NEW f \in Code
  PROVE  /\ f.code \in Seq(Seq(Fit)) /\ f.made \in Nat
         /\ Len(f.code) \in Nat /\ DOMAIN f.code = 1 .. Len(f.code)
         /\ f.made + 1 \in Nat
         /\ Continues(f, f)
  BY DEF Code, CodeShape, Continues

LEMMA CodeForm ==
  ASSUME NEW f \in Code
  PROVE  f = [code |-> f.code, made |-> f.made] /\ Numbered(f)
  BY DEF Code, CodeShape

LEMMA CodeMade ==
  ASSUME NEW code \in Seq(Seq(Fit)), NEW n \in Nat, Numbered([code |-> code, made |-> n])
  PROVE  [code |-> code, made |-> n] \in Code
  BY DEF Code, CodeShape

LEMMA EmitFacts ==
  ASSUME NEW f \in Code, NEW b \in 1 .. Len(f.code), NEW op, NEW type, NEW args,
         NEW to, Instr(op, type, args, to, f.made + 1) \in Fit
  PROVE  /\ Continues(f, Emit(f, b, op, type, args, to))
         /\ Emit(f, b, op, type, args, to).made = f.made + 1
<1> DEFINE i == Instr(op, type, args, to, f.made + 1)
           code == [f.code EXCEPT ![b] = Append(@, i)]
<1>1. Emit(f, b, op, type, args, to) = [code |-> code, made |-> f.made + 1]
  BY DEF Emit, Instr
<1>2. i \in Fit
  OBVIOUS
<1> HIDE DEF i
<1>3. f.code \in Seq(Seq(Fit)) /\ f.made + 1 \in Nat
  BY CodeFacts
<1>4. Append(f.code[b], i) \in Seq(Fit)
  <2>1. f.code[b] \in Seq(Fit)
    BY <1>3
  <2> QED BY <2>1, <1>2
<1>5. code \in Seq(Seq(Fit)) /\ Len(code) = Len(f.code)
  BY <1>3, <1>4
<1>6. Numbered([code |-> code, made |-> f.made + 1])
  <2>1. /\ DOMAIN code = DOMAIN f.code
        /\ \A d \in DOMAIN f.code \ {b} : code[d] = f.code[d]
        /\ code[b] = Append(f.code[b], i)
    BY <1>3
  <2>2. f.code[b] \in Seq(Fit) /\ i.id = f.made + 1
    BY <1>3 DEF i, Instr
  <2> HIDE DEF code
  <2>3. ASSUME NEW k \in DOMAIN code[b]
        PROVE  code[b][k] = i \/ \E j \in DOMAIN f.code[b] : code[b][k] = f.code[b][j]
    <3> DEFINE s == f.code[b]
    <3>1. s \in Seq(Fit) /\ k \in DOMAIN Append(s, i) /\ code[b][k] = Append(s, i)[k]
      BY <2>1, <2>2
    <3> HIDE DEF s
    <3>2. \/ k = Len(s) + 1 /\ Append(s, i)[k] = i
          \/ k \in DOMAIN s /\ Append(s, i)[k] = s[k]
      BY <3>1
    <3> QED BY <3>1, <3>2 DEF s
  <2>4. \A d \in DOMAIN f.code : \A k \in DOMAIN f.code[d] : f.code[d][k].id \in 1 .. f.made
    BY CodeForm DEF Numbered
  <2>5. ASSUME NEW d \in DOMAIN code, NEW k \in DOMAIN code[d]
        PROVE  \/ d = b /\ code[d][k].id = f.made + 1
               \/ \E j \in DOMAIN f.code[d] : code[d][k].id = f.code[d][j].id
    <3>1. CASE d = b
      BY <3>1, <2>2, <2>3
    <3>2. CASE d # b
      BY <3>2, <2>1
    <3> QED BY <3>1, <3>2
  <2>6. f.made \in Nat /\ f.made + 1 \notin 1 .. f.made
        /\ f.made + 1 \in 1 .. f.made + 1 /\ 1 .. f.made \subseteq 1 .. f.made + 1
    BY CodeFacts
  <2>7. ASSUME NEW d \in DOMAIN code, NEW c \in DOMAIN code, NEW k \in DOMAIN code[d],
               NEW j \in DOMAIN code[c]
        PROVE  /\ code[d][k].id \in 1 .. f.made + 1
               /\ code[d][k].id = code[c][j].id => d = c
    <3>1. d \in DOMAIN f.code /\ c \in DOMAIN f.code
      BY <2>1
    <3>2. \A m \in DOMAIN f.code[d], n \in DOMAIN f.code[c] :
            f.code[d][m].id = f.code[c][n].id => d = c
      BY <3>1, CodeForm DEF Numbered
    <3> QED BY <3>1, <3>2, <2>4, <2>5, <2>6
  <2> QED BY <2>7 DEF Numbered
<1> HIDE DEF code
<1>7. [code |-> code, made |-> f.made + 1] \in Code
  BY <1>3, <1>5, <1>6, CodeMade
<1> QED BY <1>1, <1>5, <1>7 DEF Continues

LEMMA CreateFacts ==
  ASSUME NEW f \in Code, NEW b \in 1 .. Len(f.code), NEW op, NEW type, NEW args,
         type = ResultType(op, args), Instr(op, type, args, <<>>, f.made + 1) \in Fit
  PROVE  LET c == Create(f, b, op, args)
         IN  Continues(f, c.fn) /\ c.val \in Value /\ c.val.type = type
<1>1. type \in TypeNames
  BY DEF Fit, Instruction, Instr
<1>2. Result(type, f.made + 1) \in Value /\ Result(type, f.made + 1).type = type
  BY <1>1, CodeFacts DEF Result, Value, Kinds
<1> QED BY <1>2, EmitFacts DEF Create

LEMMA ConvertedFacts ==
  ASSUME NEW f \in Code, NEW b \in 1 .. Len(f.code), NEW v \in Value, NEW t,
         v.type = t \/ (v.type \in Scalars /\ t \in Scalars)
  PROVE  LET c == Converted(f, b, v, t)
         IN  Continues(f, c.fn) /\ c.val \in Value /\ c.val.type = t
<1>1. CASE v.type = t
  BY <1>1, CodeFacts DEF Converted
<1>2. CASE v.type # t /\ v.type \in Scalars /\ t \in Scalars
  <2> DEFINE op == IF v.type = "i32" THEN "sitofp" ELSE "fptosi"
  <2>1. \/ op = "sitofp" /\ v.type = "i32" /\ t = "float"
        \/ op = "fptosi" /\ v.type = "float" /\ t = "i32"
    BY <1>2 DEF Scalars
  <2>2. Converted(f, b, v, t) = Create(f, b, op, <<v>>)
    BY <1>2 DEF Converted
  <2> HIDE DEF op
  <2>3. Instr(op, t, <<v>>, <<>>, f.made + 1) \in Fit /\ t = ResultType(op, <<v>>)
    BY <2>1, FitCast, CodeFacts
  <2> QED BY <2>2, <2>3, CreateFacts
<1> QED BY <1>1, <1>2

LEMMA PromoteFacts ==
  ASSUME NEW f \in Code, NEW b \in 1 .. Len(f.code), NEW l \in Value, NEW r \in Value,
         l.type \in Scalars, r.type \in Scalars
  PROVE  LET p == Promote(f, b, l, r)
         IN  /\ Continues(f, p.fn) /\ p.l \in Value /\ p.r \in Value
             /\ p.l.type = IF p.is_int THEN "i32" ELSE "float"
             /\ p.r.type = p.l.type
<1>1. CASE l.type = r.type
  BY <1>1, CodeFacts DEF Promote, Scalars
<1>2. CASE l.type # r.type
  <2> DEFINE cl == Converted(f, b, l, "float")
             cr == Converted(cl.fn, b, r, "float")
  <2>1. Continues(f, cl.fn) /\ cl.val \in Value /\ cl.val.type = "float"
    BY ConvertedFacts DEF Scalars
  <2>2. cl.fn \in Code /\ b \in 1 .. Len(cl.fn.code)
    BY <2>1 DEF Continues
  <2>3. Promote(f, b, l, r) = [fn |-> cr.fn, l |-> cl.val, r |-> cr.val, is_int |-> FALSE]
    BY <1>2 DEF Promote
  <2> HIDE DEF cl
  <2>4. Continues(cl.fn, cr.fn) /\ cr.val \in Value /\ cr.val.type = "float"
    BY <2>2, ConvertedFacts DEF Scalars
  <2> HIDE DEF cr
  <2> QED BY <2>1, <2>3, <2>4 DEF Continues
<1> QED BY <1>1, <1>2

LEMMA NewBlocksFacts ==
  ASSUME NEW f \in Code, NEW n \in Nat
  PROVE  /\ NewBlocks(f, n) \in Code /\ NewBlocks(f, n).made = f.made
         /\ Len(NewBlocks(f, n).code) = Len(f.code) + n
<1> DEFINE Blocks == Seq(Fit)
           more == [i \in 1 .. n |-> <<>>]
           code == f.code \o more
<1>1. more \in Seq(Blocks) /\ Len(more) = n
  OBVIOUS
<1>2. f.code \in Seq(Blocks) /\ f.made \in Nat
  BY CodeFacts
<1>3. code \in Seq(Blocks) /\ Len(code) = Len(f.code) + n
  <2> HIDE DEF more, Blocks
  <2> QED BY <1>1, <1>2
<1>4. NewBlocks(f, n) = [f EXCEPT !.code = code]
  BY DEF NewBlocks
<1>6. \A d \in DOMAIN code : (d \in DOMAIN f.code /\ code[d] = f.code[d]) \/ code[d] = <<>>
  <2> DEFINE s == f.code
  <2>1. s \in Seq(Blocks) /\ code = s \o more
    BY <1>2
  <2>2. \A i \in 1 .. n : more[i] = <<>>
    OBVIOUS
  <2> HIDE DEF s, more, Blocks, code
  <2>3. /\ \A d \in 1 .. Len(s) + Len(more) :
             (s \o more)[d] = IF d <= Len(s) THEN s[d] ELSE more[d - Len(s)]
        /\ DOMAIN (s \o more) = 1 .. Len(s) + Len(more) /\ DOMAIN s = 1 .. Len(s) /\ Len(s) \in Nat
    <3>1. more \in Seq(Blocks)
      BY <1>1
    <3>2. s \o more \in Seq(Blocks) /\ Len(s \o more) = Len(s) + Len(more)
      BY <2>1, <3>1, ConcatProperties
    <3> QED BY <2>1, <3>1, <3>2, ConcatProperties
  <2>4. \A d \in DOMAIN code : (d \in DOMAIN s /\ code[d] = s[d]) \/ code[d] = <<>>
    BY <1>1, <2>1, <2>2, <2>3
  <2> QED BY <2>4 DEF s
<1> HIDE DEF code, Blocks
<1>5. NewBlocks(f, n) = [code |-> code, made |-> f.made]
  BY <1>4, CodeForm
<1>7. Numbered([code |-> code, made |-> f.made])
  <2>1. \A d \in DOMAIN code : \A k \in DOMAIN code[d] : d \in DOMAIN f.code /\ code[d] = f.code[d]
    BY <1>6
  <2> QED BY <2>1, CodeForm DEF Numbered
<1>8. [code |-> code, made |-> f.made] \in Code
  BY <1>2, <1>3, <1>7, CodeMade DEF Blocks
<1> QED BY <1>3, <1>5, <1>8

LEMMA BranchFacts ==
  ASSUME NEW f \in Code, NEW b \in 1 .. Len(f.code), NEW t \in Nat, NEW e \in Nat
  PROVE  /\ Continues(f, CreateBr(f, b, t))
         /\ \A c \in Value : c.type = "i1" => Continues(f, CreateCondBr(f, b, c, t, e))
<1>1. f.made + 1 \in Nat
  BY CodeFacts
<1>2. Instr("br", "void", <<>>, <<t>>, f.made + 1) \in Fit
  <2>1. <<>> \in Seq(Value) /\ <<t>> \in Seq(Nat) /\ Len(<<t>>) = 1
    OBVIOUS
  <2> QED BY <1>1, <2>1, FitBr
<1>3. ASSUME NEW c \in Value, c.type = "i1"
      PROVE  Instr("br", "void", <<c>>, <<t, e>>, f.made + 1) \in Fit
  <2>1. <<c>> \in Seq(Value) /\ <<t, e>> \in Seq(Nat) /\ Len(<<t, e>>) = 2
    OBVIOUS
  <2> QED BY <1>1, <1>3, <2>1, FitBr
<1> QED BY <1>2, <1>3, EmitFacts DEF CreateBr, CreateCondBr

LEMMA RetFacts ==
  ASSUME NEW f \in Code, NEW b \in 1 .. Len(f.code)
  PROVE  /\ Continues(f, RetDefault(f, b))
         /\ ReturnType = "void" => Continues(f, CreateRet(f, b, <<>>))
         /\ \A v \in Value : ReturnType # "void" /\ v.type = ReturnType
              => Continues(f, CreateRet(f, b, <<v>>))
<1>1. f.made + 1 \in Nat
  BY CodeFacts
<1>2. ReturnType = "void" => Continues(f, CreateRet(f, b, <<>>))
  <2>1. Types(<<>>) = <<>> /\ <<>> \in Seq(Value)
    BY DEF Types
  <2>2. ReturnType = "void" => Instr("ret", "void", <<>>, <<>>, f.made + 1) \in Fit
    BY <1>1, <2>1, FitRet
  <2> QED BY <2>2, EmitFacts DEF CreateRet
<1>3. ASSUME NEW v \in Value, ReturnType # "void", v.type = ReturnType
      PROVE  Continues(f, CreateRet(f, b, <<v>>))
  <2>1. Types(<<v>>) = <<ReturnType>> /\ <<v>> \in Seq(Value)
    BY <1>3 DEF Types
  <2>2. Instr("ret", "void", <<v>>, <<>>, f.made + 1) \in Fit
    BY <1>1, <1>3, <2>1, FitRet
  <2> QED BY <2>2, EmitFacts DEF CreateRet
<1>4. ReturnType # "void" => /\ Constant(ReturnType, 0) \in Value
                            /\ Constant(ReturnType, 0).type = ReturnType
  BY SignatureFacts DEF Constant, Value, Kinds, TypeNames, Pointees
<1> QED BY <1>2, <1>3, <1>4 DEF RetDefault

LEMMA AllocaFacts ==
  ASSUME NEW f \in Code, NEW b \in 1 .. Len(f.code), NEW t \in Pointees
  PROVE  /\ Continues(f, CreateAlloca(f, b, t)) /\ CreateAlloca(f, b, t).made = f.made + 1
         /\ Result(PointerTo(t), f.made + 1) \in Value
         /\ Result(PointerTo(t), f.made + 1).type = PointerTo(t)
<1>1. f.made + 1 \in Nat
  BY CodeFacts
<1>2. Instr("alloca", PointerTo(t), <<>>, <<>>, f.made + 1) \in Fit
  BY <1>1, FitAlloca
<1> QED BY <1>1, <1>2, EmitFacts, TypeFacts DEF CreateAlloca, Result, Value, Kinds

LEMMA CallFacts ==
  ASSUME NEW f \in Code, NEW b \in 1 .. Len(f.code), NEW g \in 1 .. Len(Signatures),
         NEW args \in Seq(Value), Types(args) = Signatures[g].params
  PROVE  /\ Continues(f, CreateCall(f, b, g, args))
         /\ Result(Signatures[g].ret, f.made + 1) \in Value
         /\ Result(Signatures[g].ret, f.made + 1).type = Signatures[g].ret
<1>1. f.made + 1 \in Nat
  BY CodeFacts
<1>2. Instr("call", Signatures[g].ret, <<FunctionOf(g)>> \o args, <<>>, f.made + 1) \in Fit
  BY <1>1, FitCall
<1>3. Signatures[g].ret \in TypeNames
  BY SignatureFacts DEF TypeNames, Pointees
<1> QED BY <1>1, <1>2, <1>3, EmitFacts DEF CreateCall, Result, Value, Kinds

-----------------------------------------------------------------------------
(* The stack of visit functions.  A frame holds what it was given on the   *)
(* way; it promises its caller a value of a type, and needs one of its     *)
(* callee.                                                                 *)

Addresses == {"i32*", "float*"}

Shape == [visit : Visits, want : {"number", "any"} \cup Addresses,
          op : Arithmetic \cup Comparisons, val : Value, flag : BOOLEAN,
          fun : Nat, args : Seq(Value), block : Nat]

ArgumentsFit(frame) ==
  LET params == Signatures[frame.fun].params
  IN  /\ frame.fun \in 1 .. Len(Signatures)
      /\ Len(frame.args) <= Len(params)
      /\ \A k \in 1 .. Len(frame.args) : frame.args[k].type = params[k]
      /\ frame.visit = "argument" => Len(frame.args) < Len(params)

Carries(frame) ==
  /\ frame.visit \in {"store", "right"} => frame.val.type \in Scalars
  /\ frame.visit = "index" => /\ frame.val.type \in Pointers
                              /\ Pointee(frame.val.type) \notin Scalars
  /\ frame.visit \in {"call", "argument"} => ArgumentsFit(frame)
  /\ frame.visit = "return" => ReturnType # "void"

Frame == {frame \in Shape : Carries(frame)}

Yields(frame) ==
  CASE frame.visit = "expression" /\ frame.want = "number"   -> Scalars
    [] frame.visit = "expression" /\ frame.want \in Addresses -> {frame.want}
    [] frame.visit \in {"assign", "store", "left", "right"}   -> Scalars
    [] frame.visit = "index" -> IF frame.flag THEN Addresses ELSE Scalars
    [] frame.visit = "target"                                 -> Addresses
    [] frame.visit \in {"call", "argument"}                   -> {Signatures[frame.fun].ret}
    [] OTHER                                                  -> TypeNames

NextParam(frame) == Signatures[frame.fun].params[Len(frame.args) + 1]

Needs(frame) ==
  CASE frame.visit \in {"condition", "return", "left", "right", "index", "assign"} -> Scalars
    [] frame.visit = "store"    -> Addresses
    [] frame.visit = "argument" -> IF NextParam(frame) \in Scalars THEN Scalars
                                   ELSE {NextParam(frame)}
    [] OTHER                    -> TypeNames

\* A block or the function's body that opened a scope will close it.
Opens(frame) == IF frame.flag /\ frame.visit \in {"declarations", "statements"} THEN 1 ELSE 0

\* What the frames have opened is there to be closed: heights[k] counts the
\* scopes below and in the k-th frame, with the global one.
Nested(s, depth) ==
  \E heights \in [1 .. Len(s) -> Nat \ {0}] :
    /\ \A k \in 1 .. Len(s) :
         heights[k] >= (IF k = 1 THEN 1 ELSE heights[k - 1]) + Opens(s[k])
    /\ s # <<>> => heights[Len(s)] <= depth

Linked(s) ==
  \A k \in 2 .. Len(s) :
    /\ Yields(s[k]) \subseteq Needs(s[k - 1])
    /\ s[k - 1].visit # "target" /\ s[k].visit # "function"

Placed(s, blocks) ==
  \A k \in 1 .. Len(s) : s[k].visit = "then" => s[k].block \in 1 .. blocks

Stack(s, blocks, depth) ==
  s \in Seq(Frame) /\ Linked(s) /\ Placed(s, blocks) /\ Nested(s, depth)

LEMMA LeaveFacts ==
  ASSUME NEW s \in Seq(Frame), s # <<>>
  PROVE  LET r == SubSeq(s, 1, Len(s) - 1)
         IN  /\ r \in Seq(Frame)
             /\ Len(s) \in Nat \ {0} /\ DOMAIN s = 1 .. Len(s)
             /\ Len(r) = Len(s) - 1
             /\ \A i \in 1 .. Len(s) - 1 : r[i] = s[i]
             /\ s[Len(s)] \in Frame
<1>1. Len(s) \in Nat \ {0} /\ DOMAIN s = 1 .. Len(s) /\ s[Len(s)] \in Frame
  OBVIOUS
<1> QED BY <1>1, SubSeqProperties

\* Changing the top frame is leaving it and entering the new one.
LEMMA BecomeIsPush ==
  ASSUME NEW s \in Seq(Frame), s # <<>>, NEW frame \in Frame
  PROVE  [s EXCEPT ![Len(s)] = frame] = Append(SubSeq(s, 1, Len(s) - 1), frame)
<1> DEFINE r == SubSeq(s, 1, Len(s) - 1)
           t == [s EXCEPT ![Len(s)] = frame]
           u == Append(r, frame)
<1>1. /\ r \in Seq(Frame) /\ Len(s) \in Nat \ {0} /\ Len(r) = Len(s) - 1
      /\ \A i \in 1 .. Len(s) - 1 : r[i] = s[i]
  BY LeaveFacts
<1>2. /\ t \in Seq(Frame) /\ Len(t) = Len(s)
      /\ \A i \in 1 .. Len(s) : t[i] = IF i = Len(s) THEN frame ELSE s[i]
  BY <1>1
<1>3. /\ u \in Seq(Frame) /\ Len(u) = Len(s)
      /\ \A i \in 1 .. Len(s) : u[i] = IF i = Len(s) THEN frame ELSE r[i]
  <2> HIDE DEF r
  <2> QED BY <1>1
<1> HIDE DEF r, t, u
<1>4. \A i \in 1 .. Len(s) : t[i] = u[i]
  BY <1>1, <1>2, <1>3
<1>5. t = u
  BY <1>2, <1>3, <1>4, SeqEqual
<1> QED BY <1>5 DEF r, t, u

LEMMA OpensFacts == \A frame : Opens(frame) \in {0, 1}
  BY DEF Opens

\* Leaving the top frame.
LEMMA PopStack ==
  ASSUME NEW s, NEW n \in Nat, NEW d \in Nat, Stack(s, n, d), s # <<>>
  PROVE  LET r == SubSeq(s, 1, Len(s) - 1)
             top == s[Len(s)]
         IN  /\ Stack(r, n, d - Opens(top))
             /\ d - Opens(top) \in Nat \ {0}
             /\ top \in Frame
             /\ r # <<>> => /\ Yields(top) \subseteq Needs(r[Len(r)])
                            /\ r[Len(r)].visit # "target"
                            /\ top.visit # "function"
<1> DEFINE r == SubSeq(s, 1, Len(s) - 1)
           top == s[Len(s)]
           m == Len(s)
           e == d - Opens(top)
<1>0. s \in Seq(Frame)
  BY DEF Stack
<1>1. /\ r \in Seq(Frame) /\ m \in Nat \ {0} /\ Len(r) = m - 1 /\ top \in Frame
      /\ \A i \in 1 .. m - 1 : r[i] = s[i]
  BY <1>0, LeaveFacts
<1>2. PICK h \in [1 .. m -> Nat \ {0}] :
        /\ \A k \in 1 .. m : h[k] >= (IF k = 1 THEN 1 ELSE h[k - 1]) + Opens(s[k])
        /\ h[m] <= d
  BY DEF Stack, Nested
<1>3. e \in Nat \ {0} /\ (m > 1 => h[m - 1] <= e)
  <2>1. h[m] \in Nat /\ Opens(top) \in {0, 1} /\ (m > 1 => h[m - 1] \in Nat \ {0})
    BY <1>1, OpensFacts
  <2>2. h[m] >= (IF m = 1 THEN 1 ELSE h[m - 1]) + Opens(top)
    BY <1>1, <1>2
  <2>3. m \in Nat \ {0} /\ h[m] <= d
    BY <1>1, <1>2
  <2> HIDE DEF top, m
  <2> QED BY <2>1, <2>2, <2>3
<1> HIDE DEF r, e
<1>4. Nested(r, e)
  <2> DEFINE g == [k \in 1 .. m - 1 |-> h[k]]
  <2>1. g \in [1 .. Len(r) -> Nat \ {0}] /\ \A k \in 1 .. m - 1 : g[k] = h[k]
    BY <1>1
  <2> HIDE DEF g
  <2>2. \A k \in 1 .. Len(r) : g[k] >= (IF k = 1 THEN 1 ELSE g[k - 1]) + Opens(r[k])
    <3> SUFFICES ASSUME NEW k \in 1 .. m - 1
                 PROVE  g[k] >= (IF k = 1 THEN 1 ELSE g[k - 1]) + Opens(r[k])
      BY <1>1
    <3>1. h[k] >= (IF k = 1 THEN 1 ELSE h[k - 1]) + Opens(s[k])
      BY <1>1, <1>2
    <3> QED BY <1>1, <2>1, <3>1
  <2>3. r # <<>> => g[Len(r)] <= e
    BY <1>1, <1>3, <2>1
  <2> QED BY <2>1, <2>2, <2>3 DEF Nested
<1>5. Stack(r, n, e)
  <2>1. Linked(s) /\ Placed(s, n)
    BY DEF Stack
  <2>2. Linked(r)
    <3> SUFFICES ASSUME NEW k \in 2 .. m - 1
                 PROVE  /\ Yields(r[k]) \subseteq Needs(r[k - 1])
                        /\ r[k - 1].visit # "target" /\ r[k].visit # "function"
      BY <1>1 DEF Linked
    <3>1. r[k] = s[k] /\ r[k - 1] = s[k - 1] /\ k \in 2 .. m
      BY <1>1
    <3> QED BY <2>1, <3>1 DEF Linked
  <2>3. Placed(r, n)
    BY <1>1, <2>1 DEF Placed
  <2> QED BY <1>1, <1>4, <2>2, <2>3 DEF Stack
<1>6. r # <<>> => /\ Yields(top) \subseteq Needs(r[Len(r)])
                  /\ r[Len(r)].visit # "target" /\ top.visit # "function"
  <2> SUFFICES ASSUME r # <<>>
               PROVE  /\ Yields(top) \subseteq Needs(r[Len(r)])
                      /\ r[Len(r)].visit # "target" /\ top.visit # "function"
    OBVIOUS
  <2>1. m \in 2 .. Len(s) /\ r[Len(r)] = s[m - 1] /\ Linked(s)
    BY <1>1 DEF Stack
  <2> QED BY <2>1 DEF Linked
<1> QED BY <1>1, <1>3, <1>5, <1>6 DEF r, e

\* Entering a frame.
LEMMA PushStack ==
  ASSUME NEW r, NEW n \in Nat, NEW d \in Nat \ {0}, Stack(r, n, d),
         NEW frame \in Frame,
         frame.visit = "then" => frame.block \in 1 .. n,
         r # <<>> => /\ Yields(frame) \subseteq Needs(r[Len(r)])
                     /\ r[Len(r)].visit # "target" /\ frame.visit # "function"
  PROVE  LET s == Append(r, frame)
         IN  /\ Stack(s, n, d + Opens(frame))
             /\ s # <<>> /\ s[Len(s)] = frame
<1> DEFINE s == Append(r, frame)
           m == Len(r)
           e == d + Opens(frame)
<1>0. r \in Seq(Frame)
  BY DEF Stack
<1>1. /\ s \in Seq(Frame) /\ m \in Nat /\ Len(s) = m + 1 /\ s[m + 1] = frame
      /\ \A i \in 1 .. m : s[i] = r[i]
      /\ s # <<>> /\ (m # 0 => r # <<>>)
  <2>1. frame \in Frame /\ m \in Nat /\ (m # 0 => r # <<>>)
    BY <1>0
  <2>2. /\ s \in Seq(Frame) /\ Len(s) = m + 1 /\ s[m + 1] = frame
        /\ \A i \in 1 .. m : s[i] = r[i]
    BY <1>0, <2>1
  <2>3. s # <<>>
    <3> HIDE DEF s
    <3> QED BY <2>1, <2>2
  <2> QED BY <2>1, <2>2, <2>3
<1>2. PICK h \in [1 .. m -> Nat \ {0}] :
        /\ \A k \in 1 .. m : h[k] >= (IF k = 1 THEN 1 ELSE h[k - 1]) + Opens(r[k])
        /\ m # 0 => h[m] <= d
  BY <1>1 DEF Stack, Nested
<1>3. e \in Nat \ {0}
  BY OpensFacts
<1> HIDE DEF s
<1>4. Nested(s, e)
  <2> DEFINE g == [k \in 1 .. m + 1 |-> IF k = m + 1 THEN e ELSE h[k]]
  <2>1. /\ g \in [1 .. Len(s) -> Nat \ {0}] /\ g[m + 1] = e
        /\ \A k \in 1 .. m : g[k] = h[k]
    BY <1>1, <1>3
  <2> HIDE DEF g
  <2>2. \A k \in 1 .. Len(s) : g[k] >= (IF k = 1 THEN 1 ELSE g[k - 1]) + Opens(s[k])
    <3>1. ASSUME NEW k \in 1 .. m
          PROVE  g[k] >= (IF k = 1 THEN 1 ELSE g[k - 1]) + Opens(s[k])
      <4>1. h[k] >= (IF k = 1 THEN 1 ELSE h[k - 1]) + Opens(r[k])
        BY <1>1, <1>2
      <4> QED BY <1>1, <2>1, <4>1
    <3>2. g[m + 1] >= (IF m + 1 = 1 THEN 1 ELSE g[m]) + Opens(frame)
      <4>1. Opens(frame) \in {0, 1} /\ (m # 0 => h[m] \in Nat)
        BY <1>1, OpensFacts
      <4> QED BY <1>1, <1>2, <2>1, <4>1
    <3> QED BY <1>1, <3>1, <3>2
  <2>3. g[Len(s)] <= e
    BY <1>1, <1>3, <2>1
  <2> QED BY <2>1, <2>2, <2>3 DEF Nested
<1>5. Linked(s)
  <2> SUFFICES ASSUME NEW k \in 2 .. m + 1
               PROVE  /\ Yields(s[k]) \subseteq Needs(s[k - 1])
                      /\ s[k - 1].visit # "target" /\ s[k].visit # "function"
    BY <1>1 DEF Linked
  <2>1. s[k - 1] = r[k - 1] /\ m # 0
    BY <1>1
  <2>2. CASE k = m + 1
    BY <1>1, <2>1, <2>2
  <2>3. CASE k # m + 1
    <3>1. k \in 2 .. m /\ s[k] = r[k]
      BY <1>1, <2>3
    <3> QED BY <2>1, <3>1 DEF Stack, Linked
  <2> QED BY <2>2, <2>3
<1>6. Placed(s, n)
  BY <1>1 DEF Stack, Placed
<1>7. Stack(s, n, e)
  BY <1>1, <1>4, <1>5, <1>6 DEF Stack
<1> QED BY <1>1, <1>7 DEF s

\* More blocks or deeper scopes do no harm.
LEMMA StackMonotone ==
  ASSUME NEW s, NEW n \in Nat, NEW d \in Nat, Stack(s, n, d),
         NEW p \in Nat, p >= n, NEW e \in Nat, e >= d
  PROVE  Stack(s, p, e)
<1>1. Nested(s, e)
  <2>1. PICK h \in [1 .. Len(s) -> Nat \ {0}] :
          /\ \A k \in 1 .. Len(s) :
               h[k] >= (IF k = 1 THEN 1 ELSE h[k - 1]) + Opens(s[k])
          /\ s # <<>> => h[Len(s)] <= d
    BY DEF Stack, Nested
  <2>2. s # <<>> => h[Len(s)] <= e
    <3>1. s # <<>> => h[Len(s)] \in Nat
      BY DEF Stack
    <3> QED BY <2>1, <3>1
  <2> QED BY <2>1, <2>2 DEF Nested
<1>2. Placed(s, p)
  BY DEF Stack, Placed
<1> QED BY <1>1, <1>2 DEF Stack

-----------------------------------------------------------------------------
(* The symbol table: names stand for functions that exist and for          *)
(* addresses, and neg_idx_except for the function of that name.            *)

Bindable == {v \in Value : \/ v.kind = "function" /\ v.id \in 1 .. Len(Signatures)
                           \/ v.kind \notin {"function", "none"} /\ v.type \in Pointers}
Maps == UNION {[S -> Bindable] : S \in SUBSET Names}

NegName == FunctionNames[NegIdxExcept]
Symbols(tables) ==
  /\ tables \in Seq(Maps)
  /\ \A k \in 1 .. Len(tables) :
       NegName \in DOMAIN tables[k] => tables[k][NegName] = FunctionOf(NegIdxExcept)

Tables ==
  /\ Symbols(inner)
  /\ functions \in 0 .. CurrentFunction
  /\ functions >= NegIdxExcept => inner # <<>> /\ NegName \in DOMAIN inner[1]

LEMMA MapFacts ==
  ASSUME NEW m \in Maps
  PROVE  /\ DOMAIN m \subseteq Names
         /\ \A n \in DOMAIN m : m[n] \in Bindable
         /\ m = [n \in DOMAIN m |-> m[n]]
  BY DEF Maps

LEMMA EnterSymbols ==
  ASSUME Symbols(inner), Enter
  PROVE  /\ Symbols(inner') /\ Len(inner') = Len(inner) + 1 /\ inner' # <<>>
         /\ inner # <<>> => inner'[1] = inner[1]
<1> DEFINE none == [n \in {} |-> Unbound]
<1>1. none \in Maps /\ DOMAIN none = {}
  BY DEF Maps
<1> HIDE DEF none
<1>2. inner' = Append(inner, none) /\ inner \in Seq(Maps)
  BY DEF Enter, none, Symbols
<1>3. /\ inner' \in Seq(Maps) /\ Len(inner') = Len(inner) + 1 /\ Len(inner) \in Nat
      /\ \A k \in 1 .. Len(inner) : inner'[k] = inner[k]
      /\ inner'[Len(inner) + 1] = none
  BY <1>1, <1>2
<1>4. \A k \in 1 .. Len(inner') :
        NegName \in DOMAIN inner'[k] => inner'[k][NegName] = FunctionOf(NegIdxExcept)
  BY <1>1, <1>3 DEF Symbols
<1> QED BY <1>2, <1>3, <1>4 DEF Symbols

LEMMA ExitSymbols ==
  ASSUME Symbols(inner), Exit, Len(inner) >= 2
  PROVE  /\ Symbols(inner') /\ Len(inner') = Len(inner) - 1 /\ inner' # <<>>
         /\ inner'[1] = inner[1]
<1>1. inner \in Seq(Maps) /\ Len(inner) \in Nat
  BY DEF Symbols
<1>2. inner' = SubSeq(inner, 1, Len(inner) - 1)
  BY DEF Exit
<1>3. /\ inner' \in Seq(Maps) /\ Len(inner') = Len(inner) - 1
      /\ \A k \in 1 .. Len(inner) - 1 : inner'[k] = inner[k]
  BY <1>1, <1>2, SubSeqProperties
<1>4. \A k \in 1 .. Len(inner') :
        NegName \in DOMAIN inner'[k] => inner'[k][NegName] = FunctionOf(NegIdxExcept)
  BY <1>1, <1>3 DEF Symbols
<1> QED BY <1>1, <1>3, <1>4 DEF Symbols

LEMMA PushSymbols ==
  ASSUME Symbols(inner), NEW n \in Names, NEW v \in Bindable, Push(n, v),
         \/ n # NegName \/ v = FunctionOf(NegIdxExcept)
         \/ Len(inner) = 1 /\ NegName \in DOMAIN inner[1]
  PROVE  /\ Symbols(inner') /\ Len(inner') = Len(inner) /\ inner' # <<>>
         /\ inner # <<>> => DOMAIN inner[1] \subseteq DOMAIN inner'[1]
         /\ Len(inner) = 1 => n \in DOMAIN inner'[1]
<1> DEFINE top == inner[Len(inner)]
           map == Inserted(top, n, v)
<1>1. inner \in Seq(Maps) /\ Len(inner) \in Nat \ {0} /\ top \in Maps
  BY DEF Symbols, Push
<1>2. /\ DOMAIN map = DOMAIN top \cup {n}
      /\ \A m \in DOMAIN map : map[m] = IF m \in DOMAIN top THEN top[m] ELSE v
  BY DEF Inserted
<1>3. map \in Maps
  <2>1. map \in [DOMAIN top \cup {n} -> Bindable]
    <3> HIDE DEF top, Bindable
    <3> QED BY <1>1, MapFacts DEF Inserted
  <2>2. DOMAIN top \cup {n} \in SUBSET Names
    <3> HIDE DEF top, Bindable
    <3> QED BY <1>1, MapFacts
  <2> QED BY <2>1, <2>2 DEF Maps
<1>4. inner' = [inner EXCEPT ![Len(inner)] = map]
  BY DEF Push
<1> HIDE DEF map
<1>5. /\ inner' \in Seq(Maps) /\ Len(inner') = Len(inner)
      /\ \A k \in 1 .. Len(inner) : inner'[k] = IF k = Len(inner) THEN map ELSE inner[k]
  BY <1>1, <1>3, <1>4
<1>6. ASSUME NEW k \in 1 .. Len(inner), NegName \in DOMAIN inner'[k]
      PROVE  inner'[k][NegName] = FunctionOf(NegIdxExcept)
  <2>1. CASE k # Len(inner)
    BY <1>5, <1>6, <2>1 DEF Symbols
  <2>2. CASE k = Len(inner) /\ NegName \in DOMAIN top
    BY <1>1, <1>2, <1>5, <1>6, <2>2 DEF Symbols
  <2>3. CASE k = Len(inner) /\ NegName \notin DOMAIN top
    BY <1>1, <1>2, <1>5, <1>6, <2>3
  <2> QED BY <2>1, <2>2, <2>3
<1> QED BY <1>1, <1>2, <1>5, <1>6 DEF Symbols

LEMMA FindFacts ==
  ASSUME Tables, NEW n
  PROVE  /\ Find(n) # Unbound => Find(n) \in Bindable
         /\ functions >= NegIdxExcept => Find(NegName) = FunctionOf(NegIdxExcept)
<1>0. inner \in Seq(Maps) /\ Len(inner) \in Nat /\ DOMAIN inner = 1 .. Len(inner)
  BY DEF Tables, Symbols
<1>1. ASSUME NEW m, Binders(m) # {}
      PROVE  LastBinder(m) \in 1 .. Len(inner) /\ m \in DOMAIN inner[LastBinder(m)]
  <2>1. Binders(m) \in SUBSET (1 .. Len(inner))
    BY <1>0 DEF Binders
  <2>2. Last(Binders(m)) \in Binders(m)
    BY <1>0, <1>1, <2>1, LastIsGreatest
  <2> QED BY <1>0, <2>2 DEF Last, LastBinder, Binders
<1>2. Find(n) # Unbound => Find(n) \in Bindable
  <2> SUFFICES ASSUME Find(n) # Unbound PROVE Find(n) \in Bindable
    OBVIOUS
  <2>1. Binders(n) # {} /\ Find(n) = inner[LastBinder(n)][n]
    BY DEF Find
  <2>2. inner[LastBinder(n)] \in Maps /\ n \in DOMAIN inner[LastBinder(n)]
    BY <1>0, <1>1, <2>1
  <2> QED BY <2>1, <2>2, MapFacts
<1>3. functions >= NegIdxExcept => Find(NegName) = FunctionOf(NegIdxExcept)
  <2> SUFFICES ASSUME functions >= NegIdxExcept PROVE Find(NegName) = FunctionOf(NegIdxExcept)
    OBVIOUS
  <2>1. 1 \in Binders(NegName)
    BY <1>0 DEF Tables, Binders
  <2>2. Find(NegName) = inner[LastBinder(NegName)][NegName]
    BY <2>1 DEF Find
  <2> QED BY <1>1, <2>1, <2>2 DEF Tables, Symbols
<1> QED BY <1>2, <1>3

-----------------------------------------------------------------------------
(* The invariant, and what leaving, changing and calling a visit function  *)
(* must bring to keep it.                                                  *)

Inv ==
  /\ fn \in Code /\ Tables
  /\ Stack(visits, Len(fn.code), Len(inner))
  /\ tmp_val \in Value
  /\ require_lvalue \in BOOLEAN /\ (require_lvalue <=> InVisit("target"))
  /\ visits # <<>> => /\ tmp_val.type \in Needs(Top)
                      /\ insert \in 1 .. Len(fn.code)
                      /\ functions = CurrentFunction

\* A step inside the function visited.
Goes(grown) ==
  /\ fn' \in Code /\ Len(fn'.code) >= Len(fn.code) /\ insert' \in 1 .. Len(fn'.code)
  /\ tmp_val' \in Value
  /\ functions' = functions /\ Tables' /\ Len(inner') >= Len(inner) + grown

LEMMA InvFacts ==
  ASSUME Inv
  PROVE  /\ fn \in Code /\ Len(fn.code) \in Nat /\ Len(inner) \in Nat
         /\ inner \in Seq(Maps) /\ visits \in Seq(Frame)
         /\ visits # <<>> => Top \in Frame
  BY CodeFacts DEF Inv, Tables, Symbols, Stack, Top

LEMMA GoesFacts ==
  ASSUME Inv, NEW grown \in Int, Goes(grown)
  PROVE  /\ Len(fn'.code) \in Nat /\ Len(inner') \in Nat
         /\ Len(fn'.code) >= Len(fn.code) /\ Len(inner') >= Len(inner) + grown
<1>1. fn' \in Code /\ inner' \in Seq(Maps)
  BY DEF Goes, Tables, Symbols
<1>2. Len(fn'.code) \in Nat
  BY <1>1, CodeFacts
<1>3. Len(inner') \in Nat
  BY <1>1
<1> QED BY <1>2, <1>3 DEF Goes

LEMMA Returned ==
  ASSUME Inv, visits # <<>>, visits' = Leave, Goes(0 - Opens(Top)),
         require_lvalue' = FALSE, tmp_val'.type \in Yields(Top)
  PROVE  Inv'
<1> DEFINE n == Len(fn.code)
           d == Len(inner)
           p == Len(fn'.code)
           e == Len(inner')
<1>1. n \in Nat /\ d \in Nat /\ p \in Nat /\ e \in Nat /\ p >= n /\ e >= d - Opens(Top)
  <2>1. 0 - Opens(Top) \in Int /\ Opens(Top) \in Int
    BY OpensFacts
  <2> QED BY <2>1, InvFacts, GoesFacts
<1>2. Stack(visits, n, d)
  BY DEF Inv
<1>3. /\ Stack(visits', n, d - Opens(Top)) /\ d - Opens(Top) \in Nat \ {0}
      /\ visits' # <<>> => /\ Yields(Top) \subseteq Needs(Top')
                           /\ Top'.visit # "target"
  BY <1>1, <1>2, PopStack DEF Leave, Top
<1>4. Stack(visits', p, e)
  BY <1>1, <1>3, StackMonotone
<1> QED BY <1>3, <1>4 DEF Inv, Goes, InVisit

LEMMA Became ==
  ASSUME Inv, visits # <<>>, NEW frame \in Frame, visits' = Become(frame),
         Goes(Opens(frame) - Opens(Top)), require_lvalue' = FALSE,
         frame.visit \notin {"function", "target", "then"},
         Yields(frame) \subseteq Yields(Top), tmp_val'.type \in Needs(frame)
  PROVE  Inv'
<1> DEFINE n == Len(fn.code)
           d == Len(inner)
           p == Len(fn'.code)
           e == Len(inner')
<1>1. /\ n \in Nat /\ d \in Nat /\ p \in Nat /\ e \in Nat /\ p >= n
      /\ e >= d - Opens(Top) + Opens(frame) /\ Opens(frame) \in Nat /\ Opens(Top) \in Nat
  <2>1. /\ Opens(frame) - Opens(Top) \in Int
        /\ Opens(frame) \in Nat /\ Opens(Top) \in Nat
    BY OpensFacts
  <2> QED BY <2>1, InvFacts, GoesFacts
<1>2. Stack(visits, n, d) /\ visits \in Seq(Frame)
  BY DEF Inv, Stack
<1>3. /\ Stack(Leave, n, d - Opens(Top)) /\ d - Opens(Top) \in Nat \ {0}
      /\ Leave # <<>> => /\ Yields(Top) \subseteq Needs(Leave[Len(Leave)])
                         /\ Leave[Len(Leave)].visit # "target"
  BY <1>1, <1>2, PopStack DEF Leave, Top
<1>4. visits' = Append(Leave, frame)
  BY <1>2, BecomeIsPush DEF Become, Leave
<1>5. /\ Stack(visits', n, d - Opens(Top) + Opens(frame))
      /\ visits' # <<>> /\ Top' = frame
  <2> DEFINE c == d - Opens(Top)
             r == Leave
  <2>1. c \in Nat \ {0} /\ Stack(r, n, c)
    BY <1>3
  <2>2. /\ frame.visit = "then" => frame.block \in 1 .. n
        /\ r # <<>> => /\ Yields(frame) \subseteq Needs(r[Len(r)])
                       /\ r[Len(r)].visit # "target" /\ frame.visit # "function"
    BY <1>3
  <2> HIDE DEF n, c, r
  <2>3. /\ Stack(Append(r, frame), n, c + Opens(frame)) /\ Append(r, frame) # <<>>
        /\ Append(r, frame)[Len(Append(r, frame))] = frame
    BY <1>1, <2>1, <2>2, PushStack
  <2> QED BY <1>4, <2>3 DEF c, r, Top
<1>6. Stack(visits', p, e)
  BY <1>1, <1>3, <1>5, StackMonotone
<1> QED BY <1>5, <1>6 DEF Inv, Goes, InVisit

LEMMA Called ==
  ASSUME Inv, visits # <<>>, NEW frame \in Frame, NEW child \in Frame,
         visits' = Call(frame, child), Goes(Opens(frame) - Opens(Top)),
         frame.visit \notin {"function", "target"},
         frame.visit = "then" => frame.block \in 1 .. Len(fn'.code),
         child.visit \notin {"function", "then"},
         require_lvalue' = (child.visit = "target"),
         Yields(frame) \subseteq Yields(Top), Yields(child) \subseteq Needs(frame),
         Needs(child) = TypeNames, Opens(child) = 0
  PROVE  Inv'
<1> DEFINE n == Len(fn.code)
           d == Len(inner)
           p == Len(fn'.code)
           e == Len(inner')
<1>1. /\ n \in Nat /\ d \in Nat /\ p \in Nat /\ e \in Nat /\ p >= n
      /\ e >= d - Opens(Top) + Opens(frame) /\ Opens(frame) \in Nat /\ Opens(Top) \in Nat
  <2>1. /\ Opens(frame) - Opens(Top) \in Int
        /\ Opens(frame) \in Nat /\ Opens(Top) \in Nat
    BY OpensFacts
  <2> QED BY <2>1, InvFacts, GoesFacts
<1>2. Stack(visits, n, d) /\ visits \in Seq(Frame)
  BY DEF Inv, Stack
<1>3. /\ Stack(Leave, n, d - Opens(Top)) /\ d - Opens(Top) \in Nat \ {0}
      /\ Leave # <<>> => /\ Yields(Top) \subseteq Needs(Leave[Len(Leave)])
                         /\ Leave[Len(Leave)].visit # "target"
  BY <1>1, <1>2, PopStack DEF Leave, Top
<1>4. Stack(Leave, p, d - Opens(Top))
  <2> DEFINE c == d - Opens(Top)
  <2>1. Stack(Leave, n, c) /\ c \in Nat
    BY <1>3
  <2> HIDE DEF n, c, p
  <2>2. Stack(Leave, p, c)
    BY <1>1, <2>1, StackMonotone
  <2> QED BY <2>2 DEF c
<1>5. Become(frame) = Append(Leave, frame) /\ visits' = Append(Become(frame), child)
  BY <1>2, BecomeIsPush DEF Become, Leave, Call
<1>6. LET s == Become(frame)
      IN  /\ Stack(s, p, d - Opens(Top) + Opens(frame))
          /\ s # <<>> /\ s[Len(s)] = frame
  <2> DEFINE c == d - Opens(Top)
             r == Leave
  <2>1. c \in Nat \ {0} /\ Stack(r, p, c)
    BY <1>3, <1>4
  <2>2. frame.visit = "then" => frame.block \in 1 .. p
    OBVIOUS
  <2>3. r # <<>> => /\ Yields(frame) \subseteq Needs(r[Len(r)])
                    /\ r[Len(r)].visit # "target" /\ frame.visit # "function"
    BY <1>3
  <2> HIDE DEF p, c, r
  <2>4. /\ Stack(Append(r, frame), p, c + Opens(frame)) /\ Append(r, frame) # <<>>
        /\ Append(r, frame)[Len(Append(r, frame))] = frame
    BY <1>1, <2>1, <2>2, <2>3, PushStack
  <2> QED BY <1>5, <2>4 DEF c, r
<1>7. Stack(Become(frame), p, e) /\ e \in Nat \ {0}
  BY <1>1, <1>3, <1>6, StackMonotone
<1>8. Stack(visits', p, e + Opens(child)) /\ visits' # <<>> /\ Top' = child
  <2> DEFINE s == Become(frame)
  <2>1. /\ Stack(s, p, e) /\ s[Len(s)] = frame /\ frame.visit # "target"
        /\ Yields(child) \subseteq Needs(frame)
        /\ child.visit # "function" /\ child.visit # "then"
    BY <1>6, <1>7
  <2> HIDE DEF s, e, p
  <2>2. /\ Stack(Append(s, child), p, e + Opens(child)) /\ Append(s, child) # <<>>
        /\ Append(s, child)[Len(Append(s, child))] = child
    BY <1>1, <1>7, <2>1, PushStack
  <2> QED BY <1>5, <2>2 DEF s, Top
<1>9. Stack(visits', p, e)
  BY <1>1, <1>8
<1> QED BY <1>8, <1>9 DEF Inv, Goes, InVisit, Value

-----------------------------------------------------------------------------
(* Facts for the actions: frames, and steps that leave most things alone.  *)

LEMMA VisitFacts ==
  ASSUME NEW v \in Visits
  PROVE  /\ Visit(v) \in Shape /\ Visit(v).visit = v /\ Visit(v).flag = FALSE
         /\ Visit(v).want = "number" /\ Visit(v).args = <<>>
         /\ Opens(Visit(v)) = 0
         /\ v \notin {"store", "right", "index", "call", "argument", "return"}
              => Visit(v) \in Frame
<1>1. NoValue \in Value
  BY DEF NoValue, Value, Kinds, TypeNames
<1>2. <<>> \in Seq(Value)
  OBVIOUS
<1> QED BY <1>1, <1>2 DEF Visit, Shape, Frame, Carries, Opens, Arithmetic

LEMMA ExpressionFacts ==
  ASSUME NEW w \in {"number", "any"} \cup Addresses
  PROVE  /\ Expression(w) \in Frame /\ Expression(w).visit = "expression"
         /\ Needs(Expression(w)) = TypeNames /\ Opens(Expression(w)) = 0
         /\ Yields(Expression(w)) = IF w = "number" THEN Scalars
                                    ELSE IF w = "any" THEN TypeNames ELSE {w}
<1>1. "expression" \in Visits
  BY DEF Visits
<1>2. Visit("expression") \in Shape /\ Visit("expression").visit = "expression"
      /\ Visit("expression").flag = FALSE
  BY <1>1, VisitFacts
<1>3. /\ Expression(w) \in Shape /\ Expression(w).visit = "expression"
      /\ Expression(w).want = w /\ Expression(w).flag = FALSE
  BY <1>2 DEF Expression, Shape
<1> HIDE DEF Expression
<1> QED BY <1>3 DEF Frame, Carries, Needs, Yields, Opens, Addresses

\* The visits that hand nothing to their caller.
Silent == {"function", "body", "declarations", "statements", "statement",
           "then", "condition", "return"}

LEMMA YieldsFacts ==
  ASSUME NEW frame \in Frame
  PROVE  /\ Yields(frame) \subseteq TypeNames
         /\ frame.visit \in Silent => Yields(frame) = TypeNames
         /\ frame.visit \in Silent \ {"condition", "return"} => Needs(frame) = TypeNames
<1>1. frame.visit \in {"call", "argument"} => Signatures[frame.fun].ret \in TypeNames
  BY SignatureFacts DEF Frame, Carries, ArgumentsFit, TypeNames, Pointees
<1>2. Scalars \subseteq TypeNames /\ Addresses \subseteq TypeNames
  BY DEF Scalars, Addresses, TypeNames, Pointees
<1> QED BY <1>1, <1>2 DEF Yields, Needs, Silent

LEMMA TopFacts ==
  ASSUME Inv, visits # <<>>
  PROVE  /\ Top \in Frame /\ Top \in Shape /\ Carries(Top)
         /\ Len(inner) - Opens(Top) \in Nat \ {0} /\ Len(inner) \in Nat
         /\ Top.visit = "function" => Leave = <<>>
         /\ tmp_val.type \in TypeNames
         /\ ~InVisit("target") => require_lvalue = FALSE
<1>1. Stack(visits, Len(fn.code), Len(inner)) /\ Len(fn.code) \in Nat /\ Len(inner) \in Nat
  BY InvFacts DEF Inv
<1>2. /\ Len(inner) - Opens(Top) \in Nat \ {0} /\ Top \in Frame
      /\ Leave # <<>> => Top.visit # "function"
  BY <1>1, PopStack DEF Top, Leave
<1> QED BY <1>1, <1>2 DEF Inv, Frame, Value

LEMMA StayedGoes ==
  ASSUME Inv, visits # <<>>, Continues(fn, fn'), insert' = insert,
         tmp_val' \in Value, functions' = functions, inner' = inner
  PROVE  Goes(0)
<1>1. Len(inner') >= Len(inner) + 0
  BY InvFacts
<1>2. Len(fn'.code) >= Len(fn.code)
  BY InvFacts DEF Continues
<1> QED BY <1>1, <1>2 DEF Inv, Goes, Continues, Tables, Symbols

LEMMA SameGoes ==
  ASSUME Inv, visits # <<>>, UNCHANGED <<fn, insert, tmp_val, functions, inner>>
  PROVE  Goes(0)
<1>1. Continues(fn, fn') /\ tmp_val' \in Value
  BY CodeFacts DEF Inv
<1> QED BY <1>1, StayedGoes

LEMMA EmptyStack == \A n, d : Stack(<<>>, n, d)
<1> SUFFICES ASSUME NEW n, NEW d PROVE Stack(<<>>, n, d)
  OBVIOUS
<1>1. <<>> \in Seq(Frame) /\ Len(<<>>) = 0
  OBVIOUS
<1>2. Linked(<<>>) /\ Placed(<<>>, n)
  BY <1>1 DEF Linked, Placed
<1>3. Nested(<<>>, d)
  <2>1. [k \in {} |-> 1] \in [1 .. 0 -> Nat \ {0}]
    OBVIOUS
  <2> QED BY <1>1, <2>1 DEF Nested
<1> QED BY <1>1, <1>2, <1>3 DEF Stack

LEMMA Outside ==
  ASSUME Inv, visits = <<>> \/ ~InVisit("target"), visits' = <<>>, fn' \in Code, Tables',
         UNCHANGED <<tmp_val, require_lvalue>>
  PROVE  Inv'
<1>1. Stack(visits', Len(fn'.code), Len(inner'))
  BY EmptyStack
<1>2. ~InVisit("target") /\ ~InVisit("target")'
  BY DEF InVisit
<1> QED BY <1>1, <1>2 DEF Inv

LEMMA Stayed ==
  ASSUME Inv, visits # <<>>, visits' = visits, Goes(0), UNCHANGED <<tmp_val, require_lvalue>>
  PROVE  Inv'
<1>1. /\ Len(fn'.code) \in Nat /\ Len(inner') \in Nat
      /\ Len(fn'.code) >= Len(fn.code) /\ Len(inner') >= Len(inner)
  BY GoesFacts, InvFacts
<1>2. Stack(visits', Len(fn'.code), Len(inner'))
  BY <1>1, InvFacts, StackMonotone DEF Inv
<1>3. Top' = Top
  BY DEF Top
<1> QED BY <1>2, <1>3 DEF Inv, Goes, InVisit

\* The same for frames that open no scope, over steps that enter none.
LEMMA BecamePlain ==
  ASSUME Inv, visits # <<>>, NEW frame \in Frame, visits' = Become(frame), Goes(0),
         Opens(frame) = Opens(Top), require_lvalue' = FALSE,
         frame.visit \notin {"function", "target", "then"},
         Yields(frame) \subseteq Yields(Top), tmp_val'.type \in Needs(frame)
  PROVE  Inv'
<1>1. Opens(frame) - Opens(Top) = 0
  BY OpensFacts
<1>2. Goes(Opens(frame) - Opens(Top))
  BY <1>1
<1> QED BY <1>2, Became

LEMMA CalledPlain ==
  ASSUME Inv, visits # <<>>, NEW frame \in Frame, NEW child \in Frame,
         visits' = Call(frame, child), Goes(0), Opens(frame) = Opens(Top),
         frame.visit \notin {"function", "target"},
         frame.visit = "then" => frame.block \in 1 .. Len(fn'.code),
         child.visit \notin {"function", "then"},
         require_lvalue' = (child.visit = "target"),
         Yields(frame) \subseteq Yields(Top), Yields(child) \subseteq Needs(frame),
         Needs(child) = TypeNames, Opens(child) = 0
  PROVE  Inv'
<1>1. Opens(frame) - Opens(Top) = 0
  BY OpensFacts
<1>2. Goes(Opens(frame) - Opens(Top))
  BY <1>1
<1> QED BY <1>2, Called

LEMMA ReturnedPlain ==
  ASSUME Inv, visits # <<>>, visits' = Leave, Goes(0), Opens(Top) = 0,
         require_lvalue' = FALSE, tmp_val'.type \in Yields(Top)
  PROVE  Inv'
<1>1. 0 - Opens(Top) = 0
  OBVIOUS
<1>2. Goes(0 - Opens(Top))
  BY <1>1
<1> QED BY <1>2, Returned

-----------------------------------------------------------------------------
(* Declarations.  The actions that bind a name bind it to a value the      *)
(* symbol table may hold.                                                  *)

Declares == \E n \in Names, v \in Bindable : Push(n, v)

LEMMA EnterGlobalInv == Inv /\ EnterGlobal => Inv'
<1> SUFFICES ASSUME Inv, EnterGlobal PROVE Inv'
  OBVIOUS
<1>1. visits = <<>>
  BY SignatureFacts DEF Inv, EnterGlobal
<1>2. Tables'
  <2>1. Symbols(inner') /\ functions' = 0
    BY EnterSymbols DEF Inv, Tables, EnterGlobal
  <2> QED BY <2>1, SignatureFacts DEF Tables
<1> QED BY <1>1, <1>2, Outside DEF Inv, EnterGlobal

LEMMA FunctionBindable ==
  ASSUME NEW k \in 1 .. Len(Signatures)
  PROVE  FunctionOf(k) \in Bindable
<1>1. FunctionOf(k).kind = "function" /\ FunctionOf(k).id = k
  BY DEF FunctionOf
<1>2. FunctionOf(k) \in Value
  BY DEF FunctionOf, Value, Kinds, TypeNames
<1> QED BY <1>1, <1>2 DEF Bindable

LEMMA DeclareFunctionInv == Inv /\ DeclareFunction => Inv' /\ Declares
<1> SUFFICES ASSUME Inv, DeclareFunction PROVE Inv' /\ Declares
  OBVIOUS
<1> DEFINE k == functions + 1
           n == FunctionNames[k]
           v == FunctionOf(k)
<1>1. k \in 1 .. CurrentFunction - 1 /\ functions \in Nat
  BY SignatureFacts DEF Inv, Tables, DeclareFunction
<1>2. n \in Names /\ v \in Bindable
  <2>1. k \in 1 .. Len(Signatures) /\ n \in Names
    BY <1>1, ExpressionsAssumption DEF CurrentFunction
  <2> HIDE DEF k
  <2> QED BY <2>1, FunctionBindable
<1>3. \/ n # NegName \/ v = FunctionOf(NegIdxExcept)
      \/ Len(inner) = 1 /\ NegName \in DOMAIN inner[1]
  <2>1. CASE k < NegIdxExcept
    BY <1>1, <2>1, ExpressionsAssumption DEF NegName
  <2>2. CASE k = NegIdxExcept
    BY <2>2
  <2>3. CASE k > NegIdxExcept
    BY <1>1, <2>3, SignatureFacts DEF Inv, Tables, DeclareFunction, InGlobal
  <2> QED BY <1>1, <2>1, <2>2, <2>3, SignatureFacts
<1>4. Push(n, v) /\ Len(inner) = 1 /\ functions' = k
  BY DEF DeclareFunction, InGlobal
<1> HIDE DEF v
<1>5. /\ Symbols(inner') /\ inner' # <<>> /\ n \in DOMAIN inner'[1]
      /\ inner # <<>> => DOMAIN inner[1] \subseteq DOMAIN inner'[1]
  BY <1>2, <1>3, <1>4, PushSymbols DEF Inv, Tables
<1>6. Tables'
  <2>1. k >= NegIdxExcept => NegName \in DOMAIN inner'[1]
    <3>1. CASE k = NegIdxExcept
      BY <3>1, <1>5 DEF NegName
    <3>2. CASE k > NegIdxExcept
      BY <1>1, <3>2, <1>5, SignatureFacts DEF Inv, Tables
    <3> QED BY <1>1, <3>1, <3>2, SignatureFacts
  <2> QED BY <1>1, <1>4, <1>5, <2>1, SignatureFacts DEF Tables
<1>7. Declares
  BY <1>2, <1>4 DEF Declares
<1> QED BY <1>6, <1>7, Outside DEF Inv, DeclareFunction

\* A declaration among the user's names leaves the functions alone.
LEMMA DeclareFacts ==
  ASSUME Tables, NEW n \in UserNames, NEW v \in Bindable, Push(n, v), functions' = functions
  PROVE  Tables' /\ Len(inner') = Len(inner)
<1>1. n \in Names /\ n # NegName
  BY ExpressionsAssumption DEF NegName
<1>2. /\ Symbols(inner') /\ Len(inner') = Len(inner) /\ inner' # <<>>
      /\ inner # <<>> => DOMAIN inner[1] \subseteq DOMAIN inner'[1]
  BY <1>1, PushSymbols DEF Tables
<1> QED BY <1>2 DEF Tables

LEMMA DeclTypeFacts == DeclTypes \subseteq Pointees
  BY ExpressionsAssumption, TypeFacts

LEMMA AddressBindable ==
  ASSUME NEW v \in Value, v.kind \notin {"function", "none"}, v.type \in Pointers
  PROVE  v \in Bindable
  BY DEF Bindable

LEMMA VarDeclarationInv == Inv /\ VarDeclaration => Inv' /\ Declares
<1> SUFFICES ASSUME Inv, VarDeclaration PROVE Inv' /\ Declares
  OBVIOUS
<1>0. fn \in Code /\ fn.made + 1 \in Nat /\ Tables /\ functions' = functions
  BY CodeFacts DEF Inv, VarDeclaration
<1>1. CASE InGlobal
  <2>1. PICK n \in UserNames, t \in DeclTypes :
          /\ fn' = [fn EXCEPT !.made = @ + 1]
          /\ Push(n, GlobalOf(t, fn.made + 1))
    BY <1>1 DEF VarDeclaration
  <2>2. GlobalOf(t, fn.made + 1) \in Bindable
    <3>1. PointerTo(t) \in Pointers /\ PointerTo(t) \in TypeNames
      BY DeclTypeFacts, TypeFacts
    <3> QED BY <1>0, <3>1, AddressBindable DEF GlobalOf, Value, Kinds
  <2>3. fn' \in Code
    <3>1. /\ fn' = [code |-> fn.code, made |-> fn.made + 1]
          /\ fn.code \in Seq(Seq(Fit)) /\ fn.made \in Nat /\ Numbered(fn)
      BY <1>0, <2>1, CodeFacts, CodeForm
    <3>2. Numbered([code |-> fn.code, made |-> fn.made + 1])
      <4>1. 1 .. fn.made \subseteq 1 .. fn.made + 1
        BY <3>1
      <4> QED BY <3>1, <4>1 DEF Numbered
    <3> QED BY <1>0, <3>1, <3>2, CodeMade
  <2>4. Tables'
    BY <1>0, <2>1, <2>2, DeclareFacts
  <2>5. visits = <<>> /\ visits' = <<>> /\ UNCHANGED <<tmp_val, require_lvalue>>
    BY <1>1 DEF VarDeclaration
  <2>6. n \in Names
    BY ExpressionsAssumption
  <2> QED BY <2>1, <2>2, <2>3, <2>4, <2>5, <2>6, Outside DEF Declares
<1>2. CASE ~InGlobal
  <2>1. PICK n \in UserNames, t \in DeclTypes :
          /\ fn' = CreateAlloca(fn, insert, t)
          /\ Push(n, Result(PointerTo(t), fn.made + 1))
    BY <1>2 DEF VarDeclaration
  <2>2. visits # <<>> /\ insert \in 1 .. Len(fn.code)
    BY <1>2 DEF VarDeclaration, InVisit, Inv
  <2>3. /\ Continues(fn, fn') /\ Result(PointerTo(t), fn.made + 1) \in Value
        /\ Result(PointerTo(t), fn.made + 1).type \in Pointers
    BY <1>0, <2>1, <2>2, DeclTypeFacts, AllocaFacts, TypeFacts
  <2>4. Result(PointerTo(t), fn.made + 1) \in Bindable
    BY <2>3, AddressBindable DEF Result
  <2>5. Tables' /\ Len(inner') = Len(inner)
    BY <1>0, <2>1, <2>4, DeclareFacts
  <2>6. UNCHANGED <<insert, visits, tmp_val, require_lvalue, functions>>
    BY DEF VarDeclaration
  <2>7. Goes(0)
    BY <2>2, <2>3, <2>5, <2>6, InvFacts DEF Goes, Continues, Inv
  <2>8. n \in Names
    BY ExpressionsAssumption
  <2> QED BY <2>1, <2>2, <2>4, <2>6, <2>7, <2>8, Stayed DEF Declares
<1> QED BY <1>1, <1>2

LEMMA FunDeclarationInv == Inv /\ FunDeclaration => Inv' /\ Declares
<1> SUFFICES ASSUME Inv, FunDeclaration PROVE Inv' /\ Declares
  OBVIOUS
<1> DEFINE n == FunctionNames[CurrentFunction]
           v == FunctionOf(CurrentFunction)
           frame == Visit("function")
<1>1. n \in Names /\ v \in Bindable
  <2>1. CurrentFunction \in 1 .. Len(Signatures) /\ n \in Names
    BY ExpressionsAssumption DEF CurrentFunction
  <2> QED BY <2>1, FunctionBindable
<1>2. Push(n, v) /\ Len(inner) = 1 /\ functions = CurrentFunction - 1
      /\ functions' = CurrentFunction /\ visits = <<>> /\ visits' = <<frame>>
  BY DEF FunDeclaration, InGlobal
<1>3. functions >= NegIdxExcept /\ functions \in Nat /\ CurrentFunction \in Nat
  BY <1>2, SignatureFacts
<1> HIDE DEF v
<1>4. /\ Symbols(inner') /\ inner' # <<>> /\ Len(inner') = 1
      /\ DOMAIN inner[1] \subseteq DOMAIN inner'[1] /\ NegName \in DOMAIN inner[1]
  BY <1>1, <1>2, <1>3, PushSymbols DEF Inv, Tables
<1>5. Tables'
  BY <1>2, <1>3, <1>4 DEF Tables
<1>6. fn' \in Code /\ Len(fn'.code) \in Nat /\ insert' \in 1 .. Len(fn'.code)
  BY NewBlocksFacts, CodeFacts DEF FunDeclaration, Inv
<1>7. /\ frame \in Frame /\ frame.visit = "function" /\ Opens(frame) = 0
      /\ Needs(frame) = TypeNames
  <2>1. "function" \in Visits
    BY DEF Visits
  <2>2. frame \in Frame /\ frame.visit = "function" /\ Opens(frame) = 0
    BY <2>1, VisitFacts
  <2> QED BY <2>2, YieldsFacts DEF Silent
<1> HIDE DEF frame
<1>8. Stack(visits', Len(fn'.code), Len(inner')) /\ Top' = frame /\ visits' # <<>>
  <2>1. /\ Append(<<>>, frame) = <<frame>> /\ Len(<<frame>>) = 1
        /\ <<frame>>[1] = frame /\ <<frame>> # <<>>
    OBVIOUS
  <2>2. Stack(Append(<<>>, frame), Len(fn'.code), 1 + Opens(frame))
    <3> DEFINE p == Len(fn'.code)
    <3>1. p \in Nat
      BY <1>6
    <3> HIDE DEF p
    <3>2. Stack(<<>>, p, 1) /\ 1 \in Nat \ {0} /\ frame.visit # "then"
      BY <1>7, EmptyStack
    <3>3. Stack(Append(<<>>, frame), p, 1 + Opens(frame))
      BY <1>7, <3>1, <3>2, PushStack
    <3> QED BY <3>3 DEF p
  <2> QED BY <1>2, <1>4, <1>7, <2>1, <2>2 DEF Top
<1>9. /\ tmp_val' \in Value /\ tmp_val'.type \in TypeNames
      /\ require_lvalue' = FALSE
  BY <1>2 DEF FunDeclaration, Inv, InVisit, Value
<1>10. Declares
  BY <1>1, <1>2 DEF Declares
<1> QED BY <1>2, <1>5, <1>6, <1>7, <1>8, <1>9, <1>10 DEF Inv, InVisit

LEMMA EnterFunctionInv == Inv /\ EnterFunction => Inv'
<1> SUFFICES ASSUME Inv, EnterFunction PROVE Inv'
  OBVIOUS
<1> DEFINE frame == Visit("body")
           n == Len(fn.code)
           d == Len(inner)
<1>1. visits # <<>> /\ Top.visit = "function" /\ visits' = Append(visits, frame)
      /\ Len(inner) = 1 /\ UNCHANGED <<fn, insert, tmp_val, require_lvalue, functions>>
  BY DEF EnterFunction, InVisit, InGlobal
<1>2. Tables' /\ Len(inner') = d + 1
  <2>1. /\ Symbols(inner') /\ Len(inner') = Len(inner) + 1 /\ inner' # <<>>
        /\ inner # <<>> => inner'[1] = inner[1]
    BY EnterSymbols DEF Inv, Tables, EnterFunction
  <2> QED BY <1>1, <2>1 DEF Inv, Tables
<1>3. /\ frame \in Frame /\ frame.visit = "body" /\ Opens(frame) = 0
      /\ Yields(frame) \subseteq TypeNames /\ Needs(frame) = TypeNames
  <2>1. "body" \in Visits
    BY DEF Visits
  <2>2. frame \in Frame /\ frame.visit = "body" /\ Opens(frame) = 0
    BY <2>1, VisitFacts
  <2> QED BY <2>2, YieldsFacts DEF Silent
<1> HIDE DEF frame
<1>4. Needs(Top) = TypeNames /\ n \in Nat /\ d \in Nat
  BY <1>1, TopFacts, YieldsFacts, InvFacts DEF Silent
<1>5. Stack(visits, n, d + 1)
  BY <1>4, StackMonotone DEF Inv
<1>6. Stack(visits', n, d + 1) /\ Top' = frame /\ visits' # <<>>
  BY <1>1, <1>3, <1>4, <1>5, PushStack DEF Top
<1>7. tmp_val.type \in TypeNames /\ require_lvalue = FALSE
  BY <1>1, TopFacts DEF InVisit
<1> QED BY <1>1, <1>2, <1>3, <1>6, <1>7 DEF Inv, InVisit

LEMMA ParameterInv == Inv /\ Parameter => Inv' /\ Declares
<1> SUFFICES ASSUME Inv, Parameter PROVE Inv' /\ Declares
  OBVIOUS
<1> DEFINE i == Len(Top.args) + 1
           t == Signatures[CurrentFunction].params[i]
           f == CreateAlloca(fn, insert, t)
           address == Result(PointerTo(t), f.made)
           arg == Argument(t, i)
           frame == [Top EXCEPT !.args = Append(@, arg)]
<1>1. /\ visits # <<>> /\ Top.visit = "body" /\ i <= Len(Signatures[CurrentFunction].params)
      /\ fn' = Create(f, insert, "store", <<arg, address>>).fn
      /\ \E n \in UserNames : Push(n, address)
      /\ visits' = Become(frame)
      /\ UNCHANGED <<insert, tmp_val, require_lvalue, functions>>
  BY DEF Parameter, InVisit
<1>2. Top \in Frame /\ Top \in Shape /\ Carries(Top)
  BY <1>1, TopFacts
<1>3. Top.args \in Seq(Value) /\ i \in Nat \ {0}
  BY <1>2 DEF Shape
<1>4. t \in Pointees /\ t \in TypeNames
  <2>1. Signatures[CurrentFunction].params \in Seq(Scalars \cup {"i32*", "float*"})
    BY SignatureFacts DEF CurrentFunction
  <2>2. t \in Scalars \cup {"i32*", "float*"}
    BY <1>1, <1>3, <2>1
  <2> QED BY <2>2 DEF Pointees, TypeNames
<1>5. fn \in Code /\ insert \in 1 .. Len(fn.code)
  BY <1>1 DEF Inv
<1> HIDE DEF t, i
<1>6. arg \in Value /\ arg.type = t
  BY <1>3, <1>4 DEF Argument, Value, Kinds
<1>7. /\ Continues(fn, f) /\ address \in Value /\ address.type = PointerTo(t)
      /\ f.made + 1 \in Nat
  <2>1. Continues(fn, f) /\ f.made = fn.made + 1
    BY <1>4, <1>5, AllocaFacts
  <2>2. /\ Result(PointerTo(t), fn.made + 1) \in Value
        /\ Result(PointerTo(t), fn.made + 1).type = PointerTo(t)
    BY <1>4, <1>5, AllocaFacts
  <2>3. f \in Code
    BY <2>1 DEF Continues
  <2> HIDE DEF f
  <2> QED BY <2>1, <2>2, <2>3, CodeFacts
<1>8. address \in Bindable
  <2>1. address.kind = "instr" /\ address.type \in Pointers
    BY <1>4, <1>7, TypeFacts DEF Result
  <2> HIDE DEF address
  <2> QED BY <1>7, <2>1, AddressBindable
<1> HIDE DEF f, address, arg
<1>9. Continues(f, fn')
  <2>1. f \in Code /\ insert \in 1 .. Len(f.code)
    BY <1>5, <1>7 DEF Continues
  <2>2. /\ Instr("store", "void", <<arg, address>>, <<>>, f.made + 1) \in Fit
        /\ ResultType("store", <<arg, address>>) = "void"
    BY <1>4, <1>6, <1>7, FitStore
  <2> QED BY <1>1, <2>1, <2>2, CreateFacts
<1>10. Tables' /\ Len(inner') = Len(inner)
  <2>1. Tables /\ functions' = functions
    BY <1>1 DEF Inv
  <2> QED BY <1>1, <1>8, <2>1, DeclareFacts
<1>11. /\ frame \in Frame /\ frame.visit = "body"
       /\ Opens(frame) = 0 /\ Opens(Top) = 0
  <2>1. Append(Top.args, arg) \in Seq(Value)
    BY <1>3, <1>6
  <2>2. frame \in Shape /\ frame.visit = "body"
    BY <1>1, <1>2, <2>1 DEF Shape
  <2> HIDE DEF frame
  <2> QED BY <1>1, <2>2 DEF Frame, Carries, Opens
<1> HIDE DEF frame
<1>12. Goes(0)
  BY <1>1, <1>5, <1>7, <1>9, <1>10, InvFacts DEF Goes, Continues, Inv
<1>13. Yields(frame) = TypeNames /\ Yields(Top) = TypeNames /\ Needs(frame) = TypeNames
  BY <1>1, <1>2, <1>11, YieldsFacts DEF Silent
<1>14. tmp_val'.type \in TypeNames /\ require_lvalue' = FALSE
  BY <1>1, TopFacts DEF InVisit
<1>15. Declares
  BY <1>1, <1>8, ExpressionsAssumption DEF Declares
<1> QED BY <1>1, <1>11, <1>12, <1>13, <1>14, <1>15, BecamePlain

LEMMA EndFunDeclarationInv == Inv /\ EndFunDeclaration => Inv'
<1> SUFFICES ASSUME Inv, EndFunDeclaration PROVE Inv'
  OBVIOUS
<1>1. /\ visits # <<>> /\ Top.visit = "function" /\ ~InGlobal /\ Exit /\ visits' = Leave
      /\ fn' = IF HasTerminator(fn, insert) THEN fn ELSE RetDefault(fn, insert)
      /\ UNCHANGED <<insert, tmp_val, require_lvalue, functions>>
  BY DEF EndFunDeclaration, InVisit
<1>2. fn' \in Code
  BY <1>1, RetFacts DEF Inv, Continues
<1>3. visits' = <<>> /\ ~InVisit("target")
  BY <1>1, TopFacts DEF InVisit
<1>4. Len(inner) >= 2
  <2>1. Len(inner) - Opens(Top) \in Nat \ {0} /\ Len(inner) \in Nat /\ Opens(Top) \in {0, 1}
    BY <1>1, TopFacts, OpensFacts
  <2>2. Len(inner) # 1
    BY <1>1 DEF InGlobal
  <2>3. \A n \in Nat, k \in {0, 1} : n - k \in Nat \ {0} /\ n # 1 => n >= 2
    OBVIOUS
  <2> QED BY <2>1, <2>2, <2>3
<1>5. Tables'
  <2>1. Symbols(inner') /\ inner' # <<>> /\ inner'[1] = inner[1]
    BY <1>1, <1>4, ExitSymbols DEF Inv, Tables
  <2> QED BY <1>1, <2>1 DEF Inv, Tables
<1> QED BY <1>1, <1>2, <1>3, <1>5, Outside

-----------------------------------------------------------------------------
(* Statements.                                                             *)

LEMMA ExitKeeps ==
  ASSUME Inv, visits # <<>>, functions' = functions, Opens(Top) = 1, Exit
  PROVE  Tables' /\ Len(inner') = Len(inner) - 1
<1>1. Len(inner) >= 2
  BY TopFacts
<1>2. Symbols(inner') /\ Len(inner') = Len(inner) - 1 /\ inner' # <<>> /\ inner'[1] = inner[1]
  BY <1>1, ExitSymbols DEF Inv, Tables
<1> QED BY <1>2 DEF Inv, Tables

LEMMA EnterCompoundStmtInv == Inv /\ EnterCompoundStmt => Inv'
<1> SUFFICES ASSUME Inv, EnterCompoundStmt PROVE Inv'
  OBVIOUS
<1> DEFINE frame == [Visit("declarations") EXCEPT !.flag = ~pre_enter_scope]
<1>1. /\ visits # <<>> /\ Top.visit \in {"body", "statement"} /\ visits' = Become(frame)
      /\ IF pre_enter_scope THEN UNCHANGED inner ELSE Enter
      /\ UNCHANGED <<fn, insert, tmp_val, require_lvalue, functions>>
  BY DEF EnterCompoundStmt, InVisit
<1>2. /\ frame \in Frame /\ frame.visit = "declarations"
      /\ Opens(frame) = IF pre_enter_scope THEN 0 ELSE 1
  <2>1. Visit("declarations") \in Shape /\ Visit("declarations").visit = "declarations"
    BY VisitFacts DEF Visits
  <2>2. /\ frame \in Shape /\ frame.visit = "declarations"
        /\ frame.flag = ~pre_enter_scope
    BY <2>1 DEF Shape
  <2> HIDE DEF frame
  <2> QED BY <2>2 DEF Frame, Carries, Opens
<1> HIDE DEF frame
<1>3. Tables' /\ Len(inner') = Len(inner) + Opens(frame) /\ Len(inner) \in Nat
  <2>1. CASE pre_enter_scope
    BY <1>1, <1>2, <2>1, InvFacts DEF Inv, Tables, Symbols
  <2>2. CASE ~pre_enter_scope
    <3>1. /\ Symbols(inner') /\ Len(inner') = Len(inner) + 1 /\ inner' # <<>>
          /\ inner # <<>> => inner'[1] = inner[1]
      BY <1>1, <2>2, EnterSymbols DEF Inv, Tables
    <3> QED BY <1>1, <1>2, <2>2, <3>1, InvFacts DEF Inv, Tables
  <2> QED BY <2>1, <2>2
<1>4. Opens(Top) = 0 /\ Opens(frame) \in Nat
  BY <1>1, OpensFacts DEF Opens
<1>5. Goes(Opens(frame) - Opens(Top))
  BY <1>1, <1>3, <1>4, InvFacts DEF Goes, Inv
<1>6. Yields(frame) = TypeNames /\ Yields(Top) = TypeNames /\ Needs(frame) = TypeNames
  BY <1>1, <1>2, TopFacts, YieldsFacts DEF Silent
<1>7. tmp_val'.type \in TypeNames /\ require_lvalue' = FALSE
  BY <1>1, TopFacts DEF InVisit
<1> QED BY <1>1, <1>2, <1>5, <1>6, <1>7, Became

\* A statement below a visit that hands nothing back.
LEMMA StatementFacts ==
  LET child == Visit("statement")
  IN  /\ child \in Frame /\ child.visit = "statement" /\ Opens(child) = 0
      /\ Needs(child) = TypeNames /\ Yields(child) = TypeNames
<1> DEFINE child == Visit("statement")
<1>1. child \in Frame /\ child.visit = "statement" /\ Opens(child) = 0
  BY VisitFacts DEF Visits
<1> HIDE DEF child
<1>2. Needs(child) = TypeNames /\ Yields(child) = TypeNames
  BY <1>1, YieldsFacts DEF Silent
<1> QED BY <1>1, <1>2 DEF child

LEMMA NextStatementInv == Inv /\ NextStatement => Inv'
<1> SUFFICES ASSUME Inv, NextStatement PROVE Inv'
  OBVIOUS
<1> DEFINE frame == [Top EXCEPT !.visit = "statements"]
           child == Visit("statement")
<1>1. /\ visits # <<>> /\ Top.visit \in {"declarations", "statements"}
      /\ visits' = Call(frame, child)
      /\ UNCHANGED <<inner, fn, insert, tmp_val, require_lvalue, functions>>
  BY DEF NextStatement, InVisit
<1>2. Top \in Frame /\ Top \in Shape /\ Carries(Top)
  BY <1>1, TopFacts
<1>3. frame \in Frame /\ frame.visit = "statements" /\ Opens(frame) = Opens(Top)
  <2>1. "statements" \in Visits
    BY DEF Visits
  <2> QED BY <1>1, <1>2, <2>1 DEF Frame, Shape, Carries, Opens
<1> HIDE DEF frame
<1>4. Yields(frame) = TypeNames /\ Yields(Top) = TypeNames /\ Needs(frame) = TypeNames
  BY <1>1, <1>2, <1>3, YieldsFacts DEF Silent
<1>5. Goes(0) /\ Opens(frame) - Opens(Top) = 0
  BY <1>1, <1>3, SameGoes, OpensFacts
<1>6. require_lvalue' = FALSE
  BY <1>1, TopFacts DEF InVisit
<1> HIDE DEF child
<1>7. /\ child \in Frame /\ child.visit = "statement" /\ Opens(child) = 0
      /\ Needs(child) = TypeNames /\ Yields(child) = TypeNames
  BY StatementFacts DEF child
<1> QED BY <1>1, <1>3, <1>4, <1>5, <1>6, <1>7, CalledPlain

LEMMA LeaveCompoundStmtInv == Inv /\ LeaveCompoundStmt => Inv'
<1> SUFFICES ASSUME Inv, LeaveCompoundStmt PROVE Inv'
  OBVIOUS
<1>1. /\ visits # <<>> /\ Top.visit \in {"declarations", "statements"}
      /\ visits' = Leave /\ IF Top.flag THEN Exit ELSE UNCHANGED inner
      /\ UNCHANGED <<fn, insert, tmp_val, require_lvalue, functions>>
  BY DEF LeaveCompoundStmt, InVisit
<1>2. Tables' /\ Len(inner') = Len(inner) - Opens(Top) /\ Len(inner) \in Nat
  <2>1. CASE Top.flag
    <3>1. Opens(Top) = 1
      BY <1>1, <2>1 DEF Opens
    <3> QED BY <1>1, <2>1, <3>1, ExitKeeps, InvFacts
  <2>2. CASE ~Top.flag
    <3>1. Opens(Top) = 0
      BY <2>2 DEF Opens
    <3> QED BY <1>1, <2>2, <3>1, InvFacts DEF Inv, Tables, Symbols
  <2> QED BY <2>1, <2>2
<1>3. Goes(0 - Opens(Top))
  BY <1>1, <1>2, InvFacts, OpensFacts DEF Goes, Inv
<1>4. Yields(Top) = TypeNames
  BY <1>1, TopFacts, YieldsFacts DEF Silent
<1>5. tmp_val'.type \in TypeNames /\ require_lvalue' = FALSE
  BY <1>1, TopFacts DEF InVisit
<1> QED BY <1>1, <1>3, <1>4, <1>5, Returned

\* A visit that opens no scope returns without a change.
LEMMA ReturnedSilently ==
  ASSUME Inv, visits # <<>>, Top.visit \in Silent, Opens(Top) = 0, visits' = Leave, Goes(0),
         tmp_val'.type \in TypeNames, UNCHANGED require_lvalue
  PROVE  Inv'
<1>1. Yields(Top) = TypeNames
  BY TopFacts, YieldsFacts
<1>2. require_lvalue' = FALSE
  BY TopFacts DEF InVisit, Silent
<1> QED BY <1>1, <1>2, ReturnedPlain

LEMMA ExpressionStmtInv == Inv /\ ExpressionStmt => Inv'
<1> SUFFICES ASSUME Inv, ExpressionStmt PROVE Inv'
  OBVIOUS
<1> DEFINE frame == Expression("any")
<1>1. /\ visits # <<>> /\ Top.visit = "statement"
      /\ visits' = Become(frame) \/ visits' = Leave
      /\ UNCHANGED <<inner, fn, insert, tmp_val, require_lvalue, functions>>
  BY DEF ExpressionStmt, InVisit
<1>2. /\ frame \in Frame /\ frame.visit = "expression" /\ Opens(frame) = 0
      /\ Needs(frame) = TypeNames /\ Yields(frame) = TypeNames
  BY ExpressionFacts
<1> HIDE DEF frame
<1>3. Yields(Top) = TypeNames /\ Opens(Top) = 0 /\ Goes(0)
  BY <1>1, TopFacts, YieldsFacts, SameGoes DEF Silent, Opens
<1>4. tmp_val'.type \in TypeNames /\ require_lvalue' = FALSE
  BY <1>1, TopFacts DEF InVisit
<1>5. CASE visits' = Become(frame)
  BY <1>1, <1>2, <1>3, <1>4, <1>5, BecamePlain
<1>6. CASE visits' = Leave
  BY <1>1, <1>3, <1>4, <1>6, ReturnedSilently DEF Silent
<1> QED BY <1>1, <1>5, <1>6

LEMMA SelectionStmtInv == Inv /\ SelectionStmt => Inv'
<1> SUFFICES ASSUME Inv, SelectionStmt PROVE Inv'
  OBVIOUS
<1> DEFINE frame == Visit("condition")
           child == Expression("number")
<1>1. /\ visits # <<>> /\ Top.visit = "statement" /\ visits' = Call(frame, child)
      /\ UNCHANGED <<inner, fn, insert, tmp_val, require_lvalue, functions>>
  BY DEF SelectionStmt, InVisit
<1>2. /\ child \in Frame /\ child.visit = "expression" /\ Opens(child) = 0
      /\ Needs(child) = TypeNames /\ Yields(child) = Scalars
  BY ExpressionFacts
<1>3. frame \in Frame /\ frame.visit = "condition" /\ Opens(frame) = 0
  BY VisitFacts DEF Visits
<1> HIDE DEF frame, child
<1>4. Yields(frame) = TypeNames /\ Needs(frame) = Scalars
  BY <1>3, YieldsFacts DEF Silent, Needs
<1>5. Yields(Top) = TypeNames /\ Opens(Top) = 0 /\ Goes(0)
  BY <1>1, TopFacts, YieldsFacts, SameGoes DEF Silent, Opens
<1>6. require_lvalue' = FALSE
  BY <1>1, TopFacts DEF InVisit
<1> QED BY <1>1, <1>2, <1>3, <1>4, <1>5, <1>6, CalledPlain

LEMMA BranchSelectionInv == Inv /\ BranchSelection => Inv'
<1> SUFFICES ASSUME Inv, BranchSelection PROVE Inv'
  OBVIOUS
<1> DEFINE trueBB == Len(fn.code) + 1
           contBB == Len(fn.code) + 2
           f == NewBlocks(fn, 2)
           op == IF tmp_val.type = "i32" THEN "ne" ELSE "fne"
           zero == Constant(tmp_val.type, 0)
           c == Create(f, insert, op, <<tmp_val, zero>>)
           frame == [Visit("then") EXCEPT !.block = contBB]
           child == Visit("statement")
<1>1. /\ visits # <<>> /\ Top.visit = "condition"
      /\ fn' = CreateCondBr(c.fn, insert, c.val, trueBB, contBB)
      /\ insert' = trueBB /\ visits' = Call(frame, child)
      /\ UNCHANGED <<inner, tmp_val, require_lvalue, functions>>
  BY DEF BranchSelection, InVisit
<1>2. /\ fn \in Code /\ Len(fn.code) \in Nat /\ insert \in 1 .. Len(fn.code)
      /\ tmp_val \in Value
  BY <1>1, InvFacts DEF Inv
<1>3. tmp_val.type \in Scalars
  BY <1>1 DEF Inv, Needs
<1>4. f \in Code /\ Len(f.code) = Len(fn.code) + 2 /\ insert \in 1 .. Len(f.code)
      /\ f.made + 1 \in Nat
  BY <1>2, NewBlocksFacts, CodeFacts
<1>5. zero \in Value /\ zero.type = tmp_val.type
  BY <1>2 DEF Constant, Value, Kinds
<1> HIDE DEF f, zero
<1>6. /\ Instr(op, "i1", <<tmp_val, zero>>, <<>>, f.made + 1) \in Fit
      /\ "i1" = ResultType(op, <<tmp_val, zero>>)
  <2>1. \/ tmp_val.type = "i32" /\ op \in Comparisons
        \/ tmp_val.type = "float" /\ op \in FComparisons
    BY <1>3, Operations DEF Scalars, Comparisons
  <2> HIDE DEF op
  <2>2. "i1" = ResultType(op, <<tmp_val, zero>>)
    BY <2>1, Operations DEF ResultType, Arithmetic, Comparisons
  <2> QED BY <1>2, <1>4, <1>5, <2>1, <2>2, FitBinary
<1>7. Continues(f, c.fn) /\ c.val \in Value /\ c.val.type = "i1"
  BY <1>4, <1>6, CreateFacts
<1> HIDE DEF c
<1>8. Continues(c.fn, fn')
  <2>1. c.fn \in Code /\ insert \in 1 .. Len(c.fn.code) /\ trueBB \in Nat /\ contBB \in Nat
    BY <1>2, <1>4, <1>7 DEF Continues
  <2> HIDE DEF trueBB, contBB
  <2> QED BY <1>1, <1>7, <2>1, BranchFacts
<1>9. fn' \in Code /\ Len(fn'.code) = Len(fn.code) + 2
  BY <1>4, <1>7, <1>8 DEF Continues
<1>10. /\ frame \in Frame /\ frame.visit = "then" /\ frame.block = contBB
       /\ Opens(frame) = 0
  <2>0. "then" \in Visits /\ contBB \in Nat
    BY <1>2 DEF Visits
  <2>1. /\ Visit("then") \in Shape /\ Visit("then").visit = "then"
        /\ Visit("then").flag = FALSE /\ contBB \in Nat
    BY <2>0, VisitFacts
  <2> HIDE DEF contBB
  <2>2. frame \in Shape /\ frame.visit = "then" /\ frame.block = contBB /\ frame.flag = FALSE
    BY <2>1 DEF Shape
  <2> HIDE DEF frame
  <2> QED BY <2>2 DEF Frame, Carries, Opens
<1> HIDE DEF frame, child
<1>11. /\ child \in Frame /\ child.visit = "statement" /\ Opens(child) = 0
       /\ Needs(child) = TypeNames /\ Yields(child) = TypeNames
  BY StatementFacts DEF child
<1>12. /\ Yields(frame) = TypeNames /\ Needs(frame) = TypeNames /\ Yields(Top) = TypeNames
       /\ Opens(Top) = 0
  BY <1>1, <1>10, TopFacts, YieldsFacts DEF Silent, Opens
<1>13. Goes(0)
  <2>1. Tables' /\ Len(inner') >= Len(inner) + 0
    BY <1>1, InvFacts DEF Inv, Tables, Symbols
  <2> QED BY <1>1, <1>2, <1>9, <2>1 DEF Goes
<1>14. require_lvalue' = FALSE /\ frame.block \in 1 .. Len(fn'.code)
  BY <1>1, <1>2, <1>9, <1>10, TopFacts DEF InVisit
<1> QED BY <1>1, <1>10, <1>11, <1>12, <1>13, <1>14, CalledPlain

LEMMA EndThenInv == Inv /\ EndThen => Inv'
<1> SUFFICES ASSUME Inv, EndThen PROVE Inv'
  OBVIOUS
<1>1. /\ visits # <<>> /\ Top.visit = "then"
      /\ fn' = IF HasTerminator(fn, insert) THEN fn ELSE CreateBr(fn, insert, Top.block)
      /\ insert' = Top.block /\ visits' = Leave
      /\ UNCHANGED <<inner, tmp_val, require_lvalue, functions>>
  BY DEF EndThen, InVisit
<1>2. /\ fn \in Code /\ Len(fn.code) \in Nat /\ insert \in 1 .. Len(fn.code)
  BY <1>1, InvFacts DEF Inv
<1>3. Top.block \in 1 .. Len(fn.code)
  <2>1. Placed(visits, Len(fn.code)) /\ Len(visits) \in 1 .. Len(visits)
    BY <1>1, InvFacts DEF Inv, Stack
  <2> QED BY <1>1, <2>1 DEF Placed, Top
<1>4. Continues(fn, fn')
  <2>1. Continues(fn, fn) /\ Continues(fn, CreateBr(fn, insert, Top.block))
    BY <1>2, <1>3, BranchFacts, CodeFacts
  <2> QED BY <1>1, <2>1
<1>5. Goes(0)
  <2>1. Tables' /\ Len(inner') >= Len(inner) + 0
    BY <1>1, InvFacts DEF Inv, Tables, Symbols
  <2> QED BY <1>1, <1>2, <1>3, <1>4, <2>1 DEF Goes, Continues, Inv
<1>6. tmp_val'.type \in TypeNames /\ Opens(Top) = 0
  BY <1>1, TopFacts DEF Opens
<1> QED BY <1>1, <1>5, <1>6, ReturnedSilently DEF Silent

LEMMA ReturnStmtInv == Inv /\ ReturnStmt => Inv'
<1> SUFFICES ASSUME Inv, ReturnStmt PROVE Inv'
  OBVIOUS
<1> DEFINE frame == Visit("return")
           child == Expression("number")
<1>1. /\ visits # <<>> /\ Top.visit = "statement"
      /\ UNCHANGED <<inner, insert, tmp_val, require_lvalue, functions>>
  BY DEF ReturnStmt, InVisit
<1>2. Yields(Top) = TypeNames /\ Opens(Top) = 0 /\ tmp_val'.type \in TypeNames
      /\ tmp_val' \in Value /\ require_lvalue' = FALSE
  BY <1>1, TopFacts, YieldsFacts DEF Silent, Opens, InVisit, Inv
<1>3. CASE ReturnType = "void"
  <2>1. fn' = CreateRet(fn, insert, <<>>) /\ visits' = Leave
    BY <1>3 DEF ReturnStmt
  <2>2. Continues(fn, fn')
    BY <1>1, <1>3, <2>1, RetFacts DEF Inv
  <2>3. Goes(0)
    BY <1>1, <1>2, <2>2, StayedGoes
  <2> QED BY <1>1, <1>2, <2>1, <2>3, ReturnedSilently DEF Silent
<1>4. CASE ReturnType # "void"
  <2>1. visits' = Call(frame, child) /\ UNCHANGED fn
    BY <1>4 DEF ReturnStmt
  <2>2. /\ child \in Frame /\ child.visit = "expression" /\ Opens(child) = 0
        /\ Needs(child) = TypeNames /\ Yields(child) = Scalars
    BY ExpressionFacts
  <2>3. /\ frame \in Frame /\ frame.visit = "return" /\ Opens(frame) = 0
    <3>1. frame \in Shape /\ frame.visit = "return" /\ Opens(frame) = 0
      BY VisitFacts DEF Visits
    <3> HIDE DEF frame
    <3> QED BY <1>4, <3>1 DEF Frame, Carries
  <2> HIDE DEF frame, child
  <2>4. Yields(frame) = TypeNames /\ Needs(frame) = Scalars
    BY <2>3, YieldsFacts DEF Silent, Needs
  <2>5. Goes(0)
    BY <1>1, <2>1, SameGoes
  <2> QED BY <1>1, <1>2, <2>1, <2>2, <2>3, <2>4, <2>5, CalledPlain
<1> QED BY <1>3, <1>4

LEMMA EndReturnStmtInv == Inv /\ EndReturnStmt => Inv'
<1> SUFFICES ASSUME Inv, EndReturnStmt PROVE Inv'
  OBVIOUS
<1> DEFINE c == Converted(fn, insert, tmp_val, ReturnType)
<1>1. /\ visits # <<>> /\ Top.visit = "return"
      /\ fn' = CreateRet(c.fn, insert, <<c.val>>) /\ tmp_val' = c.val /\ visits' = Leave
      /\ UNCHANGED <<inner, insert, require_lvalue, functions>>
  BY DEF EndReturnStmt, InVisit
<1>2. /\ fn \in Code /\ insert \in 1 .. Len(fn.code) /\ tmp_val \in Value
      /\ tmp_val.type \in Scalars
  BY <1>1 DEF Inv, Needs
<1>3. ReturnType # "void" /\ ReturnType \in Scalars
  BY <1>1, TopFacts, SignatureFacts DEF Carries
<1>4. Continues(fn, c.fn) /\ c.val \in Value /\ c.val.type = ReturnType
  BY <1>2, <1>3, ConvertedFacts
<1> HIDE DEF c
<1>5. Continues(c.fn, fn')
  BY <1>1, <1>2, <1>3, <1>4, RetFacts DEF Continues
<1>6. Goes(0)
  BY <1>1, <1>4, <1>5, StayedGoes DEF Continues
<1>7. Opens(Top) = 0 /\ tmp_val'.type \in TypeNames
  BY <1>1, <1>4 DEF Opens, Value
<1> QED BY <1>1, <1>6, <1>7, ReturnedSilently DEF Silent

-----------------------------------------------------------------------------
(* Expressions.                                                            *)

LEMMA NumberFacts ==
  ASSUME Inv, WantsNumber
  PROVE  /\ visits # <<>> /\ Top.visit = "expression" /\ Opens(Top) = 0
         /\ Scalars \subseteq Yields(Top)
         /\ Top.want = "any" => Yields(Top) = TypeNames
         /\ require_lvalue = FALSE
<1>1. visits # <<>> /\ Top.visit = "expression" /\ Top.want \in {"number", "any"}
  BY DEF WantsNumber, InVisit
<1>2. Opens(Top) = 0 /\ require_lvalue = FALSE
  BY <1>1, TopFacts DEF Opens, InVisit
<1>3. Top.want = "number" => Yields(Top) = Scalars
  BY <1>1 DEF Yields, Addresses
<1>4. Top.want = "any" => Yields(Top) = TypeNames
  BY <1>1 DEF Yields, Addresses
<1>5. Scalars \subseteq TypeNames
  BY DEF TypeNames, Pointees
<1> QED BY <1>1, <1>2, <1>3, <1>4, <1>5

LEMMA TargetFacts ==
  ASSUME Inv, InVisit("target")
  PROVE  /\ visits # <<>> /\ Top.visit = "target" /\ Opens(Top) = 0
         /\ Yields(Top) = Addresses /\ require_lvalue = TRUE
  BY DEF Inv, InVisit, Yields, Opens

LEMMA VariableFacts ==
  ASSUME Inv, NEW n, IsVariable(n)
  PROVE  /\ Find(n) \in Value /\ Find(n).type \in Pointers
         /\ Pointee(Find(n).type) \in Pointees
         /\ PointerTo(Pointee(Find(n).type)) = Find(n).type
<1>1. Find(n) \in Bindable /\ Find(n).kind # "function"
  BY FindFacts DEF Inv, IsVariable
<1> QED BY <1>1, TypeFacts DEF Bindable

LEMMA NumInv == Inv /\ Num => Inv'
<1> SUFFICES ASSUME Inv, Num PROVE Inv'
  OBVIOUS
<1>1. /\ WantsNumber /\ visits' = Leave /\ tmp_val' \in Value /\ tmp_val'.type \in Scalars
      /\ UNCHANGED <<inner, fn, insert, require_lvalue, functions>>
  BY ExpressionsAssumption DEF Num
<1>2. Continues(fn, fn')
  BY <1>1, CodeFacts DEF Inv
<1>3. /\ visits # <<>> /\ Opens(Top) = 0 /\ require_lvalue = FALSE
      /\ tmp_val'.type \in Yields(Top)
  BY <1>1, NumberFacts
<1>4. Goes(0)
  BY <1>1, <1>2, <1>3, StayedGoes
<1> QED BY <1>1, <1>3, <1>4, ReturnedPlain

LEMMA LoadFacts ==
  ASSUME NEW f \in Code, NEW b \in 1 .. Len(f.code), NEW v \in Value, v.type \in Pointers
  PROVE  LET c == Create(f, b, "load", <<v>>)
         IN  Continues(f, c.fn) /\ c.val \in Value /\ c.val.type = Pointee(v.type)
<1>1. f.made + 1 \in Nat
  BY CodeFacts
<1>2. /\ Instr("load", Pointee(v.type), <<v>>, <<>>, f.made + 1) \in Fit
      /\ Pointee(v.type) = ResultType("load", <<v>>)
  BY <1>1, FitLoad
<1> QED BY <1>2, CreateFacts

LEMMA ZeroFacts == Constant("i32", 0) \in Value /\ Constant("i32", 0).type = "i32"
  BY DEF Constant, Value, Kinds, TypeNames, Pointees, Scalars

\* An array is entered through its first index.
LEMMA ArrayFacts ==
  ASSUME NEW f \in Code, NEW b \in 1 .. Len(f.code), NEW v \in Value, NEW i \in Value,
         v.type \in Pointers, Pointee(v.type) \in Arrays, i.type = "i32"
  PROVE  LET c == Create(f, b, "gep", <<v, Constant("i32", 0), i>>)
         IN  /\ Continues(f, c.fn) /\ c.val \in Value
             /\ c.val.type = PointerTo(ElementOf(Pointee(v.type)))
<1> DEFINE t == Pointee(v.type)
           z == Constant("i32", 0)
<1>1. f.made + 1 \in Nat /\ t \in Arrays /\ v.type = PointerTo(t)
  BY CodeFacts, TypeFacts
<1>2. z \in Value /\ z.type = "i32"
  BY ZeroFacts
<1> HIDE DEF t, z
<1>3. /\ Instr("gep", PointerTo(ElementOf(t)), <<v, z, i>>, <<>>, f.made + 1) \in Fit
      /\ PointerTo(ElementOf(t)) = ResultType("gep", <<v, z, i>>)
  BY <1>1, <1>2, FitGepArray
<1>4. LET c == Create(f, b, "gep", <<v, z, i>>)
      IN  /\ Continues(f, c.fn) /\ c.val \in Value /\ c.val.type = PointerTo(ElementOf(t))
  BY <1>3, CreateFacts
<1> QED BY <1>4 DEF t, z

LEMMA ElementFacts ==
  ASSUME NEW f \in Code, NEW b \in 1 .. Len(f.code), NEW v \in Value, NEW i \in Value,
         v.type \in Pointers, Pointee(v.type) \notin Scalars, i.type = "i32"
  PROVE  LET c == ElementAddress(f, b, v, i)
         IN  Continues(f, c.fn) /\ c.val \in Value /\ c.val.type \in Addresses
<1>1. CASE Pointee(v.type) \in Arrays
  <2>1. PointerTo(ElementOf(Pointee(v.type))) \in Addresses
    BY <1>1 DEF Arrays, ElementOf, PointerTo, Addresses
  <2> QED BY <1>1, <2>1, ArrayFacts DEF ElementAddress
<1>2. CASE Pointee(v.type) \notin Arrays
  <2> DEFINE l == Create(f, b, "load", <<v>>)
             c == Create(l.fn, b, "gep", <<l.val, i>>)
  <2>1. Continues(f, l.fn) /\ l.val \in Value /\ l.val.type \in Addresses
    <3>1. Pointee(v.type) \in Addresses
      BY <1>2, TypeFacts DEF Pointees, Addresses
    <3> QED BY <3>1, LoadFacts
  <2>2. ElementAddress(f, b, v, i) = c
    BY <1>2 DEF ElementAddress
  <2> HIDE DEF l
  <2>3. l.fn \in Code /\ b \in 1 .. Len(l.fn.code) /\ l.fn.made + 1 \in Nat
    BY <2>1, CodeFacts DEF Continues
  <2>4. /\ Instr("gep", l.val.type, <<l.val, i>>, <<>>, l.fn.made + 1) \in Fit
        /\ l.val.type = ResultType("gep", <<l.val, i>>)
    BY <2>1, <2>3, FitGepPointer DEF Addresses
  <2>5. Continues(l.fn, c.fn) /\ c.val \in Value /\ c.val.type = l.val.type
    BY <2>3, <2>4, CreateFacts
  <2> HIDE DEF c
  <2> QED BY <2>1, <2>2, <2>5 DEF Continues
<1> QED BY <1>1, <1>2

\* What a variable stands for fits the place it was wanted at.
LEMMA WantedFacts ==
  ASSUME Inv, NEW t \in Pointees, Wanted(t), ~InVisit("target")
  PROVE  /\ visits # <<>> /\ Opens(Top) = 0
         /\ (IF t \in Arrays THEN PointerTo(ElementOf(t)) ELSE t) \in Yields(Top)
<1>1. CASE t \in Scalars
  <2>1. WantsNumber /\ t \notin Arrays
    BY <1>1 DEF Wanted, Scalars, Arrays
  <2> QED BY <1>1, <2>1, NumberFacts
<1>2. CASE t \notin Scalars
  <2>1. t \in {"[i32]", "i32*", "[float]", "float*"}
    BY <1>2 DEF Pointees, Scalars, Arrays
  <2>2. CASE t \in {"[i32]", "i32*"}
    <3>1. visits # <<>> /\ Top.visit = "expression" /\ Top.want = "i32*"
      BY <2>2 DEF Wanted, InVisit, Scalars
    <3>2. Yields(Top) = {"i32*"} /\ Opens(Top) = 0
      BY <3>1 DEF Yields, Addresses, Opens
    <3> QED BY <2>2, <3>1, <3>2 DEF Arrays, ElementOf, PointerTo
  <2>3. CASE t \in {"[float]", "float*"}
    <3>1. visits # <<>> /\ Top.visit = "expression" /\ Top.want = "float*"
      BY <2>3 DEF Wanted, InVisit, Scalars
    <3>2. Yields(Top) = {"float*"} /\ Opens(Top) = 0
      BY <3>1 DEF Yields, Addresses, Opens
    <3> QED BY <2>3, <3>1, <3>2 DEF Arrays, ElementOf, PointerTo
  <2> QED BY <2>1, <2>2, <2>3
<1> QED BY <1>1, <1>2

LEMMA VarInv == Inv /\ Var => Inv'
<1> SUFFICES ASSUME Inv, Var PROVE Inv'
  OBVIOUS
<1>1. PICK n \in UserNames :
        IsVariable(n) /\ Wanted(Pointee(Find(n).type)) /\ (Address(n) \/ ValueOf(n))
  BY DEF Var
<1>2. /\ require_lvalue' = FALSE /\ visits' = Leave
      /\ UNCHANGED <<inner, insert, functions>>
  BY DEF Var
<1> DEFINE var == Find(n)
           t == Pointee(var.type)
<1>3. var \in Value /\ var.type \in Pointers /\ t \in Pointees /\ PointerTo(t) = var.type
  BY <1>1, VariableFacts
<1>4. Wanted(t)
  BY <1>1
<1>5. CASE Address(n)
  <2>1. InVisit("target") /\ tmp_val' = var /\ fn' = fn
    BY <1>5 DEF Address, Inv
  <2>2. /\ visits # <<>> /\ Top.visit = "target" /\ Opens(Top) = 0 /\ Yields(Top) = Addresses
    BY <2>1, TargetFacts
  <2> HIDE DEF var
  <2>3. t \in Scalars
    BY <1>3, <1>4, <2>2 DEF Wanted, Pointees, Arrays, InVisit
  <2>4. tmp_val'.type \in Addresses
    BY <1>3, <2>1, <2>3 DEF Scalars, PointerTo, Addresses
  <2>5. Continues(fn, fn')
    BY <2>1, CodeFacts DEF Inv
  <2>6. Goes(0)
    BY <1>2, <1>3, <2>1, <2>2, <2>5, StayedGoes
  <2> QED BY <1>2, <2>2, <2>4, <2>6, ReturnedPlain
<1>6. CASE ValueOf(n)
  <2> DEFINE c == IF t \in Arrays
                  THEN Create(fn, insert, "gep", <<var, Constant("i32", 0), Constant("i32", 0)>>)
                  ELSE Create(fn, insert, "load", <<var>>)
  <2>1. ~require_lvalue /\ fn' = c.fn /\ tmp_val' = c.val
    BY <1>6 DEF ValueOf
  <2>2. ~InVisit("target")
    BY <2>1 DEF Inv
  <2> HIDE DEF var, t
  <2>3. /\ visits # <<>> /\ Opens(Top) = 0
        /\ (IF t \in Arrays THEN PointerTo(ElementOf(t)) ELSE t) \in Yields(Top)
    BY <1>3, <1>4, <2>2, WantedFacts
  <2>4. fn \in Code /\ insert \in 1 .. Len(fn.code)
    BY <2>3 DEF Inv
  <2>5. /\ Continues(fn, c.fn) /\ c.val \in Value
        /\ c.val.type = IF t \in Arrays THEN PointerTo(ElementOf(t)) ELSE t
    <3>1. CASE t \in Arrays
      BY <1>3, <2>4, <3>1, ArrayFacts, ZeroFacts DEF t
    <3>2. CASE t \notin Arrays
      BY <1>3, <2>4, <3>2, LoadFacts DEF t
    <3> QED BY <3>1, <3>2
  <2> HIDE DEF c
  <2>6. Goes(0)
    BY <1>2, <2>1, <2>3, <2>5, StayedGoes
  <2> QED BY <1>2, <2>1, <2>3, <2>5, <2>6, ReturnedPlain
<1> QED BY <1>1, <1>5, <1>6

LEMMA IndexedVarInv == Inv /\ IndexedVar => Inv'
<1> SUFFICES ASSUME Inv, IndexedVar PROVE Inv'
  OBVIOUS
<1> DEFINE child == Expression("number")
<1>1. PICK n \in UserNames :
        /\ IsVariable(n) /\ Pointee(Find(n).type) \notin Scalars
        /\ visits' = Call([Visit("index") EXCEPT !.val = Find(n), !.flag = require_lvalue], child)
  BY DEF IndexedVar
<1>2. /\ WantsNumber \/ InVisit("target")
      /\ require_lvalue' = FALSE
      /\ UNCHANGED <<inner, fn, insert, tmp_val, functions>>
  BY DEF IndexedVar, LvalueTaken
<1> DEFINE var == Find(n)
           frame == [Visit("index") EXCEPT !.val = var, !.flag = require_lvalue]
<1>3. var \in Value /\ var.type \in Pointers /\ Pointee(var.type) \notin Scalars
  BY <1>1, VariableFacts
<1> HIDE DEF var
<1>4. /\ frame \in Frame /\ frame.visit = "index" /\ frame.flag = require_lvalue
      /\ Opens(frame) = 0
  <2>1. "index" \in Visits
    BY DEF Visits
  <2>2. Visit("index") \in Shape /\ Visit("index").visit = "index"
    BY <2>1, VisitFacts
  <2>3. /\ frame \in Shape /\ frame.visit = "index" /\ frame.val = var
        /\ frame.flag = require_lvalue
    BY <1>3, <2>2 DEF Shape, Inv
  <2> HIDE DEF frame
  <2> QED BY <1>3, <2>3 DEF Frame, Carries, Opens
<1>5. visits' = Call(frame, child)
  BY <1>1 DEF var
<1> HIDE DEF frame
<1>6. Needs(frame) = Scalars /\ Yields(frame) = IF require_lvalue THEN Addresses ELSE Scalars
  BY <1>4 DEF Needs, Yields
<1>7. visits # <<>> /\ Opens(Top) = 0 /\ Yields(frame) \subseteq Yields(Top)
  <2>1. CASE WantsNumber
    BY <1>6, <2>1, NumberFacts
  <2>2. CASE InVisit("target")
    BY <1>6, <2>2, TargetFacts
  <2> QED BY <1>2, <2>1, <2>2
<1>8. /\ child \in Frame /\ child.visit = "expression" /\ Opens(child) = 0
      /\ Needs(child) = TypeNames /\ Yields(child) = Scalars
  BY ExpressionFacts
<1> HIDE DEF child
<1>9. Goes(0)
  BY <1>2, <1>7, SameGoes
<1> QED BY <1>2, <1>4, <1>5, <1>6, <1>7, <1>8, <1>9, CalledPlain

LEMMA EndIndexInv == Inv /\ EndIndex => Inv'
<1> SUFFICES ASSUME Inv, EndIndex PROVE Inv'
  OBVIOUS
<1> DEFINE exceptBB == Len(fn.code) + 1
           contBB == Len(fn.code) + 2
           f0 == NewBlocks(fn, 2)
           i == AsIndex(f0, insert, tmp_val)
           zero == Constant("i32", 0)
           is_neg == Create(i.fn, insert, "lt", <<i.val, zero>>)
           f1 == CreateCondBr(is_neg.fn, insert, is_neg.val, exceptBB, contBB)
           f2 == CreateCall(f1, exceptBB, Find(NegName).id, <<>>)
           f3 == RetDefault(f2, exceptBB)
           address == ElementAddress(f3, contBB, Top.val, i.val)
           element == Create(address.fn, contBB, "load", <<address.val>>)
<1>1. /\ visits # <<>> /\ Top.visit = "index"
      /\ fn' = IF Top.flag THEN address.fn ELSE element.fn
      /\ tmp_val' = IF Top.flag THEN address.val ELSE element.val
      /\ insert' = contBB /\ visits' = Leave
      /\ UNCHANGED <<inner, require_lvalue, functions>>
  BY DEF EndIndex, InVisit, NegName
<1>2. /\ fn \in Code /\ Len(fn.code) \in Nat /\ insert \in 1 .. Len(fn.code)
      /\ tmp_val \in Value /\ tmp_val.type \in Scalars
  BY <1>1, InvFacts DEF Inv, Needs
<1>3. /\ Top.val \in Value /\ Top.val.type \in Pointers /\ Pointee(Top.val.type) \notin Scalars
  BY <1>1, TopFacts DEF Shape, Carries
<1>4. /\ f0 \in Code /\ Len(f0.code) = Len(fn.code) + 2
      /\ {insert, exceptBB, contBB} \subseteq 1 .. Len(f0.code)
  BY <1>2, NewBlocksFacts
<1>5. exceptBB \in Nat /\ contBB \in Nat /\ zero \in Value /\ zero.type = "i32"
  BY <1>2, ZeroFacts
<1>6. Find(NegName).id = NegIdxExcept /\ NegIdxExcept \in 1 .. Len(Signatures)
      /\ Types(<<>>) = Signatures[NegIdxExcept].params /\ <<>> \in Seq(Value)
  <2>1. functions >= NegIdxExcept
    <3>1. functions = CurrentFunction
      BY <1>1 DEF Inv
    <3> QED BY <3>1, SignatureFacts
  <2>2. Find(NegName) = FunctionOf(NegIdxExcept)
    <3>1. Tables
      BY DEF Inv
    <3> QED BY <2>1, <3>1, FindFacts
  <2>3. Types(<<>>) = <<>> /\ Signatures[NegIdxExcept].params = <<>>
    BY ExpressionsAssumption DEF Types
  <2> QED BY <2>2, <2>3, ExpressionsAssumption DEF FunctionOf
<1> HIDE DEF exceptBB, contBB, f0, zero
<1>7. Continues(f0, i.fn) /\ i.val \in Value /\ i.val.type = "i32"
  BY <1>2, <1>4, ConvertedFacts DEF AsIndex, Scalars
<1> HIDE DEF i
<1>8. Continues(i.fn, is_neg.fn) /\ is_neg.val \in Value /\ is_neg.val.type = "i1"
  <2>1. i.fn \in Code /\ insert \in 1 .. Len(i.fn.code) /\ i.fn.made + 1 \in Nat
    BY <1>4, <1>7, CodeFacts DEF Continues
  <2>2. "lt" \in Comparisons /\ "i1" = ResultType("lt", <<i.val, zero>>)
    BY Operations DEF ResultType, Arithmetic, Comparisons
  <2>3. Instr("lt", "i1", <<i.val, zero>>, <<>>, i.fn.made + 1) \in Fit
    BY <1>5, <1>7, <2>1, <2>2, FitBinary
  <2> QED BY <2>1, <2>2, <2>3, CreateFacts
<1> HIDE DEF is_neg
<1>9. Continues(is_neg.fn, f1)
  <2>1. is_neg.fn \in Code /\ insert \in 1 .. Len(is_neg.fn.code)
    BY <1>4, <1>7, <1>8 DEF Continues
  <2> QED BY <1>5, <1>8, <2>1, BranchFacts
<1> HIDE DEF f1
<1>10. Continues(f1, f2)
  <2>1. f1 \in Code /\ exceptBB \in 1 .. Len(f1.code)
    BY <1>4, <1>7, <1>8, <1>9 DEF Continues
  <2> QED BY <1>6, <2>1, CallFacts
<1> HIDE DEF f2
<1>11. Continues(f2, f3)
  <2>1. f2 \in Code /\ exceptBB \in 1 .. Len(f2.code)
    BY <1>4, <1>7, <1>8, <1>9, <1>10 DEF Continues
  <2> QED BY <2>1, RetFacts
<1> HIDE DEF f3
<1>12. /\ f3 \in Code /\ Len(f3.code) = Len(f0.code) /\ contBB \in 1 .. Len(f3.code)
  BY <1>4, <1>7, <1>8, <1>9, <1>10, <1>11 DEF Continues
<1>13. /\ Continues(f3, address.fn) /\ address.val \in Value
       /\ address.val.type \in Addresses
  BY <1>3, <1>7, <1>12, ElementFacts
<1> HIDE DEF address
<1>14. /\ Continues(address.fn, element.fn) /\ element.val \in Value
       /\ element.val.type \in Scalars
  <2>1. address.fn \in Code /\ contBB \in 1 .. Len(address.fn.code)
    BY <1>12, <1>13 DEF Continues
  <2>2. address.val.type \in Pointers /\ Pointee(address.val.type) \in Scalars
    BY <1>13 DEF Addresses, Pointers, Pointees, PointerTo, Pointee, Scalars
  <2> QED BY <1>13, <2>1, <2>2, LoadFacts
<1> HIDE DEF element
<1>15. /\ fn' \in Code /\ Len(fn'.code) = Len(f0.code) /\ tmp_val' \in Value
       /\ tmp_val'.type \in IF Top.flag THEN Addresses ELSE Scalars
  BY <1>1, <1>12, <1>13, <1>14 DEF Continues
<1>16. Goes(0)
  <2>1. Tables' /\ Len(inner') >= Len(inner) + 0
    BY <1>1, InvFacts DEF Inv, Tables, Symbols
  <2>2. Len(fn'.code) >= Len(fn.code)
    BY <1>2, <1>4, <1>15
  <2> QED BY <1>1, <1>4, <1>15, <2>1, <2>2 DEF Goes
<1>17. /\ tmp_val'.type \in Yields(Top) /\ Opens(Top) = 0 /\ require_lvalue' = FALSE
  <2>1. Yields(Top) = IF Top.flag THEN Addresses ELSE Scalars
    BY <1>1 DEF Yields
  <2> QED BY <1>1, <1>15, <2>1, TopFacts DEF Opens, InVisit
<1> QED BY <1>1, <1>16, <1>17, ReturnedPlain

LEMMA NumberExpression ==
  LET child == Expression("number")
  IN  /\ child \in Frame /\ child.visit = "expression" /\ Opens(child) = 0
      /\ Needs(child) = TypeNames /\ Yields(child) = Scalars
  BY ExpressionFacts

LEMMA AssignExpressionInv == Inv /\ AssignExpression => Inv'
<1> SUFFICES ASSUME Inv, AssignExpression PROVE Inv'
  OBVIOUS
<1> DEFINE frame == Visit("assign")
           child == Expression("number")
<1>1. /\ WantsNumber /\ visits' = Call(frame, child)
      /\ UNCHANGED <<inner, fn, insert, tmp_val, require_lvalue, functions>>
  BY DEF AssignExpression
<1>2. /\ visits # <<>> /\ Opens(Top) = 0 /\ Scalars \subseteq Yields(Top)
      /\ require_lvalue' = FALSE
  BY <1>1, NumberFacts
<1>3. frame \in Frame /\ frame.visit = "assign" /\ Opens(frame) = 0
  BY VisitFacts DEF Visits
<1> HIDE DEF frame
<1>4. Yields(frame) = Scalars /\ Needs(frame) = Scalars
  BY <1>3 DEF Yields, Needs
<1>5. /\ child \in Frame /\ child.visit = "expression" /\ Opens(child) = 0
      /\ Needs(child) = TypeNames /\ Yields(child) = Scalars
  BY NumberExpression
<1> HIDE DEF child
<1>6. Goes(0)
  BY <1>1, <1>2, SameGoes
<1> QED BY <1>1, <1>2, <1>3, <1>4, <1>5, <1>6, CalledPlain

LEMMA AssignTargetInv == Inv /\ AssignTarget => Inv'
<1> SUFFICES ASSUME Inv, AssignTarget PROVE Inv'
  OBVIOUS
<1> DEFINE frame == [Visit("store") EXCEPT !.val = tmp_val]
           child == Visit("target")
<1>1. /\ visits # <<>> /\ Top.visit = "assign" /\ visits' = Call(frame, child)
      /\ require_lvalue' = TRUE
      /\ UNCHANGED <<inner, fn, insert, tmp_val, functions>>
  BY DEF AssignTarget, InVisit
<1>2. tmp_val \in Value /\ tmp_val.type \in Scalars
  BY <1>1 DEF Inv, Needs
<1>3. frame \in Frame /\ frame.visit = "store" /\ Opens(frame) = 0
  <2>1. "store" \in Visits
    BY DEF Visits
  <2>2. Visit("store") \in Shape /\ Visit("store").visit = "store"
    BY <2>1, VisitFacts
  <2>3. frame \in Shape /\ frame.visit = "store" /\ frame.val = tmp_val
    BY <1>2, <2>2 DEF Shape
  <2> HIDE DEF frame
  <2> QED BY <1>2, <2>3 DEF Frame, Carries, Opens
<1>4. child \in Frame /\ child.visit = "target" /\ Opens(child) = 0
  BY VisitFacts DEF Visits
<1> HIDE DEF frame, child
<1>5. /\ Yields(frame) = Scalars /\ Needs(frame) = Addresses
      /\ Yields(child) = Addresses /\ Needs(child) = TypeNames
  BY <1>3, <1>4 DEF Yields, Needs
<1>6. Yields(Top) = Scalars /\ Opens(Top) = 0
  BY <1>1 DEF Yields, Opens
<1>7. Goes(0)
  BY <1>1, SameGoes
<1> QED BY <1>1, <1>3, <1>4, <1>5, <1>6, <1>7, CalledPlain

LEMMA EndAssignInv == Inv /\ EndAssign => Inv'
<1> SUFFICES ASSUME Inv, EndAssign PROVE Inv'
  OBVIOUS
<1> DEFINE t == Pointee(tmp_val.type)
           c == Converted(fn, insert, Top.val, t)
<1>1. /\ visits # <<>> /\ Top.visit = "store"
      /\ fn' = Create(c.fn, insert, "store", <<c.val, tmp_val>>).fn
      /\ tmp_val' = c.val /\ visits' = Leave
      /\ UNCHANGED <<inner, insert, require_lvalue, functions>>
  BY DEF EndAssign, InVisit
<1>2. /\ fn \in Code /\ insert \in 1 .. Len(fn.code) /\ tmp_val \in Value
      /\ tmp_val.type \in Addresses
  BY <1>1 DEF Inv, Needs
<1>3. t \in Scalars /\ PointerTo(t) = tmp_val.type
  BY <1>2 DEF Addresses, Pointee, PointerTo, Scalars
<1>4. Top.val \in Value /\ Top.val.type \in Scalars
  BY <1>1, TopFacts DEF Shape, Carries
<1> HIDE DEF t
<1>5. Continues(fn, c.fn) /\ c.val \in Value /\ c.val.type = t
  BY <1>2, <1>3, <1>4, ConvertedFacts
<1> HIDE DEF c
<1>6. Continues(c.fn, fn')
  <2>1. c.fn \in Code /\ insert \in 1 .. Len(c.fn.code) /\ c.fn.made + 1 \in Nat
    BY <1>2, <1>5, CodeFacts DEF Continues
  <2>2. /\ Instr("store", "void", <<c.val, tmp_val>>, <<>>, c.fn.made + 1) \in Fit
        /\ "void" = ResultType("store", <<c.val, tmp_val>>)
    BY <1>2, <1>3, <1>5, <2>1, FitStore, TypeFacts
  <2> QED BY <1>1, <2>1, <2>2, CreateFacts
<1>7. Goes(0)
  BY <1>1, <1>5, <1>6, StayedGoes DEF Continues
<1>8. /\ tmp_val'.type \in Yields(Top) /\ Opens(Top) = 0 /\ require_lvalue' = FALSE
  BY <1>1, <1>3, <1>5, TopFacts DEF Yields, Opens, InVisit
<1> QED BY <1>1, <1>7, <1>8, ReturnedPlain

LEMMA BinaryExpressionInv == Inv /\ BinaryExpression => Inv'
<1> SUFFICES ASSUME Inv, BinaryExpression PROVE Inv'
  OBVIOUS
<1> DEFINE child == Expression("number")
<1>1. /\ WantsNumber
      /\ UNCHANGED <<inner, fn, insert, tmp_val, require_lvalue, functions>>
  BY DEF BinaryExpression
<1>2. PICK op \in Operators : visits' = Call([Visit("left") EXCEPT !.op = op], child)
  BY DEF BinaryExpression
<1> DEFINE frame == [Visit("left") EXCEPT !.op = op]
<1>3. /\ visits # <<>> /\ Opens(Top) = 0 /\ Scalars \subseteq Yields(Top)
      /\ require_lvalue' = FALSE
  BY <1>1, NumberFacts
<1>4. frame \in Frame /\ frame.visit = "left" /\ Opens(frame) = 0
  <2>1. "left" \in Visits /\ op \in Arithmetic \cup Comparisons
    BY ExpressionsAssumption DEF Visits
  <2>2. Visit("left") \in Shape /\ Visit("left").visit = "left"
    BY <2>1, VisitFacts
  <2>3. frame \in Shape /\ frame.visit = "left"
    BY <2>1, <2>2 DEF Shape
  <2> HIDE DEF frame
  <2> QED BY <2>3 DEF Frame, Carries, Opens
<1>5. visits' = Call(frame, child)
  BY <1>2
<1> HIDE DEF frame
<1>6. Yields(frame) = Scalars /\ Needs(frame) = Scalars
  BY <1>4 DEF Yields, Needs
<1>7. /\ child \in Frame /\ child.visit = "expression" /\ Opens(child) = 0
      /\ Needs(child) = TypeNames /\ Yields(child) = Scalars
  BY NumberExpression
<1> HIDE DEF child
<1>8. Goes(0)
  BY <1>1, <1>3, SameGoes
<1> QED BY <1>3, <1>4, <1>5, <1>6, <1>7, <1>8, CalledPlain

LEMMA RightOperandInv == Inv /\ RightOperand => Inv'
<1> SUFFICES ASSUME Inv, RightOperand PROVE Inv'
  OBVIOUS
<1> DEFINE frame == [Top EXCEPT !.visit = "right", !.val = tmp_val]
           child == Expression("number")
<1>1. /\ visits # <<>> /\ Top.visit = "left" /\ visits' = Call(frame, child)
      /\ UNCHANGED <<inner, fn, insert, tmp_val, require_lvalue, functions>>
  BY DEF RightOperand, InVisit
<1>2. tmp_val \in Value /\ tmp_val.type \in Scalars
  BY <1>1 DEF Inv, Needs
<1>3. frame \in Frame /\ frame.visit = "right" /\ Opens(frame) = 0
  <2>1. "right" \in Visits /\ Top \in Shape
    BY <1>1, TopFacts DEF Visits
  <2>2. frame \in Shape /\ frame.visit = "right" /\ frame.val = tmp_val
    BY <1>2, <2>1 DEF Shape
  <2> HIDE DEF frame
  <2> QED BY <1>2, <2>2 DEF Frame, Carries, Opens
<1> HIDE DEF frame
<1>4. /\ Yields(frame) = Scalars /\ Needs(frame) = Scalars
      /\ Yields(Top) = Scalars /\ Opens(Top) = 0
  BY <1>1, <1>3 DEF Yields, Needs, Opens
<1>5. /\ child \in Frame /\ child.visit = "expression" /\ Opens(child) = 0
      /\ Needs(child) = TypeNames /\ Yields(child) = Scalars
  BY NumberExpression
<1> HIDE DEF child
<1>6. Goes(0) /\ require_lvalue' = FALSE
  BY <1>1, SameGoes, TopFacts DEF InVisit
<1> QED BY <1>1, <1>3, <1>4, <1>5, <1>6, CalledPlain

LEMMA EndBinaryInv == Inv /\ EndBinary => Inv'
<1> SUFFICES ASSUME Inv, EndBinary PROVE Inv'
  OBVIOUS
<1> DEFINE p == Promote(fn, insert, Top.val, tmp_val)
           op == IF p.is_int THEN Top.op ELSE FloatOp[Top.op]
           c == Create(p.fn, insert, op, <<p.l, p.r>>)
           z == IF Top.op \in Comparisons THEN Create(c.fn, insert, "zext", <<c.val>>) ELSE c
<1>1. /\ visits # <<>> /\ Top.visit = "right"
      /\ fn' = z.fn /\ tmp_val' = z.val /\ visits' = Leave
      /\ UNCHANGED <<inner, insert, require_lvalue, functions>>
  BY DEF EndBinary, InVisit
<1>2. /\ fn \in Code /\ insert \in 1 .. Len(fn.code) /\ tmp_val \in Value
      /\ tmp_val.type \in Scalars
  BY <1>1 DEF Inv, Needs
<1>3. /\ Top.val \in Value /\ Top.val.type \in Scalars
      /\ Top.op \in Arithmetic \cup Comparisons
  BY <1>1, TopFacts DEF Shape, Carries
<1>4. /\ Continues(fn, p.fn) /\ p.l \in Value /\ p.r \in Value
      /\ p.l.type = IF p.is_int THEN "i32" ELSE "float"
      /\ p.r.type = p.l.type
  BY <1>2, <1>3, PromoteFacts
<1> HIDE DEF p
<1>5. \/ p.l.type = "i32" /\ op \in Arithmetic \cup Comparisons
      \/ p.l.type = "float" /\ op \in FArithmetic \cup FComparisons
  BY <1>3, <1>4, Operations
<1>6. ResultType(op, <<p.l, p.r>>) \in IF Top.op \in Comparisons THEN {"i1"} ELSE Scalars
  <2>1. CASE Top.op \in Comparisons
    <3>1. op \in Comparisons \cup FComparisons
      BY <2>1, Operations
    <3> HIDE DEF op
    <3> QED BY <2>1, <3>1, Operations DEF ResultType, Arithmetic, Comparisons
  <2>2. CASE Top.op \notin Comparisons
    <3>1. op \in Arithmetic \cup FArithmetic
      BY <1>3, <2>2, Operations
    <3> HIDE DEF op
    <3>2. ResultType(op, <<p.l, p.r>>) \in Scalars
      BY <3>1, Operations DEF ResultType, Scalars, Arithmetic, Comparisons
    <3> QED BY <2>2, <3>2
  <2> QED BY <2>1, <2>2
<1> HIDE DEF op
<1>7. /\ Continues(p.fn, c.fn) /\ c.val \in Value
      /\ c.val.type = ResultType(op, <<p.l, p.r>>)
  <2>1. p.fn \in Code /\ insert \in 1 .. Len(p.fn.code) /\ p.fn.made + 1 \in Nat
    BY <1>2, <1>4, CodeFacts DEF Continues
  <2>2. Instr(op, ResultType(op, <<p.l, p.r>>), <<p.l, p.r>>, <<>>, p.fn.made + 1) \in Fit
    BY <1>4, <1>5, <2>1, FitBinary
  <2> QED BY <2>1, <2>2, CreateFacts
<1> HIDE DEF c
<1>8. Continues(c.fn, z.fn) /\ z.val \in Value /\ z.val.type \in Scalars
  <2>1. c.fn \in Code /\ insert \in 1 .. Len(c.fn.code) /\ c.fn.made + 1 \in Nat
        /\ Continues(c.fn, c.fn)
    BY <1>2, <1>4, <1>7, CodeFacts DEF Continues
  <2>2. CASE Top.op \in Comparisons
    <3>1. /\ Instr("zext", "i32", <<c.val>>, <<>>, c.fn.made + 1) \in Fit
          /\ "i32" = ResultType("zext", <<c.val>>)
      BY <1>6, <1>7, <2>1, <2>2, FitCast
    <3>2. LET d == Create(c.fn, insert, "zext", <<c.val>>)
          IN  Continues(c.fn, d.fn) /\ d.val \in Value /\ d.val.type = "i32"
      BY <2>1, <3>1, CreateFacts
    <3> QED BY <2>2, <3>2 DEF Scalars
  <2>3. CASE Top.op \notin Comparisons
    BY <1>6, <1>7, <2>1, <2>3
  <2> QED BY <2>2, <2>3
<1> HIDE DEF z
<1>9. Goes(0)
  <2>1. Continues(fn, fn')
    BY <1>1, <1>4, <1>7, <1>8 DEF Continues
  <2> QED BY <1>1, <1>8, <2>1, StayedGoes
<1>10. /\ tmp_val'.type \in Yields(Top) /\ Opens(Top) = 0 /\ require_lvalue' = FALSE
  BY <1>1, <1>8, TopFacts DEF Yields, Opens, InVisit
<1> QED BY <1>1, <1>9, <1>10, ReturnedPlain

LEMMA CallFunctionInv == Inv /\ CallFunction => Inv'
<1> SUFFICES ASSUME Inv, CallFunction PROVE Inv'
  OBVIOUS
<1>1. /\ WantsNumber
      /\ UNCHANGED <<inner, fn, insert, tmp_val, require_lvalue, functions>>
  BY DEF CallFunction
<1>2. PICK n \in Names :
        /\ Find(n) # Unbound /\ Find(n).kind = "function"
        /\ Signatures[Find(n).id].ret = "void" => Top.want = "any"
        /\ visits' = Become([Visit("call") EXCEPT !.fun = Find(n).id])
  BY DEF CallFunction
<1> DEFINE g == Find(n).id
           frame == [Visit("call") EXCEPT !.fun = g]
<1>3. g \in 1 .. Len(Signatures)
  <2>1. Find(n) \in Bindable
    BY <1>2, FindFacts DEF Inv
  <2> QED BY <1>2, <2>1 DEF Bindable
<1>4. visits' = Become(frame) /\ (Signatures[g].ret = "void" => Top.want = "any")
  BY <1>2
<1> HIDE DEF g
<1>5. /\ visits # <<>> /\ Opens(Top) = 0 /\ Scalars \subseteq Yields(Top)
      /\ require_lvalue' = FALSE
  BY <1>1, NumberFacts
<1>6. /\ frame \in Frame /\ frame.visit = "call" /\ frame.fun = g /\ Opens(frame) = 0
  <2>1. "call" \in Visits /\ g \in Nat
    BY <1>3 DEF Visits
  <2>2. Visit("call") \in Shape /\ Visit("call").visit = "call" /\ Visit("call").args = <<>>
    BY <2>1, VisitFacts
  <2>3. frame \in Shape /\ frame.visit = "call" /\ frame.fun = g /\ frame.args = <<>>
    BY <2>1, <2>2 DEF Shape
  <2> HIDE DEF frame
  <2>4. ArgumentsFit(frame)
    <3>1. Len(frame.args) = 0 /\ Len(Signatures[g].params) \in Nat
      BY <1>3, <2>3, SignatureFacts
    <3> QED BY <1>3, <2>3, <3>1 DEF ArgumentsFit
  <2> QED BY <2>3, <2>4 DEF Frame, Carries, Opens
<1> HIDE DEF frame
<1>7. Yields(frame) \subseteq Yields(Top)
  <2>1. Yields(frame) = {Signatures[g].ret}
    BY <1>6 DEF Yields
  <2>2. Signatures[g].ret \in Scalars \cup {"void"}
    BY <1>3, SignatureFacts
  <2>3. Signatures[g].ret = "void" => "void" \in Yields(Top)
    BY <1>1, <1>4, NumberFacts DEF TypeNames
  <2> QED BY <1>5, <2>1, <2>2, <2>3
<1>8. Needs(frame) = TypeNames /\ tmp_val'.type \in TypeNames
  BY <1>1, <1>5, <1>6, TopFacts DEF Needs
<1>9. Goes(0)
  BY <1>1, <1>5, SameGoes
<1> QED BY <1>4, <1>5, <1>6, <1>7, <1>8, <1>9, BecamePlain

LEMMA NextArgumentInv == Inv /\ NextArgument => Inv'
<1> SUFFICES ASSUME Inv, NextArgument PROVE Inv'
  OBVIOUS
<1> DEFINE t == ParamType
           w == IF t \in Scalars THEN "number" ELSE t
           frame == [Top EXCEPT !.visit = "argument"]
           child == Expression(w)
<1>1. /\ visits # <<>> /\ Top.visit = "call" /\ visits' = Call(frame, child)
      /\ Len(Top.args) < Len(Signatures[Top.fun].params)
      /\ UNCHANGED <<inner, fn, insert, tmp_val, require_lvalue, functions>>
  BY DEF NextArgument, InVisit
<1>2. Top \in Shape /\ ArgumentsFit(Top) /\ Top.fun \in 1 .. Len(Signatures)
      /\ Top.args \in Seq(Value)
  BY <1>1, TopFacts DEF Carries, ArgumentsFit, Shape
<1>3. t \in Scalars \cup Addresses
  <2>1. /\ Signatures[Top.fun].params \in Seq(Scalars \cup {"i32*", "float*"})
        /\ Len(Top.args) \in Nat
    BY <1>2, SignatureFacts
  <2> QED BY <1>1, <2>1 DEF ParamType, Addresses
<1>4. /\ frame \in Frame /\ frame.visit = "argument" /\ Opens(frame) = 0
      /\ frame.fun = Top.fun /\ frame.args = Top.args
  <2>1. "argument" \in Visits
    BY DEF Visits
  <2>2. /\ frame \in Shape /\ frame.visit = "argument"
        /\ frame.fun = Top.fun /\ frame.args = Top.args
    BY <1>2, <2>1 DEF Shape
  <2> HIDE DEF frame
  <2>3. ArgumentsFit(frame)
    BY <1>1, <1>2, <2>2 DEF ArgumentsFit
  <2> QED BY <2>2, <2>3 DEF Frame, Carries, Opens
<1>5. NextParam(frame) = t
  BY <1>4 DEF NextParam, ParamType
<1> HIDE DEF frame, t
<1>6. /\ Needs(frame) = IF t \in Scalars THEN Scalars ELSE {t}
      /\ Yields(frame) = Yields(Top) /\ Opens(Top) = 0
  BY <1>1, <1>4, <1>5 DEF Needs, Yields, Opens
<1>7. /\ child \in Frame /\ child.visit = "expression" /\ Opens(child) = 0
      /\ Needs(child) = TypeNames
      /\ Yields(child) = IF t \in Scalars THEN Scalars ELSE {t}
  <2>1. w \in {"number", "any"} \cup Addresses
    BY <1>3
  <2>2. w = "number" <=> t \in Scalars
    BY <1>3 DEF Addresses, Scalars
  <2>3. w # "any" /\ (t \notin Scalars => w = t)
    BY <1>3 DEF Addresses
  <2> HIDE DEF w
  <2> QED BY <2>1, <2>2, <2>3, ExpressionFacts
<1> HIDE DEF child
<1>8. Goes(0) /\ require_lvalue' = FALSE
  BY <1>1, SameGoes, TopFacts DEF InVisit
<1> QED BY <1>1, <1>4, <1>6, <1>7, <1>8, CalledPlain

LEMMA EndArgumentInv == Inv /\ EndArgument => Inv'
<1> SUFFICES ASSUME Inv, EndArgument PROVE Inv'
  OBVIOUS
<1> DEFINE t == ParamType
           c == Converted(fn, insert, tmp_val, t)
           frame == [Top EXCEPT !.visit = "call", !.args = Append(@, c.val)]
<1>1. /\ visits # <<>> /\ Top.visit = "argument"
      /\ fn' = c.fn /\ tmp_val' = c.val /\ visits' = Become(frame)
      /\ UNCHANGED <<inner, insert, require_lvalue, functions>>
  BY DEF EndArgument, InVisit
<1>2. /\ Top \in Shape /\ ArgumentsFit(Top) /\ Top.fun \in 1 .. Len(Signatures)
      /\ Top.args \in Seq(Value)
  BY <1>1, TopFacts DEF Carries, ArgumentsFit, Shape
<1>3. NextParam(Top) = t
  BY DEF NextParam, ParamType
<1>4. /\ fn \in Code /\ insert \in 1 .. Len(fn.code) /\ tmp_val \in Value
      /\ tmp_val.type \in IF t \in Scalars THEN Scalars ELSE {t}
  BY <1>1, <1>3 DEF Inv, Needs
<1>5. Continues(fn, c.fn) /\ c.val \in Value /\ c.val.type = t
  <2>1. tmp_val.type = t \/ (tmp_val.type \in Scalars /\ t \in Scalars)
    BY <1>4
  <2> HIDE DEF t
  <2> QED BY <1>4, <2>1, ConvertedFacts
<1> HIDE DEF c
<1>6. /\ frame \in Frame /\ frame.visit = "call" /\ Opens(frame) = 0
      /\ frame.fun = Top.fun
  <2>1. "call" \in Visits
    BY DEF Visits
  <2>2. /\ Append(Top.args, c.val) \in Seq(Value)
        /\ Len(Append(Top.args, c.val)) = Len(Top.args) + 1 /\ Len(Top.args) \in Nat
        /\ \A k \in 1 .. Len(Top.args) + 1 :
             Append(Top.args, c.val)[k] = IF k = Len(Top.args) + 1 THEN c.val ELSE Top.args[k]
    BY <1>2, <1>5
  <2>3. /\ frame \in Shape /\ frame.visit = "call" /\ frame.fun = Top.fun
        /\ frame.args = Append(Top.args, c.val)
    BY <1>2, <2>1, <2>2 DEF Shape
  <2> HIDE DEF frame
  <2>4. ArgumentsFit(frame)
    <3> DEFINE params == Signatures[Top.fun].params
    <3>1. Len(Top.args) < Len(params) /\ Len(params) \in Nat
          /\ \A k \in 1 .. Len(Top.args) : Top.args[k].type = params[k]
      BY <1>1, <1>2, SignatureFacts DEF ArgumentsFit
    <3>2. c.val.type = params[Len(Top.args) + 1]
      BY <1>3, <1>5 DEF NextParam
    <3> HIDE DEF params
    <3>3. \A k \in 1 .. Len(frame.args) : frame.args[k].type = params[k]
      BY <2>2, <2>3, <3>1, <3>2
    <3>4. Len(frame.args) <= Len(params)
      BY <2>2, <2>3, <3>1
    <3> QED BY <1>2, <2>3, <3>3, <3>4 DEF ArgumentsFit, params
  <2> QED BY <2>3, <2>4 DEF Frame, Carries, Opens
<1> HIDE DEF frame
<1>7. /\ Yields(frame) = Yields(Top) /\ Opens(Top) = 0
      /\ Needs(frame) = TypeNames /\ tmp_val'.type \in TypeNames
  BY <1>1, <1>5, <1>6 DEF Needs, Yields, Opens, Value
<1>8. require_lvalue' = FALSE
  BY <1>1, TopFacts DEF InVisit
<1>9. Goes(0)
  BY <1>1, <1>5, StayedGoes
<1> QED BY <1>1, <1>6, <1>7, <1>8, <1>9, BecamePlain

LEMMA EndCallInv == Inv /\ EndCall => Inv'
<1> SUFFICES ASSUME Inv, EndCall PROVE Inv'
  OBVIOUS
<1> DEFINE g == Top.fun
           args == Top.args
           params == Signatures[g].params
<1>1. /\ visits # <<>> /\ Top.visit = "call" /\ Len(args) = Len(params)
      /\ fn' = CreateCall(fn, insert, g, args)
      /\ tmp_val' = Result(Signatures[g].ret, fn.made + 1) /\ visits' = Leave
      /\ UNCHANGED <<inner, insert, require_lvalue, functions>>
  BY DEF EndCall, InVisit
<1>2. /\ g \in 1 .. Len(Signatures) /\ args \in Seq(Value)
      /\ \A k \in 1 .. Len(args) : args[k].type = params[k]
  BY <1>1, TopFacts DEF Carries, ArgumentsFit, Shape
<1>3. Types(args) = params
  <2>1. params \in Seq(Scalars \cup {"i32*", "float*"})
    BY <1>2, SignatureFacts
  <2> HIDE DEF params, args
  <2>2. params = [k \in 1 .. Len(params) |-> params[k]] /\ DOMAIN args = 1 .. Len(args)
    BY <1>2, <2>1
  <2> QED BY <1>1, <1>2, <2>2 DEF Types
<1>4. fn \in Code /\ insert \in 1 .. Len(fn.code)
  BY <1>1 DEF Inv
<1>5. /\ Continues(fn, fn') /\ tmp_val' \in Value /\ tmp_val'.type = Signatures[g].ret
  <2> HIDE DEF g, args
  <2> QED BY <1>1, <1>2, <1>3, <1>4, CallFacts
<1>6. Goes(0)
  BY <1>1, <1>5, StayedGoes
<1>7. /\ tmp_val'.type \in Yields(Top) /\ Opens(Top) = 0 /\ require_lvalue' = FALSE
  BY <1>1, <1>5, TopFacts DEF Yields, Opens, InVisit
<1> QED BY <1>1, <1>6, <1>7, ReturnedPlain

-----------------------------------------------------------------------------
(* The invariant holds throughout, and instructions that fit are all there *)
(* ever are.                                                               *)

LEMMA Initially == ExpressionsInit => Inv
<1> SUFFICES ASSUME ExpressionsInit PROVE Inv
  OBVIOUS
<1>1. /\ inner = <<>> /\ fn = [code |-> <<>>, made |-> 0] /\ visits = <<>>
      /\ tmp_val = NoValue /\ require_lvalue = FALSE /\ functions = 0
  BY DEF ExpressionsInit, ScopeInit
<1>2. fn \in Code
  BY <1>1 DEF Code, CodeShape, Numbered
<1>3. Tables
  BY <1>1, SignatureFacts DEF Tables, Symbols
<1>4. NoValue \in Value
  BY DEF NoValue, Value, Kinds, TypeNames
<1> QED BY <1>1, <1>2, <1>3, <1>4, EmptyStack DEF Inv, InVisit

LEMMA Inductive == Inv /\ [ExpressionsStep]_expressionsVars => Inv'
<1> SUFFICES ASSUME Inv, [ExpressionsStep]_expressionsVars PROVE Inv'
  OBVIOUS
<1>1. CASE \/ EnterGlobal \/ DeclareFunction \/ VarDeclaration \/ FunDeclaration
           \/ EnterFunction \/ Parameter \/ EndFunDeclaration
  BY <1>1, EnterGlobalInv, DeclareFunctionInv, VarDeclarationInv, FunDeclarationInv,
     EnterFunctionInv, ParameterInv, EndFunDeclarationInv
<1>2. CASE \/ EnterCompoundStmt \/ NextStatement \/ LeaveCompoundStmt \/ ExpressionStmt
           \/ SelectionStmt \/ BranchSelection \/ EndThen \/ ReturnStmt \/ EndReturnStmt
  BY <1>2, EnterCompoundStmtInv, NextStatementInv, LeaveCompoundStmtInv, ExpressionStmtInv,
     SelectionStmtInv, BranchSelectionInv, EndThenInv, ReturnStmtInv, EndReturnStmtInv
<1>3. CASE \/ Num \/ Var \/ IndexedVar \/ EndIndex
           \/ AssignExpression \/ AssignTarget \/ EndAssign
  BY <1>3, NumInv, VarInv, IndexedVarInv, EndIndexInv,
     AssignExpressionInv, AssignTargetInv, EndAssignInv
<1>4. CASE \/ BinaryExpression \/ RightOperand \/ EndBinary
           \/ CallFunction \/ NextArgument \/ EndArgument \/ EndCall
  BY <1>4, BinaryExpressionInv, RightOperandInv, EndBinaryInv,
     CallFunctionInv, NextArgumentInv, EndArgumentInv, EndCallInv
<1>5. CASE UNCHANGED expressionsVars
  <2>1. UNCHANGED <<inner, fn, insert, visits, tmp_val, require_lvalue, functions>>
    BY <1>5 DEF expressionsVars
  <2> QED BY <2>1 DEF Inv, Tables, InVisit, Top
<1> QED BY <1>1, <1>2, <1>3, <1>4, <1>5 DEF ExpressionsStep

(* The code, the stack of visits, tmp_val and the symbol table stay what   *)
(* the visit functions take them to be.                                    *)
THEOREM ExpressionsInvariant == ExpressionsSpec => []Inv
  BY Initially, Inductive, PTL DEF ExpressionsSpec

(* Whatever program is visited, with whatever functions, types, constants  *)
(* and operators, every operand of every instruction has the type the      *)
(* instruction requires.                                                   *)
THEOREM CodeIsWellTyped == ExpressionsSpec => []WellTyped
<1>1. Inv => WellTyped
  <2> SUFFICES ASSUME Inv, NEW i \in Instructions PROVE OperandsFit(i)
    BY DEF WellTyped
  <2>1. fn.code \in Seq(Seq(Fit)) /\ DOMAIN fn.code = 1 .. Len(fn.code)
    BY CodeFacts DEF Inv
  <2>2. PICK b \in DOMAIN fn.code : i \in Range(fn.code[b])
    BY DEF Instructions
  <2>3. fn.code[b] \in Seq(Fit)
    BY <2>1, <2>2
  <2>4. i \in Fit
    BY <2>2, <2>3 DEF Range
  <2> QED BY <2>4 DEF Fit
<1> QED BY <1>1, ExpressionsInvariant, PTL

\* Each step is one of the symbol table's, or leaves it alone.
LEMMA StepScopes ==
  ASSUME Bindable \subseteq Values, Inv, [ExpressionsStep]_expressionsVars
  PROVE  [ScopeNext]_inner
<1>1. CASE DeclareFunction \/ VarDeclaration \/ FunDeclaration \/ Parameter
  <2>1. Declares
    BY <1>1, DeclareFunctionInv, VarDeclarationInv, FunDeclarationInv, ParameterInv
  <2> QED BY <2>1 DEF Declares, ScopeNext
<1>2. CASE \/ EnterGlobal \/ EnterFunction \/ EndFunDeclaration \/ EnterCompoundStmt
           \/ LeaveCompoundStmt
  <2>1. CASE EnterGlobal
    BY <2>1 DEF EnterGlobal, ScopeNext
  <2>2. CASE EnterFunction
    BY <2>2 DEF EnterFunction, ScopeNext
  <2>3. CASE EndFunDeclaration
    BY <2>3 DEF EndFunDeclaration, ScopeNext
  <2>4. CASE EnterCompoundStmt
    BY <2>4 DEF EnterCompoundStmt, ScopeNext
  <2>5. CASE LeaveCompoundStmt
    BY <2>5 DEF LeaveCompoundStmt, ScopeNext
  <2> QED BY <1>2, <2>1, <2>2, <2>3, <2>4, <2>5
<1>3. CASE \/ NextStatement \/ ExpressionStmt \/ SelectionStmt \/ BranchSelection
           \/ EndThen \/ ReturnStmt \/ EndReturnStmt
  <2>1. CASE NextStatement
    BY <2>1 DEF NextStatement
  <2>2. CASE ExpressionStmt
    BY <2>2 DEF ExpressionStmt
  <2>3. CASE SelectionStmt
    BY <2>3 DEF SelectionStmt
  <2>4. CASE BranchSelection
    BY <2>4 DEF BranchSelection
  <2>5. CASE EndThen
    BY <2>5 DEF EndThen
  <2>6. CASE ReturnStmt
    BY <2>6 DEF ReturnStmt
  <2>7. CASE EndReturnStmt
    BY <2>7 DEF EndReturnStmt
  <2> QED BY <1>3, <2>1, <2>2, <2>3, <2>4, <2>5, <2>6, <2>7
<1>4. CASE \/ Num \/ Var \/ IndexedVar \/ EndIndex
           \/ AssignExpression \/ AssignTarget \/ EndAssign
  <2>1. CASE Num
    BY <2>1 DEF Num
  <2>2. CASE Var
    BY <2>2 DEF Var
  <2>3. CASE IndexedVar
    BY <2>3 DEF IndexedVar
  <2>4. CASE EndIndex
    BY <2>4 DEF EndIndex
  <2>5. CASE AssignExpression
    BY <2>5 DEF AssignExpression
  <2>6. CASE AssignTarget
    BY <2>6 DEF AssignTarget
  <2>7. CASE EndAssign
    BY <2>7 DEF EndAssign
  <2> QED BY <1>4, <2>1, <2>2, <2>3, <2>4, <2>5, <2>6, <2>7
<1>5. CASE \/ BinaryExpression \/ RightOperand \/ EndBinary \/ CallFunction
           \/ NextArgument \/ EndArgument \/ EndCall
  <2>1. CASE BinaryExpression
    BY <2>1 DEF BinaryExpression
  <2>2. CASE RightOperand
    BY <2>2 DEF RightOperand
  <2>3. CASE EndBinary
    BY <2>3 DEF EndBinary
  <2>4. CASE CallFunction
    BY <2>4 DEF CallFunction
  <2>5. CASE NextArgument
    BY <2>5 DEF NextArgument
  <2>6. CASE EndArgument
    BY <2>6 DEF EndArgument
  <2>7. CASE EndCall
    BY <2>7 DEF EndCall
  <2> QED BY <1>5, <2>1, <2>2, <2>3, <2>4, <2>5, <2>6, <2>7
<1>6. CASE UNCHANGED expressionsVars
  BY <1>6 DEF expressionsVars
<1> QED BY <1>1, <1>2, <1>3, <1>4, <1>5, <1>6 DEF ExpressionsStep

(* The visitor enters and leaves scopes, and binds names, only in ways the *)
(* symbol table was made for: seen through it, every visit of a program is *)
(* a run of a lexical environment, when the table's values are at least    *)
(* the functions and the addresses.                                        *)
THEOREM VisitorIsLexical ==
  ASSUME Bindable \subseteq Values
  PROVE  ExpressionsSpec => LexicalScoping
<1>1. ExpressionsInit => ScopeInit
  BY DEF ExpressionsInit
<1>2. Inv /\ [ExpressionsStep]_expressionsVars => [ScopeNext]_inner
  BY StepScopes
<1>3. ExpressionsSpec => ScopeSpec
  BY <1>1, <1>2, ExpressionsInvariant, PTL DEF ExpressionsSpec, ScopeSpec
<1> QED BY <1>3, ScopeIsLexical, PTL

-----------------------------------------------------------------------------
(* A value is made before it is used on every path.  The witness is the    *)
(* set D[b] of blocks every path to b passes, b with them: the entry has   *)
(* only itself, a new block has what the block it is made in has, and a    *)
(* jump goes where nothing but the target itself would have to be added.   *)

Has(f, d, n) ==
  d \in DOMAIN f.code /\ \E j \in DOMAIN f.code[d] : f.code[d][j].id = n

\* A value that an instruction made was made in one of the blocks of X.
Known(f, X, v) == v.kind = "instr" => \E d \in X : Has(f, d, v.id)
KnownAll(f, X, args) == \A k \in DOMAIN args : Known(f, X, args[k])

Behind(D, c) == D[c] \ {c}

Shaped(f) ==
  /\ Len(f.code) \in Nat /\ DOMAIN f.code = 1 .. Len(f.code)
  /\ \A b \in DOMAIN f.code :
       Len(f.code[b]) \in Nat /\ DOMAIN f.code[b] = 1 .. Len(f.code[b])

Leads(f, D, b, to) ==
  \A m \in DOMAIN to : to[m] \in DOMAIN f.code /\ Behind(D, to[m]) \subseteq D[b]

\* An operand stands before its user in the block, or in a block before it.
Uses(f, D, b, k, v) ==
  v.kind = "instr" => \/ \E j \in 1 .. k - 1 : f.code[b][j].id = v.id
                      \/ \E d \in Behind(D, b) : Has(f, d, v.id)

Sits(f, D, b, k) ==
  /\ Leads(f, D, b, f.code[b][k].to)
  /\ \A m \in DOMAIN f.code[b][k].args : Uses(f, D, b, k, f.code[b][k].args[m])

Solid(f, D) ==
  /\ Shaped(f)
  /\ D[1] \subseteq {1}
  /\ \A b \in DOMAIN f.code : b \in D[b] /\ D[b] \subseteq DOMAIN f.code
  /\ \A b \in DOMAIN f.code : \A k \in DOMAIN f.code[b] : Sits(f, D, b, k)

Grows(f, g) ==
  /\ DOMAIN f.code \subseteq DOMAIN g.code
  /\ \A d, n : Has(f, d, n) => Has(g, d, n)

Extends(f, g, D) == Solid(g, D) /\ Grows(f, g) /\ DOMAIN g.code = DOMAIN f.code

LEMMA GrowsKnown ==
  ASSUME NEW f, NEW g, Grows(f, g), NEW X, NEW Y, X \subseteq Y
  PROVE  /\ \A v : Known(f, X, v) => Known(g, Y, v)
         /\ \A args : KnownAll(f, X, args) => KnownAll(g, Y, args)
  BY DEF Grows, Known, KnownAll

LEMMA GrowsOn ==
  ASSUME NEW f, NEW g, NEW h, Grows(f, g), Grows(g, h)
  PROVE  Grows(f, h)
  BY DEF Grows

LEMMA GrowsStays == \A f : Grows(f, f)
  BY DEF Grows

\* What an instruction added at the end of a block does.
LEMMA EmittedCode ==
  ASSUME NEW f, Shaped(f), NEW b \in DOMAIN f.code, NEW op, NEW type, NEW args, NEW to
  PROVE  LET g == Emit(f, b, op, type, args, to)
             i == Instr(op, type, args, to, f.made + 1)
         IN  /\ Shaped(g) /\ DOMAIN g.code = DOMAIN f.code /\ Len(g.code) = Len(f.code)
             /\ \A d \in DOMAIN f.code \ {b} : g.code[d] = f.code[d]
             /\ Len(g.code[b]) = Len(f.code[b]) + 1
             /\ \A k \in 1 .. Len(f.code[b]) : g.code[b][k] = f.code[b][k]
             /\ g.code[b][Len(f.code[b]) + 1] = i
<1> DEFINE i == Instr(op, type, args, to, f.made + 1)
           s == f.code[b]
           code == [f.code EXCEPT ![b] = Append(@, i)]
           g == Emit(f, b, op, type, args, to)
<1>1. g = [code |-> code, made |-> f.made + 1]
  BY DEF Emit, Instr
<1>2. Len(s) \in Nat /\ DOMAIN s = 1 .. Len(s)
  BY DEF Shaped
<1> HIDE DEF i
<1>3. /\ Len(Append(s, i)) = Len(s) + 1 /\ DOMAIN Append(s, i) = 1 .. Len(s) + 1
      /\ \A k \in 1 .. Len(s) : Append(s, i)[k] = s[k]
      /\ Append(s, i)[Len(s) + 1] = i
  BY <1>2
<1>4. /\ DOMAIN code = DOMAIN f.code /\ code[b] = Append(s, i)
      /\ \A d \in DOMAIN f.code \ {b} : code[d] = f.code[d]
  OBVIOUS
<1>5. Len(f.code) \in Nat /\ DOMAIN f.code = 1 .. Len(f.code)
  BY DEF Shaped
<1> HIDE DEF code
<1>6. Len(code) = Len(f.code)
  BY <1>4, <1>5
<1> HIDE DEF s
<1>7. g.code = code
  BY <1>1
<1>8. Shaped(g)
  <2> HIDE DEF g
  <2> QED BY <1>2, <1>3, <1>4, <1>5, <1>6, <1>7 DEF Shaped, s
<1> HIDE DEF g
<1> QED BY <1>2, <1>3, <1>4, <1>6, <1>7, <1>8 DEF g, i, s

LEMMA EmitSolid ==
  ASSUME NEW f, NEW D, Solid(f, D), NEW b \in DOMAIN f.code, NEW op, NEW type, NEW args,
         NEW to, KnownAll(f, D[b], args), Leads(f, D, b, to)
  PROVE  LET g == Emit(f, b, op, type, args, to)
         IN  Extends(f, g, D) /\ Has(g, b, f.made + 1)
<1> DEFINE g == Emit(f, b, op, type, args, to)
           n == Len(f.code[b])
<1>1. /\ Shaped(g) /\ DOMAIN g.code = DOMAIN f.code
      /\ \A d \in DOMAIN f.code \ {b} : g.code[d] = f.code[d]
      /\ Len(g.code[b]) = n + 1
      /\ \A k \in 1 .. n : g.code[b][k] = f.code[b][k]
      /\ g.code[b][n + 1] = Instr(op, type, args, to, f.made + 1)
  BY EmittedCode DEF Solid
<1>2. /\ n \in Nat /\ DOMAIN f.code[b] = 1 .. n /\ DOMAIN g.code[b] = 1 .. n + 1
      /\ DOMAIN f.code = 1 .. Len(f.code) /\ Len(f.code) \in Nat
  BY <1>1 DEF Solid, Shaped
<1> HIDE DEF g, n
<1>3. \A d, m : Has(f, d, m) => Has(g, d, m)
  <2> SUFFICES ASSUME NEW d, NEW m, Has(f, d, m) PROVE Has(g, d, m)
    OBVIOUS
  <2>1. CASE d = b
    BY <1>1, <1>2, <2>1 DEF Has
  <2>2. CASE d # b
    BY <1>1, <2>2 DEF Has
  <2> QED BY <2>1, <2>2
<1>4. Has(g, b, f.made + 1)
  <2>1. n + 1 \in DOMAIN g.code[b] /\ g.code[b][n + 1].id = f.made + 1
    BY <1>1, <1>2 DEF Instr
  <2> QED BY <1>1, <2>1 DEF Has
<1>5. ASSUME NEW d \in DOMAIN g.code, NEW k \in DOMAIN g.code[d] PROVE Sits(g, D, d, k)
  <2>1. CASE d \in DOMAIN f.code /\ k \in DOMAIN f.code[d]
    <3>1. Sits(f, D, d, k) /\ k \in Nat
      BY <2>1 DEF Solid, Shaped
    <3>2. g.code[d][k] = f.code[d][k]
      BY <1>1, <1>2, <2>1
    <3>3. \A j \in 1 .. k - 1 : g.code[d][j] = f.code[d][j]
      <4>1. DOMAIN f.code[d] = 1 .. Len(f.code[d]) /\ Len(f.code[d]) \in Nat
        BY <2>1 DEF Solid, Shaped
      <4>2. \A j \in 1 .. k - 1 : j \in DOMAIN f.code[d]
        BY <2>1, <4>1
      <4>3. CASE d = b
        BY <1>1, <1>2, <4>2, <4>3
      <4>4. CASE d # b
        BY <1>1, <2>1, <4>4
      <4> QED BY <4>3, <4>4
    <3> QED BY <1>1, <1>3, <3>1, <3>2, <3>3 DEF Sits, Leads, Uses
  <2>2. CASE d = b /\ k = n + 1
    <3>1. g.code[d][k].to = to /\ g.code[d][k].args = args
      BY <1>1, <2>2 DEF Instr
    <3>2. Leads(g, D, d, to)
      BY <1>1, <2>2 DEF Leads
    <3>3. ASSUME NEW m \in DOMAIN args, args[m].kind = "instr"
          PROVE  Uses(g, D, b, k, args[m])
      <4>1. PICK c \in D[b] : Has(f, c, args[m].id)
        BY <3>3 DEF KnownAll, Known
      <4>2. CASE c = b
        <5>1. PICK j \in DOMAIN f.code[b] : f.code[b][j].id = args[m].id
          BY <4>1, <4>2 DEF Has
        <5>2. j \in 1 .. k - 1 /\ g.code[b][j].id = args[m].id
          BY <1>1, <1>2, <2>2, <5>1
        <5> QED BY <5>2 DEF Uses
      <4>3. CASE c # b
        BY <1>3, <4>1, <4>3 DEF Uses, Behind
      <4> QED BY <4>2, <4>3
    <3>4. \A m \in DOMAIN args : Uses(g, D, b, k, args[m])
      BY <3>3 DEF Uses
    <3> QED BY <2>2, <3>1, <3>2, <3>4 DEF Sits
  <2> QED BY <1>1, <1>2, <2>1, <2>2
<1>6. Solid(g, D)
  BY <1>1, <1>5 DEF Solid
<1> QED BY <1>1, <1>3, <1>4, <1>6 DEF Extends, Grows, g

\* The same for the instructions the visitor creates.
LEMMA CreateSolid ==
  ASSUME NEW f, NEW D, Solid(f, D), NEW b \in DOMAIN f.code, NEW op, NEW args,
         KnownAll(f, D[b], args)
  PROVE  LET c == Create(f, b, op, args)
         IN  Extends(f, c.fn, D) /\ Known(c.fn, D[b], c.val)
<1> DEFINE type == ResultType(op, args)
           g == Emit(f, b, op, type, args, <<>>)
<1>1. Create(f, b, op, args) = [fn |-> g, val |-> Result(type, f.made + 1)]
  BY DEF Create
<1>2. Leads(f, D, b, <<>>) /\ b \in D[b]
  BY DEF Leads, Solid
<1> HIDE DEF type
<1>3. Extends(f, g, D) /\ Has(g, b, f.made + 1)
  BY <1>2, EmitSolid
<1> HIDE DEF g
<1>4. Known(g, D[b], Result(type, f.made + 1))
  BY <1>2, <1>3 DEF Known, Result
<1> QED BY <1>1, <1>3, <1>4

LEMMA KnownTuples ==
  ASSUME NEW f, NEW X
  PROVE  /\ KnownAll(f, X, <<>>)
         /\ \A v : Known(f, X, v) => KnownAll(f, X, <<v>>)
         /\ \A v, w : Known(f, X, v) /\ Known(f, X, w) => KnownAll(f, X, <<v, w>>)
         /\ \A v, w, z : Known(f, X, v) /\ Known(f, X, w) /\ Known(f, X, z)
              => KnownAll(f, X, <<v, w, z>>)
         /\ \A t, n : Known(f, X, Constant(t, n))
  BY DEF KnownAll, Known, Constant

LEMMA ExtendsStays ==
  ASSUME NEW f, NEW D, Solid(f, D)
  PROVE  Extends(f, f, D)
  BY GrowsStays DEF Extends

LEMMA ExtendsOn ==
  ASSUME NEW f, NEW g, NEW h, NEW D, Extends(f, g, D), Extends(g, h, D)
  PROVE  Extends(f, h, D)
  BY GrowsOn DEF Extends

LEMMA ExtendsKnown ==
  ASSUME NEW f, NEW g, NEW D, NEW X, Extends(f, g, D)
  PROVE  /\ Solid(g, D) /\ DOMAIN g.code = DOMAIN f.code
         /\ \A v : Known(f, X, v) => Known(g, X, v)
         /\ \A args : KnownAll(f, X, args) => KnownAll(g, X, args)
  BY GrowsKnown DEF Extends

LEMMA ConvertedSolid ==
  ASSUME NEW f, NEW D, Solid(f, D), NEW b \in DOMAIN f.code, NEW v, NEW t,
         Known(f, D[b], v)
  PROVE  LET c == Converted(f, b, v, t)
         IN  Extends(f, c.fn, D) /\ Known(c.fn, D[b], c.val)
<1>1. CASE v.type = t
  BY <1>1, ExtendsStays DEF Converted
<1>2. CASE v.type # t
  <2> DEFINE op == IF v.type = "i32" THEN "sitofp" ELSE "fptosi"
  <2>1. Converted(f, b, v, t) = Create(f, b, op, <<v>>)
    BY <1>2 DEF Converted
  <2> HIDE DEF op
  <2>2. KnownAll(f, D[b], <<v>>)
    BY KnownTuples
  <2> QED BY <2>1, <2>2, CreateSolid
<1> QED BY <1>1, <1>2

LEMMA PromoteSolid ==
  ASSUME NEW f, NEW D, Solid(f, D), NEW b \in DOMAIN f.code, NEW l, NEW r,
         Known(f, D[b], l), Known(f, D[b], r)
  PROVE  LET p == Promote(f, b, l, r)
         IN  Extends(f, p.fn, D) /\ Known(p.fn, D[b], p.l) /\ Known(p.fn, D[b], p.r)
<1>1. CASE l.type = r.type
  BY <1>1, ExtendsStays DEF Promote
<1>2. CASE l.type # r.type
  <2> DEFINE cl == Converted(f, b, l, "float")
             cr == Converted(cl.fn, b, r, "float")
  <2>1. Promote(f, b, l, r) = [fn |-> cr.fn, l |-> cl.val, r |-> cr.val, is_int |-> FALSE]
    BY <1>2 DEF Promote
  <2>2. Extends(f, cl.fn, D) /\ Known(cl.fn, D[b], cl.val)
    BY ConvertedSolid
  <2> HIDE DEF cl
  <2>3. Solid(cl.fn, D) /\ b \in DOMAIN cl.fn.code /\ Known(cl.fn, D[b], r)
    BY <2>2, ExtendsKnown
  <2>4. Extends(cl.fn, cr.fn, D) /\ Known(cr.fn, D[b], cr.val)
    BY <2>3, ConvertedSolid
  <2> HIDE DEF cr
  <2>5. Extends(f, cr.fn, D) /\ Known(cr.fn, D[b], cl.val)
    BY <2>2, <2>4, ExtendsOn, ExtendsKnown
  <2> QED BY <2>1, <2>4, <2>5
<1> QED BY <1>1, <1>2

LEMMA ElementSolid ==
  ASSUME NEW f, NEW D, Solid(f, D), NEW b \in DOMAIN f.code, NEW v, NEW i,
         Known(f, D[b], v), Known(f, D[b], i)
  PROVE  LET c == ElementAddress(f, b, v, i)
         IN  Extends(f, c.fn, D) /\ Known(c.fn, D[b], c.val)
<1>1. CASE Pointee(v.type) \in Arrays
  <2>1. KnownAll(f, D[b], <<v, Constant("i32", 0), i>>)
    BY KnownTuples
  <2> QED BY <1>1, <2>1, CreateSolid DEF ElementAddress
<1>2. CASE Pointee(v.type) \notin Arrays
  <2> DEFINE l == Create(f, b, "load", <<v>>)
             c == Create(l.fn, b, "gep", <<l.val, i>>)
  <2>1. ElementAddress(f, b, v, i) = c
    BY <1>2 DEF ElementAddress
  <2>2. Extends(f, l.fn, D) /\ Known(l.fn, D[b], l.val)
    BY KnownTuples, CreateSolid
  <2> HIDE DEF l
  <2>3. Solid(l.fn, D) /\ b \in DOMAIN l.fn.code /\ KnownAll(l.fn, D[b], <<l.val, i>>)
    BY <2>2, ExtendsKnown, KnownTuples
  <2>4. Extends(l.fn, c.fn, D) /\ Known(c.fn, D[b], c.val)
    BY <2>3, CreateSolid
  <2> HIDE DEF c
  <2> QED BY <2>1, <2>2, <2>4, ExtendsOn
<1> QED BY <1>1, <1>2

LEMMA JumpSolid ==
  ASSUME NEW f, NEW D, Solid(f, D), NEW b \in DOMAIN f.code,
         NEW t \in DOMAIN f.code, Behind(D, t) \subseteq D[b]
  PROVE  /\ Extends(f, CreateBr(f, b, t), D)
         /\ \A e \in DOMAIN f.code : \A c : Behind(D, e) \subseteq D[b] /\ Known(f, D[b], c)
              => Extends(f, CreateCondBr(f, b, c, t, e), D)
<1>1. Leads(f, D, b, <<t>>)
  BY DEF Leads
<1>2. Extends(f, CreateBr(f, b, t), D)
  BY <1>1, KnownTuples, EmitSolid DEF CreateBr
<1>3. ASSUME NEW e \in DOMAIN f.code, NEW c, Behind(D, e) \subseteq D[b], Known(f, D[b], c)
      PROVE  Extends(f, CreateCondBr(f, b, c, t, e), D)
  <2>1. Leads(f, D, b, <<t, e>>)
    BY <1>3 DEF Leads
  <2>2. KnownAll(f, D[b], <<c>>)
    BY <1>3, KnownTuples
  <2> QED BY <2>1, <2>2, EmitSolid DEF CreateCondBr
<1> QED BY <1>2, <1>3

LEMMA RetSolid ==
  ASSUME NEW f, NEW D, Solid(f, D), NEW b \in DOMAIN f.code
  PROVE  /\ Extends(f, RetDefault(f, b), D)
         /\ \A args : KnownAll(f, D[b], args) => Extends(f, CreateRet(f, b, args), D)
<1>1. Leads(f, D, b, <<>>)
  BY DEF Leads
<1>2. ASSUME NEW args, KnownAll(f, D[b], args) PROVE Extends(f, CreateRet(f, b, args), D)
  BY <1>1, <1>2, EmitSolid DEF CreateRet
<1>3. KnownAll(f, D[b], IF ReturnType = "void" THEN <<>> ELSE <<Constant(ReturnType, 0)>>)
  BY KnownTuples
<1> QED BY <1>2, <1>3 DEF RetDefault

LEMMA AllocaSolid ==
  ASSUME NEW f, NEW D, Solid(f, D), NEW b \in DOMAIN f.code, NEW t
  PROVE  /\ Extends(f, CreateAlloca(f, b, t), D)
         /\ Known(CreateAlloca(f, b, t), D[b], Result(PointerTo(t), f.made + 1))
<1>1. Leads(f, D, b, <<>>) /\ b \in D[b]
  BY DEF Leads, Solid
<1>2. /\ Extends(f, CreateAlloca(f, b, t), D)
      /\ Has(CreateAlloca(f, b, t), b, f.made + 1)
  BY <1>1, KnownTuples, EmitSolid DEF CreateAlloca
<1> QED BY <1>1, <1>2 DEF Known, Result

LEMMA CallSolid ==
  ASSUME NEW f, NEW D, Solid(f, D), NEW b \in DOMAIN f.code, NEW g,
         NEW args \in Seq(Value), KnownAll(f, D[b], args)
  PROVE  /\ Extends(f, CreateCall(f, b, g, args), D)
         /\ Known(CreateCall(f, b, g, args), D[b], Result(Signatures[g].ret, f.made + 1))
<1> DEFINE all == <<FunctionOf(g)>> \o args
<1>1. Leads(f, D, b, <<>>) /\ b \in D[b]
  BY DEF Leads, Solid
<1>2. KnownAll(f, D[b], all)
  <2>1. FunctionOf(g).kind = "function"
    BY DEF FunctionOf
  <2> DEFINE h == FunctionOf(g)
  <2> HIDE DEF h
  <2>2. /\ DOMAIN (<<h>> \o args) = 1 .. Len(args) + 1 /\ Len(args) \in Nat
        /\ DOMAIN args = 1 .. Len(args)
        /\ (<<h>> \o args)[1] = h
        /\ \A k \in 2 .. Len(args) + 1 : (<<h>> \o args)[k] = args[k - 1]
    OBVIOUS
  <2>3. Known(f, D[b], h)
    BY <2>1 DEF Known, h
  <2>4. \A k \in 2 .. Len(args) + 1 : k - 1 \in DOMAIN args
    BY <2>2
  <2> QED BY <2>2, <2>3, <2>4 DEF KnownAll, h
<1> HIDE DEF all
<1>3. /\ Extends(f, CreateCall(f, b, g, args), D)
      /\ Has(CreateCall(f, b, g, args), b, f.made + 1)
  BY <1>1, <1>2, EmitSolid DEF CreateCall, all
<1> QED BY <1>1, <1>3 DEF Known, Result

\* New blocks are behind the one they are made in.
Split(f, D, b) == [n \in Nat |-> IF n \in DOMAIN f.code THEN D[n] ELSE D[b] \cup {n}]

LEMMA NewBlocksCode ==
  ASSUME NEW f \in Code, NEW n \in Nat
  PROVE  LET g == NewBlocks(f, n)
         IN  /\ Len(f.code) \in Nat /\ DOMAIN f.code = 1 .. Len(f.code)
             /\ DOMAIN g.code = 1 .. Len(f.code) + n /\ Len(g.code) = Len(f.code) + n
             /\ \A d \in DOMAIN f.code : g.code[d] = f.code[d]
             /\ \A d \in Len(f.code) + 1 .. Len(f.code) + n : g.code[d] = <<>>
             /\ Shaped(g)
<1> DEFINE more == [i \in 1 .. n |-> <<>>]
           g == NewBlocks(f, n)
           Blocks == Seq(Fit)
<1>1. f.code \in Seq(Blocks) /\ Len(f.code) \in Nat /\ DOMAIN f.code = 1 .. Len(f.code)
  BY CodeFacts
<1>2. more \in Seq(Blocks) /\ Len(more) = n /\ \A i \in 1 .. n : more[i] = <<>>
  OBVIOUS
<1>3. g.code = f.code \o more
  BY CodeForm DEF NewBlocks
<1> HIDE DEF more, Blocks
<1>4. /\ Len(g.code) = Len(f.code) + n /\ DOMAIN g.code = 1 .. Len(f.code) + n
      /\ \A d \in 1 .. Len(f.code) : g.code[d] = f.code[d]
      /\ \A d \in Len(f.code) + 1 .. Len(f.code) + n : g.code[d] = more[d - Len(f.code)]
  <2> DEFINE s == f.code
  <2>1. /\ s \in Seq(Blocks) /\ Len(s) \in Nat /\ g.code = s \o more
        /\ more \in Seq(Blocks) /\ Len(more) = n
    BY <1>1, <1>2, <1>3
  <2> HIDE DEF s, g
  <2>2. /\ Len(s \o more) = Len(s) + n /\ DOMAIN (s \o more) = 1 .. Len(s) + n
        /\ \A d \in 1 .. Len(s) + n :
             (s \o more)[d] = IF d <= Len(s) THEN s[d] ELSE more[d - Len(s)]
    <3>1. /\ s \o more \in Seq(Blocks) /\ Len(s \o more) = Len(s) + Len(more)
          /\ \A d \in 1 .. Len(s) + Len(more) :
               (s \o more)[d] = IF d <= Len(s) THEN s[d] ELSE more[d - Len(s)]
      BY <2>1, ConcatProperties
    <3>2. DOMAIN (s \o more) = 1 .. Len(s \o more)
      BY <3>1
    <3> QED BY <2>1, <3>1, <3>2
  <2> QED BY <2>1, <2>2 DEF s
<1>5. \A d \in Len(f.code) + 1 .. Len(f.code) + n : g.code[d] = <<>>
  <2>1. \A d \in Len(f.code) + 1 .. Len(f.code) + n : d - Len(f.code) \in 1 .. n
    BY <1>1
  <2> QED BY <1>2, <1>4, <2>1
<1>6. Shaped(g)
  <2>1. ASSUME NEW b \in DOMAIN g.code
        PROVE  Len(g.code[b]) \in Nat /\ DOMAIN g.code[b] = 1 .. Len(g.code[b])
    <3>1. CASE b \in 1 .. Len(f.code)
      <4>1. f.code[b] \in Seq(Fit)
        BY <1>1, <3>1 DEF Blocks
      <4>2. g.code[b] = f.code[b]
        BY <1>4, <3>1
      <4> QED BY <4>1, <4>2
    <3>2. CASE b \in Len(f.code) + 1 .. Len(f.code) + n
      BY <1>5, <3>2
    <3> QED BY <1>1, <1>4, <2>1, <3>1, <3>2
  <2>2. Len(g.code) \in Nat
    BY <1>1, <1>4
  <2> QED BY <1>4, <2>1, <2>2 DEF Shaped
<1> HIDE DEF g
<1> QED BY <1>1, <1>4, <1>5, <1>6 DEF g

\* The blocks made at b, after those of f, are known what b is known.
Forked(f, D, b, n, g, E) ==
  /\ Solid(g, E) /\ Grows(f, g)
  /\ \A d \in DOMAIN f.code : E[d] = D[d]
  /\ \A d \in Len(f.code) + 1 .. Len(f.code) + n :
       d \in DOMAIN g.code /\ E[d] = D[b] \cup {d} /\ Behind(E, d) = D[b]
  /\ DOMAIN f.code \subseteq DOMAIN g.code

LEMMA NewBlocksSolid ==
  ASSUME NEW f \in Code, NEW D \in [Nat -> SUBSET Nat], Solid(f, D),
         NEW b \in DOMAIN f.code, NEW n \in Nat
  PROVE  \E E \in [Nat -> SUBSET Nat] : Forked(f, D, b, n, NewBlocks(f, n), E)
<1> DEFINE g == NewBlocks(f, n)
           E == Split(f, D, b)
           l == Len(f.code)
<1>1. /\ l \in Nat /\ DOMAIN f.code = 1 .. l /\ DOMAIN g.code = 1 .. l + n
      /\ \A d \in DOMAIN f.code : g.code[d] = f.code[d]
      /\ \A d \in l + 1 .. l + n : g.code[d] = <<>>
      /\ Shaped(g)
  BY NewBlocksCode
<1>2. E \in [Nat -> SUBSET Nat]
  BY <1>1 DEF Split
<1>3. \A d \in DOMAIN f.code : E[d] = D[d]
  BY <1>1 DEF Split
<1>4. \A d \in l + 1 .. l + n : d \in DOMAIN g.code /\ E[d] = D[b] \cup {d}
                               /\ d \notin DOMAIN f.code
  BY <1>1 DEF Split
<1> HIDE DEF g, E, l
<1>5. D[b] \subseteq DOMAIN f.code
  BY DEF Solid
<1>6. \A d \in l + 1 .. l + n : Behind(E, d) = D[b]
  BY <1>4, <1>5 DEF Behind
<1>7. DOMAIN f.code \subseteq DOMAIN g.code
  BY <1>1
<1>8. \A d, m : Has(f, d, m) => Has(g, d, m)
  BY <1>1, <1>7 DEF Has
<1>9. \A d \in DOMAIN g.code : d \in E[d] /\ E[d] \subseteq DOMAIN g.code
  <2>1. \A d \in DOMAIN g.code : d \in DOMAIN f.code \/ d \in l + 1 .. l + n
    BY <1>1
  <2> QED BY <1>3, <1>4, <1>5, <1>7, <2>1 DEF Solid
<1>10. ASSUME NEW d \in DOMAIN g.code, NEW k \in DOMAIN g.code[d] PROVE Sits(g, E, d, k)
  <2>1. d \in DOMAIN f.code
    <3>1. d \notin l + 1 .. l + n
      BY <1>1, <1>10
    <3> QED BY <1>1, <3>1
  <2>2. g.code[d] = f.code[d] /\ Sits(f, D, d, k)
    BY <1>1, <2>1 DEF Solid
  <2>3. Leads(g, E, d, g.code[d][k].to)
    BY <1>3, <1>7, <2>1, <2>2 DEF Sits, Leads, Behind
  <2>4. \A m \in DOMAIN g.code[d][k].args : Uses(g, E, d, k, g.code[d][k].args[m])
    BY <1>3, <1>8, <2>1, <2>2 DEF Sits, Uses, Behind
  <2> QED BY <2>3, <2>4 DEF Sits
<1>11. E[1] \subseteq {1}
  <2>1. 1 \in DOMAIN f.code
    BY <1>1
  <2> QED BY <1>3, <2>1 DEF Solid
<1>12. Solid(g, E)
  BY <1>1, <1>9, <1>10, <1>11 DEF Solid
<1>13. Forked(f, D, b, n, g, E)
  BY <1>3, <1>4, <1>6, <1>7, <1>8, <1>12 DEF Forked, Grows, l
<1> QED BY <1>2, <1>13 DEF g

-----------------------------------------------------------------------------
(* Where the values the visitor still holds were made.  Above a branch that *)
(* is being visited nothing but expressions hold values; below it, and in   *)
(* the scopes that were open when it was entered, all values were made      *)
(* before the block behind it.                                              *)

\* The visits a statement may be called from, and those that use tmp_val.
Bare == Silent \ {"condition", "return"}
Taking == {"condition", "return", "assign", "store", "left", "right", "index", "argument"}

Plain(frame) ==
  /\ frame.val.kind # "instr"
  /\ \A k \in DOMAIN frame.args : frame.args[k].kind # "instr"

Knows(f, X, frame) == Known(f, X, frame.val) /\ KnownAll(f, X, frame.args)

Scoped(f, X, t, depth) ==
  \A i \in 1 .. depth : \A n \in DOMAIN t[i] : Known(f, X, t[i][n])

\* Above the function's own block, a declaration stands in a scope that was
\* entered for it.
Unopened(frame) ==
  \/ frame.visit = "body"
  \/ frame.visit \in {"declarations", "statements"} /\ ~frame.flag

Framed(f, X, s, k) ==
  /\ Knows(f, X, s[k])
  /\ s[k].visit \in Silent => /\ \A j \in 1 .. k : Plain(s[j])
                              /\ k > 1 => s[k - 1].visit \in Bare
  /\ Unopened(s[k]) => \A j \in 1 .. k - 1 : s[j].visit # "then"

\* heights[k] is the number of scopes open in and below the k-th frame.
Ranked(s, h) ==
  /\ \A k \in 2 .. Len(s) : h[k] = h[k - 1] + Opens(s[k])
  /\ \A k \in 1 .. Len(s) : \A j \in 1 .. k - 1 : h[j] + Opens(s[k]) <= h[k]

Branched(f, D, X, s, h, t, k) ==
  s[k].visit = "then" =>
    /\ Behind(D, s[k].block) \subseteq X
    /\ \A j \in 1 .. k - 1 :
         s[j].visit = "then" => Behind(D, s[j].block) \subseteq Behind(D, s[k].block)
    /\ Scoped(f, Behind(D, s[k].block), t, h[k])

Sites(f, D, X, s, t) ==
  /\ \A k \in 1 .. Len(s) : Framed(f, X, s, k)
  /\ \E h \in [1 .. Len(s) -> Nat] :
       /\ Ranked(s, h)
       /\ s # <<>> => h[Len(s)] = Len(t)
       /\ \A k \in 1 .. Len(s) : Branched(f, D, X, s, h, t, k)

LEMMA ScopedSame ==
  ASSUME NEW f, NEW X, NEW t, NEW u, NEW d, \A i \in 1 .. d : u[i] = t[i]
  PROVE  Scoped(f, X, t, d) <=> Scoped(f, X, u, d)
  BY DEF Scoped

\* Leaving the top frame, with the scope it opened.
LEMMA SitesPop ==
  ASSUME NEW s \in Seq(Frame), s # <<>>, NEW f, NEW D, NEW X, NEW t, NEW u,
         Sites(f, D, X, s, t), Len(t) \in Nat, Len(u) \in Nat,
         Len(u) = Len(t) - Opens(s[Len(s)]), \A i \in 1 .. Len(u) : u[i] = t[i]
  PROVE  LET r == SubSeq(s, 1, Len(s) - 1)
             top == s[Len(s)]
         IN  /\ r \in Seq(Frame) /\ Sites(f, D, X, r, u) /\ Knows(f, X, top)
             /\ top.visit \in Silent => Plain(top) /\ (r # <<>> => r[Len(r)].visit \in Bare)
             /\ Unopened(top) => \A j \in 1 .. Len(r) : r[j].visit # "then"
<1> DEFINE r == SubSeq(s, 1, Len(s) - 1)
           top == s[Len(s)]
           m == Len(s)
<1>1. /\ r \in Seq(Frame) /\ m \in Nat \ {0} /\ Len(r) = m - 1
      /\ \A i \in 1 .. m - 1 : r[i] = s[i]
  BY LeaveFacts
<1>2. PICK h \in [1 .. m -> Nat] :
        /\ Ranked(s, h) /\ h[m] = Len(t)
        /\ \A k \in 1 .. m : Branched(f, D, X, s, h, t, k)
  BY DEF Sites
<1>3. \A k \in 1 .. m : Framed(f, X, s, k)
  BY DEF Sites
<1> HIDE DEF r, m
<1>4. \A k \in 1 .. m - 1 : Framed(f, X, r, k)
  <2> SUFFICES ASSUME NEW k \in 1 .. m - 1 PROVE Framed(f, X, r, k)
    OBVIOUS
  <2>1. k \in 1 .. m /\ \A j \in 1 .. k : j \in 1 .. m - 1
    BY <1>1
  <2>2. /\ r[k] = s[k] /\ \A j \in 1 .. k : r[j] = s[j]
        /\ k > 1 => r[k - 1] = s[k - 1]
    BY <1>1, <2>1
  <2>3. \A j \in 1 .. k - 1 : j \in 1 .. k
    BY <1>1
  <2>4. Framed(f, X, s, k)
    BY <1>3, <2>1
  <2> QED BY <2>2, <2>3, <2>4 DEF Framed
<1> DEFINE g == [k \in 1 .. m - 1 |-> h[k]]
<1>5. g \in [1 .. Len(r) -> Nat] /\ \A k \in 1 .. m - 1 : g[k] = h[k]
  <2>1. \A k \in 1 .. m - 1 : k \in 1 .. m
    BY <1>1
  <2> QED BY <1>1, <2>1
<1> HIDE DEF g
<1>6. \A k \in 1 .. m - 1 : g[k] <= Len(u)
  <2> SUFFICES ASSUME NEW k \in 1 .. m - 1 PROVE g[k] <= Len(u)
    OBVIOUS
  <2>0. m \in 1 .. Len(s) /\ k \in 1 .. m
    BY <1>1 DEF m
  <2>1. h[k] + Opens(s[m]) <= h[m] /\ h[k] \in Nat
    BY <1>2, <2>0 DEF Ranked
  <2>2. Opens(s[m]) \in {0, 1}
    BY OpensFacts
  <2> QED BY <1>2, <1>5, <2>1, <2>2 DEF m
<1>7. Ranked(r, g)
  <2>1. \A k \in 2 .. Len(r) : g[k] = g[k - 1] + Opens(r[k])
    <3> SUFFICES ASSUME NEW k \in 2 .. Len(r) PROVE g[k] = g[k - 1] + Opens(r[k])
      OBVIOUS
    <3>1. k \in 2 .. m /\ k \in 1 .. m - 1 /\ k - 1 \in 1 .. m - 1
      BY <1>1
    <3> QED BY <1>1, <1>2, <1>5, <3>1 DEF Ranked, m
  <2>2. \A k \in 1 .. Len(r) : \A j \in 1 .. k - 1 : g[j] + Opens(r[k]) <= g[k]
    <3> SUFFICES ASSUME NEW k \in 1 .. Len(r), NEW j \in 1 .. k - 1
                 PROVE  g[j] + Opens(r[k]) <= g[k]
      OBVIOUS
    <3>1. k \in 1 .. m /\ k \in 1 .. m - 1 /\ j \in 1 .. m - 1
      BY <1>1
    <3> QED BY <1>1, <1>2, <1>5, <3>1 DEF Ranked, m
  <2> QED BY <2>1, <2>2 DEF Ranked
<1>8. r # <<>> => g[Len(r)] = Len(u)
  <2> SUFFICES ASSUME r # <<>> PROVE g[Len(r)] = Len(u)
    OBVIOUS
  <2>1. Len(r) # 0
    BY <1>1
  <2>2. m \in 2 .. m /\ m - 1 \in 1 .. m - 1 /\ m - 1 \in 1 .. m
    BY <1>1, <2>1
  <2>3. h[m] = h[m - 1] + Opens(s[m]) /\ h[m - 1] \in Nat
    BY <1>2, <2>2 DEF Ranked, m
  <2>4. Opens(s[m]) \in {0, 1}
    BY OpensFacts
  <2> QED BY <1>1, <1>2, <1>5, <2>2, <2>3, <2>4 DEF m
<1>9. \A k \in 1 .. Len(r) : Branched(f, D, X, r, g, u, k)
  <2> SUFFICES ASSUME NEW k \in 1 .. Len(r), r[k].visit = "then"
               PROVE  /\ Behind(D, r[k].block) \subseteq X
                      /\ \A j \in 1 .. k - 1 : r[j].visit = "then"
                           => Behind(D, r[j].block) \subseteq Behind(D, r[k].block)
                      /\ Scoped(f, Behind(D, r[k].block), u, g[k])
    BY DEF Branched
  <2>1. k \in 1 .. m /\ k \in 1 .. m - 1 /\ \A j \in 1 .. k - 1 : j \in 1 .. m - 1
    BY <1>1
  <2>2. r[k] = s[k] /\ \A j \in 1 .. k - 1 : r[j] = s[j]
    BY <1>1, <2>1
  <2>3. Branched(f, D, X, s, h, t, k)
    BY <1>2, <2>1
  <2>4. \A i \in 1 .. g[k] : u[i] = t[i]
    <3>1. g[k] <= Len(u) /\ g[k] \in Nat
      BY <1>5, <1>6, <2>1
    <3>2. \A i \in 1 .. g[k] : i \in 1 .. Len(u)
      BY <3>1
    <3> QED BY <3>2
  <2>5. Scoped(f, Behind(D, r[k].block), t, g[k])
    BY <1>5, <2>1, <2>2, <2>3 DEF Branched
  <2>6. Scoped(f, Behind(D, r[k].block), u, g[k])
    BY <2>4, <2>5, ScopedSame
  <2> QED BY <2>2, <2>3, <2>6 DEF Branched
<1>10. Sites(f, D, X, r, u)
  BY <1>1, <1>4, <1>5, <1>7, <1>8, <1>9 DEF Sites
<1>11. /\ Knows(f, X, top)
       /\ top.visit \in Silent => Plain(top) /\ (r # <<>> => r[Len(r)].visit \in Bare)
       /\ Unopened(top) => \A j \in 1 .. Len(r) : r[j].visit # "then"
  <2>1. m \in 1 .. m /\ Framed(f, X, s, m) /\ top = s[m]
    BY <1>1, <1>3 DEF m
  <2>2. r # <<>> => m > 1 /\ r[Len(r)] = s[m - 1]
    <3>1. r # <<>> => Len(r) # 0
      BY <1>1
    <3> QED BY <1>1, <3>1
  <2> QED BY <1>1, <2>1, <2>2 DEF Framed
<1> QED BY <1>1, <1>10, <1>11 DEF r

\* Entering a frame, with the scope it opens.
LEMMA SitesPush ==
  ASSUME NEW r \in Seq(Frame), NEW frame \in Frame, NEW f, NEW D, NEW X, NEW t, NEW u,
         Sites(f, D, X, r, t), Len(t) \in Nat, Len(u) \in Nat,
         r # <<>> => /\ Len(u) = Len(t) + Opens(frame)
                     /\ \A i \in 1 .. Len(t) : u[i] = t[i],
         Knows(f, X, frame),
         frame.visit \in Silent => Plain(frame) /\ (r # <<>> => r[Len(r)].visit \in Bare),
         Unopened(frame) => \A j \in 1 .. Len(r) : r[j].visit # "then",
         frame.visit = "then" =>
           /\ Behind(D, frame.block) \subseteq X
           /\ \A j \in 1 .. Len(r) : r[j].visit = "then"
                => Behind(D, r[j].block) \subseteq Behind(D, frame.block)
           /\ Scoped(f, Behind(D, frame.block), u, Len(u))
  PROVE  Sites(f, D, X, Append(r, frame), u) /\ Append(r, frame) \in Seq(Frame)
<1> DEFINE s == Append(r, frame)
           m == Len(r)
<1>1. /\ s \in Seq(Frame) /\ m \in Nat /\ Len(s) = m + 1 /\ s[m + 1] = frame
      /\ \A i \in 1 .. m : s[i] = r[i]
      /\ (m # 0 => r # <<>>) /\ (r # <<>> => m # 0)
  OBVIOUS
<1>2. PICK h \in [1 .. m -> Nat] :
        /\ Ranked(r, h) /\ (r # <<>> => h[m] = Len(t))
        /\ \A k \in 1 .. m : Branched(f, D, X, r, h, t, k)
  BY DEF Sites
<1>3. \A k \in 1 .. m : Framed(f, X, r, k)
  BY DEF Sites
<1> HIDE DEF s, m
<1>4. \A k \in 1 .. m : Framed(f, X, s, k)
  <2> SUFFICES ASSUME NEW k \in 1 .. m PROVE Framed(f, X, s, k)
    OBVIOUS
  <2>1. \A j \in 1 .. k : j \in 1 .. m
    BY <1>1
  <2>2. /\ r[k] = s[k] /\ \A j \in 1 .. k : r[j] = s[j]
        /\ k > 1 => r[k - 1] = s[k - 1]
    BY <1>1, <2>1
  <2>3. \A j \in 1 .. k - 1 : j \in 1 .. k
    BY <1>1
  <2> QED BY <1>3, <2>2, <2>3 DEF Framed
<1>5. Framed(f, X, s, m + 1)
  <2>1. frame.visit \in Silent =>
          /\ \A j \in 1 .. m + 1 : Plain(s[j])
          /\ m + 1 > 1 => s[m].visit \in Bare
    <3> SUFFICES ASSUME frame.visit \in Silent
                 PROVE  /\ \A j \in 1 .. m + 1 : Plain(s[j])
                        /\ m + 1 > 1 => s[m].visit \in Bare
      OBVIOUS
    <3>1. CASE m = 0
      BY <1>1, <3>1
    <3>2. CASE m # 0
      <4>1. m \in 1 .. m /\ r[m].visit \in Bare /\ r[m].visit \in Silent
        BY <1>1, <3>2 DEF m, Bare
      <4>2. \A j \in 1 .. m : Plain(r[j])
        BY <1>3, <4>1 DEF Framed
      <4>3. \A j \in 1 .. m + 1 : j = m + 1 \/ j \in 1 .. m
        BY <1>1
      <4> QED BY <1>1, <4>1, <4>2, <4>3
    <3> QED BY <3>1, <3>2
  <2>2. Unopened(frame) => \A j \in 1 .. (m + 1) - 1 : s[j].visit # "then"
    BY <1>1 DEF m
  <2>3. (m + 1) - 1 = m
    BY <1>1
  <2> QED BY <1>1, <2>1, <2>2, <2>3 DEF Framed
<1> DEFINE g == [k \in 1 .. m + 1 |-> IF k = m + 1 THEN Len(u) ELSE h[k]]
<1>6. /\ g \in [1 .. Len(s) -> Nat] /\ g[m + 1] = Len(u)
      /\ \A k \in 1 .. m : g[k] = h[k]
  BY <1>1
<1> HIDE DEF g
<1>7. \A k \in 1 .. m : g[k] <= Len(t) /\ g[k] + Opens(frame) <= Len(u)
  <2> SUFFICES ASSUME NEW k \in 1 .. m
               PROVE  g[k] <= Len(t) /\ g[k] + Opens(frame) <= Len(u)
    OBVIOUS
  <2>1. Opens(r[m]) \in {0, 1} /\ Opens(frame) \in {0, 1} /\ r # <<>> /\ h[k] \in Nat
    BY <1>1, OpensFacts
  <2>2. CASE k = m
    BY <1>1, <1>2, <1>6, <2>1, <2>2
  <2>3. CASE k # m
    <3>1. k \in 1 .. m - 1 /\ m \in 1 .. m
      BY <1>1, <2>3
    <3>2. h[k] + Opens(r[m]) <= h[m] /\ h[m] = Len(t)
      BY <1>2, <2>1, <3>1 DEF Ranked, m
    <3> QED BY <1>1, <1>6, <2>1, <3>2
  <2> QED BY <2>2, <2>3
<1>8. Ranked(s, g)
  <2>1. \A k \in 2 .. Len(s) : g[k] = g[k - 1] + Opens(s[k])
    <3> SUFFICES ASSUME NEW k \in 2 .. Len(s) PROVE g[k] = g[k - 1] + Opens(s[k])
      OBVIOUS
    <3>1. CASE k = m + 1
      <4>1. m # 0 /\ m \in 1 .. m /\ (m + 1) - 1 = m
        BY <1>1, <3>1
      <4> QED BY <1>1, <1>2, <1>6, <3>1, <4>1
    <3>2. CASE k # m + 1
      <4>1. k \in 2 .. m /\ k \in 1 .. m /\ k - 1 \in 1 .. m
        BY <1>1, <3>2
      <4> QED BY <1>1, <1>2, <1>6, <4>1 DEF Ranked, m
    <3> QED BY <3>1, <3>2
  <2>2. \A k \in 1 .. Len(s) : \A j \in 1 .. k - 1 : g[j] + Opens(s[k]) <= g[k]
    <3> SUFFICES ASSUME NEW k \in 1 .. Len(s), NEW j \in 1 .. k - 1
                 PROVE  g[j] + Opens(s[k]) <= g[k]
      OBVIOUS
    <3>1. CASE k = m + 1
      <4>1. j \in 1 .. m
        BY <1>1, <3>1
      <4> QED BY <1>1, <1>6, <1>7, <3>1, <4>1
    <3>2. CASE k # m + 1
      <4>1. k \in 1 .. m /\ j \in 1 .. m
        BY <1>1, <3>2
      <4> QED BY <1>1, <1>2, <1>6, <4>1 DEF Ranked, m
    <3> QED BY <3>1, <3>2
  <2> QED BY <2>1, <2>2 DEF Ranked
<1>9. \A k \in 1 .. m : Branched(f, D, X, s, g, u, k)
  <2> SUFFICES ASSUME NEW k \in 1 .. m, s[k].visit = "then"
               PROVE  /\ Behind(D, s[k].block) \subseteq X
                      /\ \A j \in 1 .. k - 1 : s[j].visit = "then"
                           => Behind(D, s[j].block) \subseteq Behind(D, s[k].block)
                      /\ Scoped(f, Behind(D, s[k].block), u, g[k])
    BY DEF Branched
  <2>1. \A j \in 1 .. k - 1 : j \in 1 .. m
    BY <1>1
  <2>2. r[k] = s[k] /\ \A j \in 1 .. k - 1 : r[j] = s[j]
    BY <1>1, <2>1
  <2>3. Branched(f, D, X, r, h, t, k) /\ r # <<>>
    BY <1>1, <1>2
  <2>4. \A i \in 1 .. g[k] : u[i] = t[i]
    <3>1. g[k] <= Len(t) /\ g[k] \in Nat
      BY <1>1, <1>6, <1>7
    <3>2. \A i \in 1 .. g[k] : i \in 1 .. Len(t)
      BY <3>1
    <3> QED BY <2>3, <3>2
  <2>5. Scoped(f, Behind(D, s[k].block), t, g[k])
    BY <1>6, <2>2, <2>3 DEF Branched
  <2>6. Scoped(f, Behind(D, s[k].block), u, g[k])
    BY <2>4, <2>5, ScopedSame
  <2> QED BY <2>2, <2>3, <2>6 DEF Branched
<1>10. Branched(f, D, X, s, g, u, m + 1)
  <2>1. (m + 1) - 1 = m
    BY <1>1
  <2> QED BY <1>1, <1>6, <2>1 DEF Branched, m
<1>11. \A k \in 1 .. Len(s) : k = m + 1 \/ k \in 1 .. m
  BY <1>1
<1>12. s # <<>> => g[Len(s)] = Len(u)
  BY <1>1, <1>6
<1>13. Sites(f, D, X, s, u)
  BY <1>4, <1>5, <1>6, <1>8, <1>9, <1>10, <1>11, <1>12 DEF Sites
<1> QED BY <1>1, <1>13 DEF s

LEMMA SitesEmpty == \A f, D, X, t : Sites(f, D, X, <<>>, t)
<1> SUFFICES ASSUME NEW f, NEW D, NEW X, NEW t PROVE Sites(f, D, X, <<>>, t)
  OBVIOUS
<1>1. Len(<<>>) = 0 /\ [k \in {} |-> 1] \in [1 .. 0 -> Nat]
  OBVIOUS
<1>2. \A h : Ranked(<<>>, h)
  BY <1>1 DEF Ranked
<1> QED BY <1>1, <1>2 DEF Sites

LEMMA ScopedGrows ==
  ASSUME NEW f, NEW g, NEW X, NEW Y, Grows(f, g), X \subseteq Y, NEW t, NEW d,
         Scoped(f, X, t, d)
  PROVE  Scoped(g, Y, t, d)
  BY GrowsKnown DEF Scoped

\* More code, and more blocks behind the one code is made in.
LEMMA SitesGrow ==
  ASSUME NEW f, NEW g, NEW X, NEW Y, NEW D, NEW E, Grows(f, g), X \subseteq Y,
         \A b \in DOMAIN f.code : E[b] = D[b],
         NEW s, Placed(s, Len(f.code)), DOMAIN f.code = 1 .. Len(f.code),
         NEW t, Sites(f, D, X, s, t)
  PROVE  Sites(g, E, Y, s, t)
<1>1. PICK h \in [1 .. Len(s) -> Nat] :
        /\ Ranked(s, h) /\ (s # <<>> => h[Len(s)] = Len(t))
        /\ \A k \in 1 .. Len(s) : Branched(f, D, X, s, h, t, k)
  BY DEF Sites
<1>2. \A k \in 1 .. Len(s) : Framed(f, X, s, k)
  BY DEF Sites
<1>3. \A k \in 1 .. Len(s) : Framed(g, Y, s, k)
  BY <1>2, GrowsKnown DEF Framed, Knows
<1>4. ASSUME NEW k \in 1 .. Len(s), s[k].visit = "then"
      PROVE  Behind(E, s[k].block) = Behind(D, s[k].block)
  BY <1>4 DEF Placed, Behind
<1>5. ASSUME NEW k \in 1 .. Len(s) PROVE Branched(g, E, Y, s, h, t, k)
  <2> SUFFICES ASSUME s[k].visit = "then"
               PROVE  /\ Behind(E, s[k].block) \subseteq Y
                      /\ \A j \in 1 .. k - 1 : s[j].visit = "then"
                           => Behind(E, s[j].block) \subseteq Behind(E, s[k].block)
                      /\ Scoped(g, Behind(E, s[k].block), t, h[k])
    BY DEF Branched
  <2>1. Branched(f, D, X, s, h, t, k)
    BY <1>1
  <2>2. Behind(E, s[k].block) = Behind(D, s[k].block)
    BY <1>4
  <2>3. Scoped(f, Behind(D, s[k].block), t, h[k])
    BY <2>1 DEF Branched
  <2>4. Scoped(g, Behind(D, s[k].block), t, h[k])
    BY <2>3, ScopedGrows
  <2>5. \A j \in 1 .. k - 1 : s[j].visit = "then"
          => Behind(E, s[j].block) \subseteq Behind(E, s[k].block)
    <3> SUFFICES ASSUME NEW j \in 1 .. k - 1, s[j].visit = "then"
                 PROVE  Behind(E, s[j].block) \subseteq Behind(E, s[k].block)
      OBVIOUS
    <3>1. j \in 1 .. Len(s)
      OBVIOUS
    <3>2. Behind(E, s[j].block) = Behind(D, s[j].block)
      BY <1>4, <3>1
    <3> QED BY <2>1, <2>2, <3>2 DEF Branched
  <2> QED BY <2>1, <2>2, <2>4, <2>5 DEF Branched
<1> QED BY <1>1, <1>3, <1>5 DEF Sites

\* A declaration touches no scope that is open around a branch.
LEMMA SitesDeclare ==
  ASSUME NEW s \in Seq(Frame), s # <<>>, NEW f, NEW D, NEW X, NEW t, NEW u,
         Sites(f, D, X, s, t), Len(t) \in Nat, Len(u) = Len(t),
         \A i \in 1 .. Len(t) - 1 : u[i] = t[i],
         s[Len(s)].visit \in {"body", "declarations"}
  PROVE  Sites(f, D, X, s, u)
<1> DEFINE m == Len(s)
           top == s[m]
<1>1. m \in Nat \ {0} /\ m \in 1 .. m
  OBVIOUS
<1>2. PICK h \in [1 .. m -> Nat] :
        /\ Ranked(s, h) /\ h[m] = Len(t)
        /\ \A k \in 1 .. m : Branched(f, D, X, s, h, t, k)
  BY DEF Sites
<1>3. \A k \in 1 .. m : Framed(f, X, s, k)
  BY DEF Sites
<1> HIDE DEF m
<1>4. ASSUME NEW k \in 1 .. m PROVE Branched(f, D, X, s, h, u, k)
  <2> SUFFICES ASSUME s[k].visit = "then"
               PROVE  Scoped(f, Behind(D, s[k].block), u, h[k])
    BY <1>2, <1>4 DEF Branched
  <2>1. k \in 1 .. m - 1
    <3>1. k # m
      BY DEF m
    <3> QED BY <1>1, <3>1
  <2>2. ~Unopened(top)
    BY <1>1, <1>3, <2>1 DEF Framed
  <2>3. Opens(top) = 1
    BY <2>2 DEF Unopened, Opens, m
  <2>4. h[k] + Opens(top) <= h[m] /\ h[k] \in Nat
    BY <1>1, <1>2, <2>1 DEF Ranked, m
  <2>5. \A i \in 1 .. h[k] : u[i] = t[i]
    <3>1. \A i \in 1 .. h[k] : i \in 1 .. Len(t) - 1
      BY <1>2, <2>3, <2>4
    <3> QED BY <3>1
  <2>6. Scoped(f, Behind(D, s[k].block), t, h[k])
    BY <1>2 DEF Branched
  <2> QED BY <2>5, <2>6, ScopedSame
<1> QED BY <1>2, <1>3, <1>4 DEF Sites, m

\* Behind a branch, nothing that was made in it is known any more.
LEMMA SitesThen ==
  ASSUME NEW s \in Seq(Frame), s # <<>>, s[Len(s)].visit = "then",
         NEW f, NEW D, NEW X, NEW t, Sites(f, D, X, s, t), Len(t) \in Nat
  PROVE  LET r == SubSeq(s, 1, Len(s) - 1)
             c == s[Len(s)].block
         IN  /\ Behind(D, c) \subseteq X
             /\ Sites(f, D, D[c], r, t) /\ Scoped(f, D[c], t, Len(t))
<1> DEFINE m == Len(s)
           c == s[m].block
           r == SubSeq(s, 1, Len(s) - 1)
<1>1. m \in Nat \ {0} /\ m \in 1 .. m
  OBVIOUS
<1>2. PICK h \in [1 .. m -> Nat] :
        /\ Ranked(s, h) /\ h[m] = Len(t)
        /\ \A k \in 1 .. m : Branched(f, D, X, s, h, t, k)
  BY DEF Sites
<1>3. \A k \in 1 .. m : Framed(f, X, s, k)
  BY DEF Sites
<1> HIDE DEF m
<1>4. Branched(f, D, X, s, h, t, m) /\ Framed(f, X, s, m)
  BY <1>1, <1>2, <1>3
<1>5. \A j \in 1 .. m : Plain(s[j])
  BY <1>4 DEF Framed, Silent, m
<1>6. \A j \in 1 .. m : Knows(f, D[c], s[j])
  BY <1>5 DEF Plain, Knows, Known, KnownAll
<1>7. \A k \in 1 .. m : Framed(f, D[c], s, k)
  BY <1>3, <1>6 DEF Framed
<1>8. Behind(D, c) \subseteq X /\ Behind(D, c) \subseteq D[c] /\ Scoped(f, Behind(D, c), t, Len(t))
  BY <1>2, <1>4 DEF Branched, m, Behind
<1>9. ASSUME NEW k \in 1 .. m PROVE Branched(f, D, D[c], s, h, t, k)
  <2>1. s[k].visit = "then" => Behind(D, s[k].block) \subseteq Behind(D, c)
    <3>1. CASE k = m
      BY <3>1
    <3>2. CASE k # m
      <4>1. k \in 1 .. m - 1
        BY <1>1, <3>2
      <4> QED BY <1>4, <4>1 DEF Branched, m
    <3> QED BY <3>1, <3>2
  <2>2. Branched(f, D, X, s, h, t, k)
    BY <1>2
  <2> QED BY <1>8, <2>1, <2>2 DEF Branched
<1>10. Sites(f, D, D[c], s, t)
  BY <1>2, <1>7, <1>9 DEF Sites, m
<1>11. Sites(f, D, D[c], r, t)
  <2>1. Opens(s[Len(s)]) = 0
    BY DEF Opens
  <2>2. Len(t) = Len(t) - Opens(s[Len(s)])
    BY <2>1
  <2> QED BY <1>10, <2>2, SitesPop
<1>12. Scoped(f, D[c], t, Len(t))
  BY <1>8, GrowsStays, ScopedGrows
<1> QED BY <1>8, <1>11, <1>12 DEF m

-----------------------------------------------------------------------------
(* The invariant that carries the order of definitions, and what a step    *)
(* must bring to keep it.                                                  *)

Sited(D) ==
  /\ Solid(fn, D)
  /\ Scoped(fn, D[insert], inner, Len(inner))
  /\ Sites(fn, D, D[insert], visits, inner)
  /\ visits # <<>> /\ Top.visit \in Taking => Known(fn, D[insert], tmp_val)

\* The code of a step, and what is known where the visitor stands after it.
Moved(D, E) ==
  /\ Solid(fn', E) /\ Grows(fn, fn') /\ D[insert] \subseteq E[insert']
  /\ \A b \in DOMAIN fn.code : E[b] = D[b]

LEMMA SitedFacts ==
  ASSUME Inv, NEW D, Sited(D)
  PROVE  /\ Solid(fn, D) /\ Len(fn.code) \in Nat /\ DOMAIN fn.code = 1 .. Len(fn.code)
         /\ visits \in Seq(Frame) /\ Placed(visits, Len(fn.code)) /\ Len(inner) \in Nat
         /\ fn \in Code
         /\ visits # <<>> => insert \in DOMAIN fn.code
  BY InvFacts, CodeFacts DEF Sited, Inv, Stack

LEMMA LeaveSites ==
  ASSUME Inv, visits # <<>>, NEW D, Sited(D), NEW u, Len(u) \in Nat,
         Len(u) = Len(inner) - Opens(Top), \A i \in 1 .. Len(u) : u[i] = inner[i],
         NEW g, NEW E, NEW Y, Grows(fn, g), D[insert] \subseteq Y,
         \A b \in DOMAIN fn.code : E[b] = D[b]
  PROVE  /\ Leave \in Seq(Frame) /\ Sites(g, E, Y, Leave, u)
         /\ Scoped(g, Y, u, Len(u))
<1>1. /\ visits \in Seq(Frame) /\ Placed(visits, Len(fn.code)) /\ Len(inner) \in Nat
      /\ DOMAIN fn.code = 1 .. Len(fn.code) /\ Len(fn.code) \in Nat
  BY SitedFacts
<1>2. Sites(fn, D, D[insert], visits, inner) /\ Scoped(fn, D[insert], inner, Len(inner))
  BY DEF Sited
<1>3. Leave \in Seq(Frame) /\ Sites(fn, D, D[insert], Leave, u)
  BY <1>1, <1>2, SitesPop DEF Leave, Top
<1>4. Placed(Leave, Len(fn.code))
  <2>1. /\ Len(Leave) = Len(visits) - 1 /\ Len(visits) \in Nat
        /\ \A i \in 1 .. Len(visits) - 1 : Leave[i] = visits[i]
    BY <1>1, LeaveFacts DEF Leave
  <2> QED BY <1>1, <2>1 DEF Placed
<1>5. Sites(g, E, Y, Leave, u)
  BY <1>1, <1>3, <1>4, SitesGrow
<1>6. Scoped(fn, D[insert], inner, Len(u))
  <2>1. \A i \in 1 .. Len(u) : i \in 1 .. Len(inner)
    BY <1>1, OpensFacts
  <2> QED BY <1>2, <2>1 DEF Scoped
<1>7. Scoped(fn, D[insert], u, Len(u))
  BY <1>6, ScopedSame
<1> QED BY <1>3, <1>5, <1>7, ScopedGrows

\* What a stack says of its top frame and the one below.
LEMMA TopSites ==
  ASSUME Inv, visits # <<>>, NEW D, Sited(D)
  PROVE  /\ Knows(fn, D[insert], Top)
         /\ Top.visit \in Silent =>
              Plain(Top) /\ (Leave # <<>> => Leave[Len(Leave)].visit \in Bare)
         /\ Unopened(Top) => \A j \in 1 .. Len(Leave) : Leave[j].visit # "then"
         /\ Top.visit \in Taking => Known(fn, D[insert], tmp_val)
<1>1. visits \in Seq(Frame) /\ Len(inner) - Opens(Top) \in Nat \ {0} /\ Len(inner) \in Nat
  BY SitedFacts, TopFacts
<1> DEFINE u == SubSeq(inner, 1, Len(inner) - Opens(Top))
<1>2. Len(u) = Len(inner) - Opens(Top) /\ \A i \in 1 .. Len(u) : u[i] = inner[i]
  <2>1. inner \in Seq(Maps) /\ Opens(Top) \in {0, 1}
    BY InvFacts, OpensFacts
  <2> QED BY <1>1, <2>1, SubSeqProperties
<1> HIDE DEF u
<1>3. Sites(fn, D, D[insert], visits, inner)
  BY DEF Sited
<1>4. Len(u) \in Nat
  BY <1>1, <1>2
<1> QED BY <1>1, <1>2, <1>3, <1>4, SitesPop DEF Sited, Leave, Top

LEMMA ReturnedSited ==
  ASSUME Inv, visits # <<>>, NEW D, Sited(D), visits' = Leave, NEW E, Moved(D, E),
         Len(inner') \in Nat, Len(inner') = Len(inner) - Opens(Top),
         \A i \in 1 .. Len(inner') : inner'[i] = inner[i],
         Top.visit \in Silent \/ Known(fn', E[insert'], tmp_val')
  PROVE  Sited(E)'
<1>1. /\ Sites(fn', E, E[insert'], Leave, inner')
      /\ Scoped(fn', E[insert'], inner', Len(inner'))
  BY LeaveSites DEF Moved
<1>2. ASSUME visits' # <<>>, Top'.visit \in Taking PROVE Known(fn', E[insert'], tmp_val')
  <2>1. Leave # <<>> /\ Top' = Leave[Len(Leave)]
    BY <1>2 DEF Top
  <2>2. Top.visit \in Silent => Leave[Len(Leave)].visit \in Bare
    BY <2>1, TopSites
  <2> QED BY <1>2, <2>1, <2>2 DEF Bare, Silent, Taking
<1> QED BY <1>1, <1>2 DEF Sited, Moved

\* Changing the top frame: f is the code before, g the code it holds for.
LEMMA BecomeSites ==
  ASSUME Inv, visits # <<>>, NEW D, Sited(D), NEW frame \in Frame, NEW u, Len(u) \in Nat,
         Len(u) = Len(inner) - Opens(Top) + Opens(frame),
         \A i \in 1 .. Len(inner) - Opens(Top) : u[i] = inner[i],
         NEW g, NEW E, Grows(fn, g), \A b \in DOMAIN fn.code : E[b] = D[b],
         Knows(g, D[insert], frame),
         frame.visit \in Silent => Plain(frame) /\ Top.visit \in Silent,
         Unopened(frame) => Unopened(Top),
         frame.visit = "then" => Behind(E, frame.block) = D[insert] /\ u = inner
  PROVE  /\ Become(frame) \in Seq(Frame) /\ Become(frame) # <<>>
         /\ Become(frame)[Len(Become(frame))] = frame
         /\ Len(Become(frame)) = Len(Leave) + 1
         /\ \A j \in 1 .. Len(Leave) : Become(frame)[j] = Leave[j]
         /\ Sites(g, E, D[insert], Become(frame), u)
<1>1. visits \in Seq(Frame) /\ Len(inner) - Opens(Top) \in Nat \ {0} /\ Len(inner) \in Nat
  BY SitedFacts, TopFacts
<1> DEFINE t == SubSeq(inner, 1, Len(inner) - Opens(Top))
           r == Leave
<1>2. /\ Len(t) = Len(inner) - Opens(Top) /\ \A i \in 1 .. Len(t) : t[i] = inner[i]
      /\ Len(t) \in Nat
  <2>1. inner \in Seq(Maps) /\ Opens(Top) \in {0, 1}
    BY InvFacts, OpensFacts
  <2>2. Len(t) = Len(inner) - Opens(Top) /\ \A i \in 1 .. Len(t) : t[i] = inner[i]
    BY <1>1, <2>1, SubSeqProperties
  <2> HIDE DEF t
  <2> QED BY <1>1, <2>2
<1>3. Become(frame) = Append(r, frame)
  BY <1>1, BecomeIsPush DEF Become, Leave
<1> HIDE DEF t
<1>4. r \in Seq(Frame) /\ Sites(g, E, D[insert], r, t)
  BY <1>2, LeaveSites
<1>5. /\ Append(r, frame) \in Seq(Frame) /\ Append(r, frame) # <<>>
      /\ Len(Append(r, frame)) = Len(r) + 1 /\ Len(r) \in Nat
      /\ \A j \in 1 .. Len(r) : Append(r, frame)[j] = r[j]
      /\ Append(r, frame)[Len(Append(r, frame))] = frame
  <2> DEFINE q == Leave
  <2>1. q \in Seq(Frame)
    BY <1>4
  <2> HIDE DEF q
  <2>2. /\ Append(q, frame) \in Seq(Frame)
        /\ Len(Append(q, frame)) = Len(q) + 1 /\ Len(q) \in Nat
        /\ \A j \in 1 .. Len(q) : Append(q, frame)[j] = q[j]
        /\ Append(q, frame)[Len(q) + 1] = frame
    BY <2>1
  <2>3. Append(q, frame) # <<>>
    BY <2>2
  <2> QED BY <2>2, <2>3 DEF q
<1>6. frame.visit \in Silent => Plain(frame) /\ (r # <<>> => r[Len(r)].visit \in Bare)
  BY TopSites
<1>7. Unopened(frame) => \A j \in 1 .. Len(r) : r[j].visit # "then"
  BY TopSites
<1>8. ASSUME frame.visit = "then"
      PROVE  /\ Behind(E, frame.block) \subseteq D[insert]
             /\ \A j \in 1 .. Len(r) : r[j].visit = "then"
                  => Behind(E, r[j].block) \subseteq Behind(E, frame.block)
             /\ Scoped(g, Behind(E, frame.block), u, Len(u))
  <2>1. Behind(E, frame.block) = D[insert] /\ u = inner
    BY <1>8
  <2>2. Scoped(g, D[insert], u, Len(u))
    BY <2>1, ScopedGrows DEF Sited
  <2>3. \A j \in 1 .. Len(r) : r[j].visit = "then" => Behind(E, r[j].block) \subseteq D[insert]
    BY <1>4 DEF Sites, Branched
  <2> QED BY <2>1, <2>2, <2>3
<1>9. /\ Len(u) = Len(t) + Opens(frame)
      /\ \A i \in 1 .. Len(t) : u[i] = t[i]
  BY <1>2
<1> HIDE DEF r
<1>10. Sites(g, E, D[insert], Append(r, frame), u)
  BY <1>2, <1>4, <1>6, <1>7, <1>8, <1>9, SitesPush
<1> QED BY <1>3, <1>5, <1>10 DEF r

LEMMA BecameSited ==
  ASSUME Inv, visits # <<>>, NEW D, Sited(D), NEW frame \in Frame, visits' = Become(frame),
         NEW E, Moved(D, E), Inv', Len(inner') \in Nat,
         Len(inner') = Len(inner) - Opens(Top) + Opens(frame),
         \A i \in 1 .. Len(inner) - Opens(Top) : inner'[i] = inner[i],
         Scoped(fn', E[insert'], inner', Len(inner')),
         Knows(fn', D[insert], frame),
         frame.visit \in Silent => Plain(frame) /\ Top.visit \in Silent,
         Unopened(frame) => Unopened(Top), frame.visit \notin Taking, frame.visit # "then"
  PROVE  Sited(E)'
<1>1. /\ Become(frame)[Len(Become(frame))] = frame
      /\ Sites(fn', E, D[insert], Become(frame), inner')
  <2> HIDE DEF Inv
  <2> QED BY BecomeSites DEF Moved
<1>2. Top' = frame
  BY <1>1 DEF Top
<1>3. Placed(visits', Len(fn'.code))
  BY DEF Inv, Stack
<1>4. DOMAIN fn'.code = 1 .. Len(fn'.code)
  BY DEF Moved, Solid, Shaped
<1>5. Sites(fn', E, E[insert'], visits', inner')
  BY <1>1, <1>3, <1>4, SitesGrow, GrowsStays DEF Moved
<1> QED BY <1>2, <1>5 DEF Sited, Moved

LEMMA CalledSited ==
  ASSUME Inv, visits # <<>>, NEW D, Sited(D), NEW frame \in Frame, NEW child \in Frame,
         visits' = Call(frame, child), NEW E, Moved(D, E), Inv', inner' = inner,
         Opens(frame) = Opens(Top), Opens(child) = 0,
         Knows(fn', D[insert], frame), Plain(child),
         frame.visit \in Silent => Plain(frame) /\ Top.visit \in Silent,
         Unopened(frame) => Unopened(Top),
         frame.visit = "then" => Behind(E, frame.block) = D[insert],
         \/ child.visit \in {"expression", "target"}
         \/ child.visit = "statement" /\ frame.visit \in Bare
  PROVE  Sited(E)'
<1>1. Len(inner) \in Nat /\ Opens(Top) \in {0, 1}
  BY SitedFacts, OpensFacts
<1>2. /\ Become(frame) \in Seq(Frame) /\ Become(frame) # <<>>
      /\ Become(frame)[Len(Become(frame))] = frame
      /\ Sites(fn', E, D[insert], Become(frame), inner)
  <2>1. Len(inner) = Len(inner) - Opens(Top) + Opens(frame)
    BY <1>1
  <2>2. /\ Grows(fn, fn') /\ \A b \in DOMAIN fn.code : E[b] = D[b]
    BY DEF Moved
  <2> QED BY <1>1, <2>1, <2>2, BecomeSites
<1>3. visits' = Append(Become(frame), child)
  BY DEF Call
<1> DEFINE r == Become(frame)
<1> HIDE DEF r
<1>4. Sites(fn', E, D[insert], Append(r, child), inner)
  <2>1. Knows(fn', D[insert], child)
    BY DEF Plain, Knows, Known, KnownAll
  <2>2. child.visit # "then" /\ ~Unopened(child)
    BY DEF Unopened
  <2>3. child.visit \in Silent => Plain(child) /\ (r # <<>> => r[Len(r)].visit \in Bare)
    BY <1>2 DEF r, Silent
  <2>4. Len(inner) = Len(inner) + Opens(child)
    BY <1>1
  <2>5. r \in Seq(Frame) /\ Sites(fn', E, D[insert], r, inner)
    BY <1>2 DEF r
  <2> QED BY <1>1, <2>1, <2>2, <2>3, <2>4, <2>5, SitesPush
<1>5. Top' = child
  <2>1. r \in Seq(Frame) /\ visits' = Append(r, child)
    BY <1>2, <1>3 DEF r
  <2>2. Append(r, child)[Len(Append(r, child))] = child
    BY <2>1
  <2> QED BY <2>1, <2>2 DEF Top
<1>6. Placed(visits', Len(fn'.code))
  BY DEF Inv, Stack
<1>7. DOMAIN fn'.code = 1 .. Len(fn'.code)
  BY DEF Moved, Solid, Shaped
<1>8. Sites(fn', E, E[insert'], visits', inner')
  <2>1. Sites(fn', E, D[insert], visits', inner')
    BY <1>3, <1>4 DEF r
  <2> QED BY <1>6, <1>7, <2>1, SitesGrow, GrowsStays DEF Moved
<1>9. Scoped(fn', E[insert'], inner', Len(inner'))
  BY ScopedGrows DEF Moved, Sited
<1> QED BY <1>5, <1>8, <1>9 DEF Sited, Moved, Taking

\* The frames of a step are frames, as the stack after it is one.
LEMMA BecomeFrame ==
  ASSUME Inv, Inv', visits # <<>>, NEW frame, visits' = Become(frame)
  PROVE  frame \in Frame
<1>1. visits \in Seq(Frame) /\ visits' \in Seq(Frame)
  BY DEF Inv, Stack
<1> DEFINE n == Len(visits)
<1>2. n \in Nat /\ n # 0 /\ DOMAIN visits = 1 .. n
  BY <1>1
<1>3. DOMAIN visits' = 1 .. n /\ visits'[n] = frame
  BY <1>2 DEF Become
<1>4. n \in DOMAIN visits'
  BY <1>2, <1>3
<1> QED BY <1>1, <1>3, <1>4

LEMMA CallFrames ==
  ASSUME Inv, Inv', visits # <<>>, NEW frame, NEW child, visits' = Call(frame, child)
  PROVE  frame \in Frame /\ child \in Frame
<1>1. visits \in Seq(Frame) /\ visits' \in Seq(Frame)
  BY DEF Inv, Stack
<1> DEFINE n == Len(visits)
           s == Become(frame)
<1>2. n \in Nat /\ n # 0 /\ DOMAIN visits = 1 .. n
  BY <1>1
<1>3. DOMAIN s = 1 .. n /\ s[n] = frame
  BY <1>2 DEF Become
<1>4. visits' = Append(s, child)
  BY DEF Call
<1> HIDE DEF s, n
<1>5. Len(s) = n
  BY <1>2, <1>3
<1>6. /\ DOMAIN visits' = 1 .. n + 1 /\ visits'[n + 1] = child
      /\ \A i \in 1 .. n : visits'[i] = s[i]
  BY <1>2, <1>3, <1>4, <1>5
<1>7. n \in 1 .. n /\ n \in DOMAIN visits' /\ n + 1 \in DOMAIN visits'
  BY <1>2, <1>6
<1>8. visits'[n] = frame
  BY <1>3, <1>6, <1>7
<1> QED BY <1>1, <1>6, <1>7, <1>8

LEMMA ExtendsMoves ==
  ASSUME NEW D, Extends(fn, fn', D), insert' = insert
  PROVE  Moved(D, D)
  BY DEF Extends, Moved

LEMMA StaysMoves ==
  ASSUME NEW D, Sited(D), fn' = fn, insert' = insert
  PROVE  Moved(D, D) /\ Extends(fn, fn', D)
  BY ExtendsStays, ExtendsMoves DEF Sited

\* Steps that stay in their block and in the scopes.
LEMMA ReturnedHere ==
  ASSUME Inv, visits # <<>>, NEW D, Sited(D), visits' = Leave, Extends(fn, fn', D),
         insert' = insert, inner' = inner, Opens(Top) = 0,
         Top.visit \in Silent \/ Known(fn', D[insert], tmp_val')
  PROVE  Sited(D)'
<1>1. Len(inner) \in Nat /\ Len(inner') = Len(inner) - Opens(Top)
  BY SitedFacts
<1> QED BY <1>1, ExtendsMoves, ReturnedSited

LEMMA BecameHere ==
  ASSUME Inv, Inv', visits # <<>>, NEW D, Sited(D), NEW frame, visits' = Become(frame),
         Extends(fn, fn', D), insert' = insert, inner' = inner,
         Opens(frame) = 0, Opens(Top) = 0, Knows(fn', D[insert], frame),
         frame.visit \notin Silent \cup Taking
  PROVE  Sited(D)'
<1>1. Len(inner) \in Nat /\ Len(inner') = Len(inner) - Opens(Top) + Opens(frame)
  BY SitedFacts
<1>2. frame \in Frame
  BY BecomeFrame
<1>3. Scoped(fn', D[insert], inner', Len(inner'))
  BY ScopedGrows DEF Sited, Extends
<1>4. Moved(D, D)
  BY ExtendsMoves
<1>5. ~Unopened(frame) /\ frame.visit # "then"
  BY DEF Unopened, Silent
<1> QED BY <1>1, <1>2, <1>3, <1>4, <1>5, BecameSited

LEMMA CalledHere ==
  ASSUME Inv, Inv', visits # <<>>, NEW D, Sited(D), NEW frame, NEW child,
         visits' = Call(frame, child), UNCHANGED <<fn, insert, inner>>,
         Opens(frame) = Opens(Top), Opens(child) = 0,
         Knows(fn, D[insert], frame), Plain(child),
         frame.visit \in Silent => Plain(frame) /\ Top.visit \in Silent,
         Unopened(frame) => Unopened(Top), frame.visit # "then",
         \/ child.visit \in {"expression", "target"}
         \/ child.visit = "statement" /\ frame.visit \in Bare
  PROVE  Sited(D)'
<1>1. frame \in Frame /\ child \in Frame
  BY CallFrames
<1>2. Moved(D, D) /\ inner' = inner /\ fn' = fn
  BY StaysMoves
<1> QED BY <1>1, <1>2, CalledSited

LEMMA PlainFacts ==
  /\ \A v : Plain(Visit(v)) /\ Visit(v).visit = v /\ Opens(Visit(v)) = 0
            /\ Visit(v).val = NoValue /\ Visit(v).args = <<>>
  /\ \A w : Plain(Expression(w)) /\ Expression(w).visit = "expression"
            /\ Opens(Expression(w)) = 0
  BY DEF Plain, Visit, Expression, Opens, NoValue

LEMMA PlainHolds ==
  \A f, X, frame : Plain(frame) => Knows(f, X, frame)
  BY DEF Plain, Knows, Known, KnownAll

\* What a name stands for was made before the visitor's block, or in it.
LEMMA FindKnown ==
  ASSUME Inv, NEW D, Sited(D), NEW n, Find(n) # Unbound
  PROVE  Known(fn, D[insert], Find(n))
<1>0. inner \in Seq(Maps) /\ Len(inner) \in Nat /\ DOMAIN inner = 1 .. Len(inner)
  BY DEF Inv, Tables, Symbols
<1>1. Binders(n) # {} /\ Find(n) = inner[LastBinder(n)][n]
  BY DEF Find
<1>2. Binders(n) \in SUBSET (1 .. Len(inner))
  BY <1>0 DEF Binders
<1>3. Last(Binders(n)) \in Binders(n)
  BY <1>0, <1>1, <1>2, LastIsGreatest
<1>4. LastBinder(n) \in 1 .. Len(inner) /\ n \in DOMAIN inner[LastBinder(n)]
  BY <1>0, <1>3 DEF Last, LastBinder, Binders
<1> QED BY <1>1, <1>4 DEF Sited, Scoped

-----------------------------------------------------------------------------
(* The steps between statements and expressions that emit nothing.         *)

Calls ==
  \/ NextStatement \/ SelectionStmt \/ IndexedVar \/ AssignExpression
  \/ AssignTarget \/ BinaryExpression \/ RightOperand \/ NextArgument

LEMMA NextStatementSited ==
  ASSUME Inv, Inv', NEW D, Sited(D), NextStatement PROVE Sited(D)'
<1> DEFINE frame == [Top EXCEPT !.visit = "statements"]
           child == Visit("statement")
<1>1. /\ visits # <<>> /\ Top.visit \in {"declarations", "statements"}
      /\ visits' = Call(frame, child) /\ UNCHANGED <<fn, insert, inner>>
  BY DEF NextStatement, InVisit
<1>2. Top \in Shape /\ Plain(Top)
  BY <1>1, TopFacts, TopSites DEF Silent
<1>3. /\ frame.visit = "statements" /\ frame.val = Top.val /\ frame.args = Top.args
      /\ frame.flag = Top.flag
  BY <1>2 DEF Shape
<1> HIDE DEF frame
<1>4. Opens(frame) = Opens(Top) /\ Plain(frame) /\ (Unopened(frame) => Unopened(Top))
  BY <1>1, <1>2, <1>3 DEF Opens, Plain, Unopened
<1>5. Plain(child) /\ child.visit = "statement" /\ Opens(child) = 0
  BY PlainFacts
<1> HIDE DEF child
<1> QED BY <1>1, <1>3, <1>4, <1>5, PlainHolds, CalledHere DEF Silent, Bare

LEMMA SelectionStmtSited ==
  ASSUME Inv, Inv', NEW D, Sited(D), SelectionStmt PROVE Sited(D)'
<1> DEFINE frame == Visit("condition")
           child == Expression("number")
<1>1. /\ visits # <<>> /\ Top.visit = "statement"
      /\ visits' = Call(frame, child) /\ UNCHANGED <<fn, insert, inner>>
  BY DEF SelectionStmt, InVisit
<1>2. Plain(frame) /\ frame.visit = "condition" /\ Opens(frame) = 0
  BY PlainFacts
<1>3. Plain(child) /\ child.visit = "expression" /\ Opens(child) = 0
  BY PlainFacts
<1> HIDE DEF frame, child
<1>4. Opens(Top) = 0 /\ ~Unopened(frame)
  BY <1>1, <1>2 DEF Opens, Unopened
<1> QED BY <1>1, <1>2, <1>3, <1>4, PlainHolds, CalledHere DEF Silent

\* A call of an expression from one, which may hold a value meanwhile.
LEMMA OperandSited ==
  ASSUME Inv, Inv', NEW D, Sited(D), visits # <<>>, Opens(Top) = 0, NEW frame, NEW child,
         visits' = Call(frame, child), UNCHANGED <<fn, insert, inner>>,
         frame.visit \in {"index", "assign", "store", "left", "right", "argument"},
         Knows(fn, D[insert], frame), child.visit \in {"expression", "target"},
         Plain(child)
  PROVE  Sited(D)'
<1>1. Opens(frame) = 0 /\ Opens(child) = 0 /\ ~Unopened(frame) /\ frame.visit \notin Silent
      /\ frame.visit # "then"
  BY DEF Opens, Unopened, Silent
<1> QED BY <1>1, CalledHere

LEMMA IndexedVarSited ==
  ASSUME Inv, Inv', NEW D, Sited(D), IndexedVar PROVE Sited(D)'
<1> DEFINE child == Expression("number")
<1>1. PICK n \in UserNames :
        /\ IsVariable(n) /\ Pointee(Find(n).type) \notin Scalars
        /\ visits' = Call([Visit("index") EXCEPT !.val = Find(n), !.flag = require_lvalue], child)
  BY DEF IndexedVar
<1>2. /\ WantsNumber \/ InVisit("target")
      /\ UNCHANGED <<inner, fn, insert>>
  BY DEF IndexedVar
<1> DEFINE frame == [Visit("index") EXCEPT !.val = Find(n), !.flag = require_lvalue]
<1>3. visits # <<>> /\ Opens(Top) = 0
  BY <1>2, NumberFacts, TargetFacts
<1>4. Known(fn, D[insert], Find(n))
  BY <1>1, FindKnown DEF IsVariable
<1>5. frame.visit = "index" /\ frame.val = Find(n) /\ frame.args = <<>>
  BY DEF Visit
<1>6. visits' = Call(frame, child)
  BY <1>1
<1> HIDE DEF frame
<1>7. Knows(fn, D[insert], frame)
  BY <1>4, <1>5 DEF Knows, KnownAll
<1>8. Plain(child) /\ child.visit = "expression"
  BY PlainFacts
<1> HIDE DEF child
<1> QED BY <1>2, <1>3, <1>5, <1>6, <1>7, <1>8, OperandSited

LEMMA AssignExpressionSited ==
  ASSUME Inv, Inv', NEW D, Sited(D), AssignExpression PROVE Sited(D)'
<1> DEFINE frame == Visit("assign")
           child == Expression("number")
<1>1. /\ WantsNumber /\ visits' = Call(frame, child) /\ UNCHANGED <<inner, fn, insert>>
  BY DEF AssignExpression
<1>2. visits # <<>> /\ Opens(Top) = 0
  BY <1>1, NumberFacts
<1>3. /\ frame.visit = "assign" /\ Plain(frame)
      /\ Plain(child) /\ child.visit = "expression"
  BY PlainFacts
<1> HIDE DEF frame, child
<1> QED BY <1>1, <1>2, <1>3, PlainHolds, OperandSited

LEMMA AssignTargetSited ==
  ASSUME Inv, Inv', NEW D, Sited(D), AssignTarget PROVE Sited(D)'
<1> DEFINE frame == [Visit("store") EXCEPT !.val = tmp_val]
           child == Visit("target")
<1>1. /\ visits # <<>> /\ Top.visit = "assign" /\ visits' = Call(frame, child)
      /\ UNCHANGED <<inner, fn, insert>>
  BY DEF AssignTarget, InVisit
<1>2. Opens(Top) = 0 /\ Known(fn, D[insert], tmp_val)
  BY <1>1, TopSites DEF Opens, Taking
<1>3. frame.visit = "store" /\ frame.val = tmp_val /\ frame.args = <<>>
  BY DEF Visit
<1> HIDE DEF frame
<1>4. Knows(fn, D[insert], frame)
  BY <1>2, <1>3 DEF Knows, KnownAll
<1>5. Plain(child) /\ child.visit = "target"
  BY PlainFacts
<1> HIDE DEF child
<1> QED BY <1>1, <1>2, <1>3, <1>4, <1>5, OperandSited

LEMMA BinaryExpressionSited ==
  ASSUME Inv, Inv', NEW D, Sited(D), BinaryExpression PROVE Sited(D)'
<1> DEFINE child == Expression("number")
<1>1. WantsNumber /\ UNCHANGED <<inner, fn, insert>>
  BY DEF BinaryExpression
<1>2. PICK op \in Operators : visits' = Call([Visit("left") EXCEPT !.op = op], child)
  BY DEF BinaryExpression
<1> DEFINE frame == [Visit("left") EXCEPT !.op = op]
<1>3. visits # <<>> /\ Opens(Top) = 0 /\ visits' = Call(frame, child)
  BY <1>1, <1>2, NumberFacts
<1>4. frame.visit = "left" /\ frame.val = NoValue /\ frame.args = <<>>
  BY DEF Visit
<1> HIDE DEF frame
<1>5. Plain(frame)
  BY <1>4 DEF Plain, NoValue
<1>6. Plain(child) /\ child.visit = "expression"
  BY PlainFacts
<1> HIDE DEF child
<1> QED BY <1>1, <1>3, <1>4, <1>5, <1>6, PlainHolds, OperandSited

LEMMA RightOperandSited ==
  ASSUME Inv, Inv', NEW D, Sited(D), RightOperand PROVE Sited(D)'
<1> DEFINE frame == [Top EXCEPT !.visit = "right", !.val = tmp_val]
           child == Expression("number")
<1>1. /\ visits # <<>> /\ Top.visit = "left" /\ visits' = Call(frame, child)
      /\ UNCHANGED <<inner, fn, insert>>
  BY DEF RightOperand, InVisit
<1>2. /\ Opens(Top) = 0 /\ Known(fn, D[insert], tmp_val) /\ Knows(fn, D[insert], Top)
      /\ Top \in Shape
  BY <1>1, TopSites, TopFacts DEF Opens, Taking
<1>3. frame.visit = "right" /\ frame.val = tmp_val /\ frame.args = Top.args
  BY <1>2 DEF Shape
<1> HIDE DEF frame
<1>4. Knows(fn, D[insert], frame)
  BY <1>2, <1>3 DEF Knows
<1>5. Plain(child) /\ child.visit = "expression"
  BY PlainFacts
<1> HIDE DEF child
<1> QED BY <1>1, <1>2, <1>3, <1>4, <1>5, OperandSited

LEMMA NextArgumentSited ==
  ASSUME Inv, Inv', NEW D, Sited(D), NextArgument PROVE Sited(D)'
<1> DEFINE frame == [Top EXCEPT !.visit = "argument"]
           child == Expression(IF ParamType \in Scalars THEN "number" ELSE ParamType)
<1>1. /\ visits # <<>> /\ Top.visit = "call" /\ visits' = Call(frame, child)
      /\ UNCHANGED <<inner, fn, insert>>
  BY DEF NextArgument, InVisit
<1>2. Opens(Top) = 0 /\ Knows(fn, D[insert], Top) /\ Top \in Shape
  BY <1>1, TopSites, TopFacts DEF Opens
<1>3. frame.visit = "argument" /\ frame.val = Top.val /\ frame.args = Top.args
  BY <1>2 DEF Shape
<1> HIDE DEF frame
<1>4. Knows(fn, D[insert], frame)
  BY <1>2, <1>3 DEF Knows
<1>5. Plain(child) /\ child.visit = "expression"
  BY PlainFacts
<1> HIDE DEF child
<1> QED BY <1>1, <1>2, <1>3, <1>4, <1>5, OperandSited

LEMMA CallsSited ==
  ASSUME Inv, Inv', NEW D, Sited(D), Calls PROVE Sited(D)'
  BY NextStatementSited, SelectionStmtSited, IndexedVarSited, AssignExpressionSited,
     AssignTargetSited, BinaryExpressionSited, RightOperandSited, NextArgumentSited
     DEF Calls

-----------------------------------------------------------------------------
(* The steps that emit code in the block they stand in, and those that     *)
(* leave a scope.                                                          *)

Emits ==
  \/ EndReturnStmt \/ ReturnStmt \/ Num \/ Var \/ EndAssign \/ EndBinary \/ EndCall
  \/ CallFunction \/ EndArgument \/ ExpressionStmt \/ EndFunDeclaration \/ LeaveCompoundStmt

LEMMA EndReturnStmtSited ==
  ASSUME Inv, Inv', NEW D, Sited(D), EndReturnStmt PROVE Sited(D)'
<1> DEFINE c == Converted(fn, insert, tmp_val, ReturnType)
<1>1. /\ visits # <<>> /\ Top.visit = "return"
      /\ fn' = CreateRet(c.fn, insert, <<c.val>>) /\ visits' = Leave
      /\ insert' = insert /\ inner' = inner
  BY DEF EndReturnStmt, InVisit
<1>2. Solid(fn, D) /\ insert \in DOMAIN fn.code /\ Known(fn, D[insert], tmp_val)
  BY <1>1, SitedFacts, TopSites DEF Taking
<1>3. Extends(fn, c.fn, D) /\ Known(c.fn, D[insert], c.val)
  BY <1>2, ConvertedSolid
<1> HIDE DEF c
<1>4. Extends(c.fn, fn', D)
  BY <1>1, <1>2, <1>3, ExtendsKnown, KnownTuples, RetSolid
<1>5. Opens(Top) = 0 /\ Top.visit \in Silent
  BY <1>1 DEF Opens, Silent
<1> QED BY <1>1, <1>3, <1>4, <1>5, ExtendsOn, ReturnedHere

LEMMA ReturnStmtSited ==
  ASSUME Inv, Inv', NEW D, Sited(D), ReturnStmt PROVE Sited(D)'
<1> DEFINE frame == Visit("return")
           child == Expression("number")
<1>1. /\ visits # <<>> /\ Top.visit = "statement"
      /\ insert' = insert /\ inner' = inner
  BY DEF ReturnStmt, InVisit
<1>2. Opens(Top) = 0 /\ Top.visit \in Silent
  BY <1>1 DEF Opens, Silent
<1>3. CASE ReturnType = "void"
  <2>1. fn' = CreateRet(fn, insert, <<>>) /\ visits' = Leave
    BY <1>3 DEF ReturnStmt
  <2>2. Extends(fn, fn', D)
    BY <1>1, <2>1, SitedFacts, KnownTuples, RetSolid
  <2> QED BY <1>1, <1>2, <2>1, <2>2, ReturnedHere
<1>4. CASE ReturnType # "void"
  <2>1. visits' = Call(frame, child) /\ UNCHANGED <<fn, insert, inner>>
    BY <1>1, <1>4 DEF ReturnStmt
  <2>2. Plain(frame) /\ frame.visit = "return" /\ Opens(frame) = 0
    BY PlainFacts
  <2>3. Plain(child) /\ child.visit = "expression" /\ Opens(child) = 0
    BY PlainFacts
  <2> HIDE DEF frame, child
  <2>4. ~Unopened(frame)
    BY <2>2 DEF Unopened
  <2> QED BY <1>1, <1>2, <2>1, <2>2, <2>3, <2>4, PlainHolds, CalledHere
<1> QED BY <1>3, <1>4

LEMMA NumSited ==
  ASSUME Inv, Inv', NEW D, Sited(D), Num PROVE Sited(D)'
<1>1. /\ WantsNumber /\ visits' = Leave /\ tmp_val' \in Literals
      /\ fn' = fn /\ insert' = insert /\ inner' = inner
  BY DEF Num
<1>2. visits # <<>> /\ Opens(Top) = 0
  BY <1>1, NumberFacts
<1>3. Known(fn', D[insert], tmp_val')
  BY <1>1, ExpressionsAssumption DEF Known
<1> QED BY <1>1, <1>2, <1>3, StaysMoves, ReturnedHere

LEMMA VarSited ==
  ASSUME Inv, Inv', NEW D, Sited(D), Var PROVE Sited(D)'
<1>1. PICK n \in UserNames :
        IsVariable(n) /\ Wanted(Pointee(Find(n).type)) /\ (Address(n) \/ ValueOf(n))
  BY DEF Var
<1>2. visits' = Leave /\ insert' = insert /\ inner' = inner
  BY DEF Var
<1> DEFINE var == Find(n)
           t == Pointee(var.type)
<1>3. Known(fn, D[insert], var) /\ t \in Pointees
  BY <1>1, FindKnown, VariableFacts DEF IsVariable
<1>4. Wanted(t)
  BY <1>1
<1>5. CASE Address(n)
  <2>1. InVisit("target") /\ tmp_val' = var /\ fn' = fn
    BY <1>5 DEF Address, Inv
  <2>2. visits # <<>> /\ Opens(Top) = 0
    BY <2>1, TargetFacts
  <2> HIDE DEF var
  <2> QED BY <1>2, <1>3, <2>1, <2>2, StaysMoves, ReturnedHere
<1>6. CASE ValueOf(n)
  <2> DEFINE zero == Constant("i32", 0)
             g == Create(fn, insert, "gep", <<var, zero, zero>>)
             l == Create(fn, insert, "load", <<var>>)
             c == IF t \in Arrays THEN g ELSE l
  <2>1. ~require_lvalue /\ fn' = c.fn /\ tmp_val' = c.val
    BY <1>6 DEF ValueOf
  <2>2. ~InVisit("target")
    BY <2>1 DEF Inv
  <2> HIDE DEF var, t
  <2>3. visits # <<>> /\ Opens(Top) = 0
    BY <1>3, <1>4, <2>2, WantedFacts
  <2>4. Solid(fn, D) /\ insert \in DOMAIN fn.code
    BY <2>3, SitedFacts
  <2>5. Known(fn, D[insert], zero)
    BY KnownTuples
  <2> HIDE DEF zero
  <2>6. KnownAll(fn, D[insert], <<var, zero, zero>>) /\ KnownAll(fn, D[insert], <<var>>)
    BY <1>3, <2>5, KnownTuples
  <2>7. /\ Extends(fn, g.fn, D) /\ Known(g.fn, D[insert], g.val)
        /\ Extends(fn, l.fn, D) /\ Known(l.fn, D[insert], l.val)
    BY <2>4, <2>6, CreateSolid
  <2> HIDE DEF g, l
  <2>8. Extends(fn, fn', D) /\ Known(fn', D[insert], tmp_val')
    BY <2>1, <2>7
  <2> QED BY <1>2, <2>3, <2>8, ReturnedHere
<1> QED BY <1>1, <1>5, <1>6

LEMMA EndAssignSited ==
  ASSUME Inv, Inv', NEW D, Sited(D), EndAssign PROVE Sited(D)'
<1> DEFINE c == Converted(fn, insert, Top.val, Pointee(tmp_val.type))
           z == Create(c.fn, insert, "store", <<c.val, tmp_val>>)
<1>1. /\ visits # <<>> /\ Top.visit = "store"
      /\ fn' = z.fn /\ tmp_val' = c.val /\ visits' = Leave
      /\ insert' = insert /\ inner' = inner
  BY DEF EndAssign, InVisit
<1>2. /\ Solid(fn, D) /\ insert \in DOMAIN fn.code /\ Known(fn, D[insert], tmp_val)
      /\ Known(fn, D[insert], Top.val)
  BY <1>1, SitedFacts, TopSites DEF Taking, Knows
<1>3. Extends(fn, c.fn, D) /\ Known(c.fn, D[insert], c.val)
  BY <1>2, ConvertedSolid
<1> HIDE DEF c
<1>4. Extends(c.fn, z.fn, D)
  BY <1>2, <1>3, ExtendsKnown, KnownTuples, CreateSolid
<1> HIDE DEF z
<1>5. Extends(fn, fn', D) /\ Known(fn', D[insert], tmp_val')
  BY <1>1, <1>3, <1>4, ExtendsOn, ExtendsKnown
<1>6. Opens(Top) = 0
  BY <1>1 DEF Opens
<1> QED BY <1>1, <1>5, <1>6, ReturnedHere

LEMMA EndBinarySited ==
  ASSUME Inv, Inv', NEW D, Sited(D), EndBinary PROVE Sited(D)'
<1> DEFINE p == Promote(fn, insert, Top.val, tmp_val)
           op == IF p.is_int THEN Top.op ELSE FloatOp[Top.op]
           c == Create(p.fn, insert, op, <<p.l, p.r>>)
           x == Create(c.fn, insert, "zext", <<c.val>>)
           z == IF Top.op \in Comparisons THEN x ELSE c
<1>1. /\ visits # <<>> /\ Top.visit = "right"
      /\ fn' = z.fn /\ tmp_val' = z.val /\ visits' = Leave
      /\ insert' = insert /\ inner' = inner
  BY DEF EndBinary, InVisit
<1>2. /\ Solid(fn, D) /\ insert \in DOMAIN fn.code /\ Known(fn, D[insert], tmp_val)
      /\ Known(fn, D[insert], Top.val)
  BY <1>1, SitedFacts, TopSites DEF Taking, Knows
<1>3. Extends(fn, p.fn, D) /\ Known(p.fn, D[insert], p.l) /\ Known(p.fn, D[insert], p.r)
  BY <1>2, PromoteSolid
<1> HIDE DEF p, op
<1>4. Extends(p.fn, c.fn, D) /\ Known(c.fn, D[insert], c.val)
  BY <1>2, <1>3, ExtendsKnown, KnownTuples, CreateSolid
<1> HIDE DEF c
<1>5. Extends(c.fn, x.fn, D) /\ Known(x.fn, D[insert], x.val)
  <2>1. Solid(c.fn, D) /\ insert \in DOMAIN c.fn.code
    BY <1>2, <1>3, <1>4, ExtendsKnown
  <2> QED BY <1>4, <2>1, KnownTuples, CreateSolid
<1> HIDE DEF x
<1>6. Extends(p.fn, z.fn, D) /\ Known(z.fn, D[insert], z.val)
  BY <1>4, <1>5, ExtendsOn
<1> HIDE DEF z
<1>7. Extends(fn, fn', D) /\ Known(fn', D[insert], tmp_val')
  BY <1>1, <1>3, <1>6, ExtendsOn
<1>8. Opens(Top) = 0
  BY <1>1 DEF Opens
<1> QED BY <1>1, <1>7, <1>8, ReturnedHere

LEMMA EndCallSited ==
  ASSUME Inv, Inv', NEW D, Sited(D), EndCall PROVE Sited(D)'
<1> DEFINE g == Top.fun
           args == Top.args
<1>1. /\ visits # <<>> /\ Top.visit = "call" /\ fn' = CreateCall(fn, insert, g, args)
      /\ tmp_val' = Result(Signatures[g].ret, fn.made + 1) /\ visits' = Leave
      /\ insert' = insert /\ inner' = inner
  BY DEF EndCall, InVisit
<1>2. /\ Solid(fn, D) /\ insert \in DOMAIN fn.code /\ KnownAll(fn, D[insert], args)
      /\ args \in Seq(Value)
  BY <1>1, SitedFacts, TopSites, TopFacts DEF Knows, Shape
<1> HIDE DEF g, args
<1>3. Extends(fn, fn', D) /\ Known(fn', D[insert], tmp_val')
  BY <1>1, <1>2, CallSolid
<1>4. Opens(Top) = 0
  BY <1>1 DEF Opens
<1> QED BY <1>1, <1>3, <1>4, ReturnedHere

LEMMA CallFunctionSited ==
  ASSUME Inv, Inv', NEW D, Sited(D), CallFunction PROVE Sited(D)'
<1>1. /\ WantsNumber /\ UNCHANGED <<inner, fn, insert>>
  BY DEF CallFunction
<1>2. PICK n \in Names : visits' = Become([Visit("call") EXCEPT !.fun = Find(n).id])
  BY DEF CallFunction
<1> DEFINE frame == [Visit("call") EXCEPT !.fun = Find(n).id]
<1>3. visits # <<>> /\ Opens(Top) = 0 /\ visits' = Become(frame)
  BY <1>1, <1>2, NumberFacts
<1>4. frame.visit = "call" /\ frame.val = NoValue /\ frame.args = <<>>
  BY DEF Visit
<1> HIDE DEF frame
<1>5. Plain(frame) /\ Opens(frame) = 0 /\ frame.visit \notin Silent \cup Taking
  BY <1>4 DEF Plain, NoValue, Opens, Silent, Taking
<1> QED BY <1>1, <1>3, <1>5, PlainHolds, StaysMoves, BecameHere

LEMMA EndArgumentSited ==
  ASSUME Inv, Inv', NEW D, Sited(D), EndArgument PROVE Sited(D)'
<1> DEFINE c == Converted(fn, insert, tmp_val, ParamType)
           frame == [Top EXCEPT !.visit = "call", !.args = Append(@, c.val)]
<1>1. /\ visits # <<>> /\ Top.visit = "argument"
      /\ fn' = c.fn /\ visits' = Become(frame) /\ insert' = insert /\ inner' = inner
  BY DEF EndArgument, InVisit
<1>2. /\ Solid(fn, D) /\ insert \in DOMAIN fn.code /\ Known(fn, D[insert], tmp_val)
      /\ Knows(fn, D[insert], Top) /\ Top \in Shape
  BY <1>1, SitedFacts, TopSites, TopFacts DEF Taking
<1>3. Extends(fn, c.fn, D) /\ Known(c.fn, D[insert], c.val)
  BY <1>2, ConvertedSolid
<1> HIDE DEF c
<1>4. /\ frame.visit = "call" /\ frame.val = Top.val /\ frame.args = Append(Top.args, c.val)
  BY <1>2 DEF Shape
<1> HIDE DEF frame
<1>5. Known(c.fn, D[insert], Top.val) /\ KnownAll(c.fn, D[insert], Top.args)
  BY <1>2, <1>3, ExtendsKnown DEF Knows
<1>6. KnownAll(c.fn, D[insert], frame.args)
  <2> DEFINE s == Top.args
             v == c.val
  <2>1. Len(s) \in Nat /\ DOMAIN s = 1 .. Len(s)
    BY <1>2 DEF Shape
  <2> HIDE DEF s, v
  <2>2. /\ DOMAIN Append(s, v) = 1 .. Len(s) + 1 /\ Append(s, v)[Len(s) + 1] = v
        /\ \A k \in 1 .. Len(s) : Append(s, v)[k] = s[k]
    BY <2>1
  <2>3. \A k \in 1 .. Len(s) + 1 : k = Len(s) + 1 \/ k \in 1 .. Len(s)
    BY <2>1
  <2>4. KnownAll(c.fn, D[insert], s) /\ Known(c.fn, D[insert], v)
    BY <1>3, <1>5 DEF s, v
  <2>5. KnownAll(c.fn, D[insert], Append(s, v))
    BY <2>1, <2>2, <2>3, <2>4 DEF KnownAll
  <2> QED BY <1>4, <2>5 DEF s, v
<1>7. Knows(fn', D[insert], frame)
  BY <1>1, <1>4, <1>5, <1>6 DEF Knows
<1>8. Opens(Top) = 0 /\ Opens(frame) = 0 /\ frame.visit \notin Silent \cup Taking
  BY <1>1, <1>4 DEF Opens, Silent, Taking
<1> QED BY <1>1, <1>3, <1>7, <1>8, BecameHere

LEMMA ExpressionStmtSited ==
  ASSUME Inv, Inv', NEW D, Sited(D), ExpressionStmt PROVE Sited(D)'
<1> DEFINE frame == Expression("any")
<1>1. /\ visits # <<>> /\ Top.visit = "statement"
      /\ visits' = Become(frame) \/ visits' = Leave
      /\ fn' = fn /\ insert' = insert /\ inner' = inner
  BY DEF ExpressionStmt, InVisit
<1>2. Opens(Top) = 0 /\ Top.visit \in Silent /\ Extends(fn, fn', D)
  BY <1>1, StaysMoves DEF Opens, Silent
<1>3. /\ Plain(frame) /\ Opens(frame) = 0 /\ frame.visit \notin Silent \cup Taking
  BY PlainFacts DEF Silent, Taking
<1> HIDE DEF frame
<1>4. CASE visits' = Become(frame)
  BY <1>1, <1>2, <1>3, <1>4, PlainHolds, BecameHere
<1>5. CASE visits' = Leave
  BY <1>1, <1>2, <1>5, ReturnedHere
<1> QED BY <1>1, <1>4, <1>5

LEMMA ExitLeaves ==
  ASSUME Inv, Exit, Len(inner) >= 2
  PROVE  /\ Len(inner') \in Nat /\ Len(inner') = Len(inner) - 1
         /\ \A i \in 1 .. Len(inner') : inner'[i] = inner[i]
<1>1. inner \in Seq(Maps) /\ Len(inner) \in Nat
  BY InvFacts
<1>2. inner' = SubSeq(inner, 1, Len(inner) - 1)
  BY DEF Exit
<1> QED BY <1>1, <1>2, SubSeqProperties

LEMMA EndFunDeclarationSited ==
  ASSUME Inv, Inv', NEW D, Sited(D), EndFunDeclaration PROVE Sited(D)'
<1>1. /\ visits # <<>> /\ Top.visit = "function" /\ ~InGlobal /\ Exit /\ visits' = Leave
      /\ fn' = IF HasTerminator(fn, insert) THEN fn ELSE RetDefault(fn, insert)
      /\ insert' = insert
  BY DEF EndFunDeclaration, InVisit
<1>2. Solid(fn, D) /\ insert \in DOMAIN fn.code
  BY <1>1, SitedFacts
<1>3. Extends(fn, fn', D)
  BY <1>1, <1>2, ExtendsStays, RetSolid
<1>4. visits' = <<>> /\ Len(inner) >= 2
  <2>1. Leave = <<>> /\ Len(inner) - Opens(Top) \in Nat \ {0} /\ Len(inner) \in Nat
    BY <1>1, TopFacts
  <2>2. Opens(Top) = 0 /\ Len(inner) # 1
    BY <1>1 DEF InGlobal, Opens
  <2> QED BY <1>1, <2>1, <2>2
<1>5. /\ Len(inner') \in Nat /\ Len(inner') = Len(inner) - 1
      /\ \A i \in 1 .. Len(inner') : inner'[i] = inner[i]
  BY <1>1, <1>4, ExitLeaves
<1>6. Scoped(fn', D[insert], inner', Len(inner'))
  <2>1. Scoped(fn', D[insert], inner, Len(inner))
    BY <1>3, ScopedGrows DEF Sited, Extends
  <2>2. \A i \in 1 .. Len(inner') : i \in 1 .. Len(inner)
    BY <1>5, SitedFacts
  <2>3. Scoped(fn', D[insert], inner, Len(inner'))
    BY <2>1, <2>2 DEF Scoped
  <2> QED BY <1>5, <2>3, ScopedSame
<1> QED BY <1>1, <1>3, <1>4, <1>6, SitesEmpty DEF Sited, Extends

LEMMA LeaveCompoundStmtSited ==
  ASSUME Inv, Inv', NEW D, Sited(D), LeaveCompoundStmt PROVE Sited(D)'
<1>1. /\ visits # <<>> /\ Top.visit \in {"declarations", "statements"}
      /\ visits' = Leave /\ IF Top.flag THEN Exit ELSE UNCHANGED inner
      /\ fn' = fn /\ insert' = insert
  BY DEF LeaveCompoundStmt, InVisit
<1>2. /\ Len(inner') \in Nat /\ Len(inner') = Len(inner) - Opens(Top)
      /\ \A i \in 1 .. Len(inner') : inner'[i] = inner[i]
  <2>1. CASE Top.flag
    <3>1. Opens(Top) = 1
      BY <1>1, <2>1 DEF Opens
    <3>2. Len(inner) - Opens(Top) \in Nat \ {0} /\ Len(inner) \in Nat
      BY <1>1, TopFacts
    <3>3. Len(inner) - 1 \in Nat \ {0}
      BY <3>1, <3>2
    <3>4. Len(inner) >= 2
      <4>1. \A n \in Nat : n - 1 \in Nat \ {0} => n >= 2
        OBVIOUS
      <4> QED BY <3>2, <3>3, <4>1, Zenon
    <3> QED BY <1>1, <2>1, <3>1, <3>4, ExitLeaves
  <2>2. CASE ~Top.flag
    <3>1. Opens(Top) = 0
      BY <2>2 DEF Opens
    <3> QED BY <1>1, <2>2, <3>1, SitedFacts
  <2> QED BY <2>1, <2>2
<1>3. Moved(D, D) /\ Top.visit \in Silent
  BY <1>1, StaysMoves DEF Silent
<1> QED BY <1>1, <1>2, <1>3, ReturnedSited

LEMMA EmitsSited ==
  ASSUME Inv, Inv', NEW D, Sited(D), Emits PROVE Sited(D)'
  BY EndReturnStmtSited, ReturnStmtSited, NumSited, VarSited, EndAssignSited,
     EndBinarySited, EndCallSited, CallFunctionSited, EndArgumentSited,
     ExpressionStmtSited, EndFunDeclarationSited, LeaveCompoundStmtSited DEF Emits

-----------------------------------------------------------------------------
(* Declarations and scopes.                                                *)

Entering == pre_enter_scope => InVisit("body")
Early    == functions < CurrentFunction => fn.code = <<>>

LEMMA PushScoped ==
  ASSUME Inv, NEW n, NEW v, Push(n, v), NEW f, NEW X, Known(f, X, v),
         Scoped(f, X, inner, Len(inner))
  PROVE  /\ Len(inner') = Len(inner) /\ Len(inner) \in Nat
         /\ \A i \in 1 .. Len(inner) - 1 : inner'[i] = inner[i]
         /\ Scoped(f, X, inner', Len(inner'))
<1> DEFINE l == Len(inner)
           map == Inserted(inner[l], n, v)
<1>1. inner \in Seq(Maps) /\ l \in Nat /\ l # 0 /\ DOMAIN inner = 1 .. l
  BY InvFacts DEF Push
<1>2. inner' = [inner EXCEPT ![l] = map]
  BY DEF Push
<1>3. \A m \in DOMAIN map : Known(f, X, map[m])
  <2>1. \A m \in DOMAIN inner[l] : Known(f, X, inner[l][m])
    BY <1>1 DEF Scoped
  <2> QED BY <2>1 DEF Inserted
<1> HIDE DEF map, l
<1>4. /\ DOMAIN inner' = 1 .. l /\ inner'[l] = map
      /\ \A i \in 1 .. l - 1 : inner'[i] = inner[i]
  BY <1>1, <1>2
<1>5. Len(inner') = l
  BY <1>1, <1>4
<1>6. Scoped(f, X, inner', l)
  <2>1. \A i \in 1 .. l : i = l \/ i \in 1 .. l - 1
    BY <1>1
  <2> QED BY <1>3, <1>4, <2>1 DEF Scoped, l
<1> QED BY <1>1, <1>4, <1>5, <1>6 DEF l

LEMMA EnterScoped ==
  ASSUME Inv, Enter, NEW f, NEW X, Scoped(f, X, inner, Len(inner))
  PROVE  /\ Len(inner) \in Nat /\ Len(inner') \in Nat /\ Len(inner') = Len(inner) + 1
         /\ \A i \in 1 .. Len(inner) : inner'[i] = inner[i]
         /\ Scoped(f, X, inner', Len(inner'))
<1> DEFINE l == Len(inner)
           none == [n \in {} |-> Unbound]
<1>1. l \in Nat /\ DOMAIN none = {}
  BY InvFacts
<1>2. inner' = Append(inner, none)
  BY DEF Enter
<1> HIDE DEF none, l
<1>3. /\ Len(inner') = l + 1 /\ inner'[l + 1] = none
      /\ \A i \in 1 .. l : inner'[i] = inner[i]
  BY <1>1, <1>2 DEF l
<1>4. Scoped(f, X, inner', l + 1)
  <2>1. \A i \in 1 .. l + 1 : i = l + 1 \/ i \in 1 .. l
    BY <1>1
  <2> QED BY <1>1, <1>3, <2>1 DEF Scoped, l
<1> QED BY <1>1, <1>3, <1>4 DEF l

\* A declaration in a block: the alloca, and its name in the block's scope.
LEMMA LocalSited ==
  ASSUME Inv, Inv', NEW D, Sited(D), VarDeclaration, ~InGlobal PROVE Sited(D)'
<1>1. PICK n \in UserNames, t \in DeclTypes :
        /\ fn' = CreateAlloca(fn, insert, t)
        /\ Push(n, Result(PointerTo(t), fn.made + 1))
  BY DEF VarDeclaration
<1>2. /\ visits # <<>> /\ Top.visit = "declarations" /\ visits' = visits /\ insert' = insert
  BY DEF VarDeclaration, InVisit
<1>3. Solid(fn, D) /\ insert \in DOMAIN fn.code /\ visits \in Seq(Frame)
      /\ Placed(visits, Len(fn.code)) /\ DOMAIN fn.code = 1 .. Len(fn.code)
  BY <1>2, SitedFacts
<1>4. /\ Extends(fn, fn', D)
      /\ Known(fn', D[insert], Result(PointerTo(t), fn.made + 1))
  BY <1>1, <1>3, AllocaSolid
<1>5. Scoped(fn', D[insert], inner, Len(inner))
  BY <1>4, ScopedGrows DEF Sited, Extends
<1>6. /\ Len(inner') = Len(inner) /\ Len(inner) \in Nat
      /\ \A i \in 1 .. Len(inner) - 1 : inner'[i] = inner[i]
      /\ Scoped(fn', D[insert], inner', Len(inner'))
  BY <1>1, <1>4, <1>5, PushScoped
<1>7. Sites(fn', D, D[insert], visits, inner)
  <2>1. Sites(fn, D, D[insert], visits, inner) /\ Grows(fn, fn')
    BY <1>4 DEF Sited, Extends
  <2> QED BY <1>3, <2>1, SitesGrow
<1>8. Sites(fn', D, D[insert], visits, inner')
  BY <1>2, <1>3, <1>6, <1>7, SitesDeclare DEF Top
<1> QED BY <1>2, <1>4, <1>6, <1>8 DEF Sited, Extends, Taking, Top

LEMMA SameCode ==
  ASSUME NEW f, NEW g, g.code = f.code
  PROVE  /\ Grows(f, g) /\ \A D : Solid(f, D) => Solid(g, D)
         /\ \A X, v : Known(f, X, v) => Known(g, X, v)
<1>1. \A d, n : Has(f, d, n) <=> Has(g, d, n)
  BY DEF Has
<1>2. Grows(f, g)
  BY <1>1 DEF Grows
<1>3. ASSUME NEW D, Solid(f, D) PROVE Solid(g, D)
  <2>1. ASSUME NEW b \in DOMAIN f.code, NEW k \in DOMAIN f.code[b] PROVE Sits(g, D, b, k)
    <3>1. Sits(f, D, b, k)
      BY <1>3 DEF Solid
    <3> QED BY <1>1, <3>1 DEF Sits, Leads, Uses
  <2>2. Shaped(g)
    BY <1>3 DEF Solid, Shaped
  <2> QED BY <1>3, <2>1, <2>2 DEF Solid
<1>4. \A X, v : Known(f, X, v) => Known(g, X, v)
  BY <1>1 DEF Known
<1> QED BY <1>2, <1>3, <1>4

\* Among the globals no function is begun or none is left.
LEMMA GlobalSited ==
  ASSUME Inv, NEW D, Sited(D), visits = <<>>, visits' = <<>>, NEW n, NEW v, Push(n, v),
         v.kind # "instr", fn'.code = fn.code, insert' = insert
  PROVE  Sited(D)'
<1>1. /\ Grows(fn, fn') /\ Solid(fn', D)
  BY SameCode DEF Sited
<1>2. Known(fn', D[insert], v)
  BY DEF Known
<1>3. Scoped(fn', D[insert], inner, Len(inner))
  BY <1>1, ScopedGrows DEF Sited
<1>4. Scoped(fn', D[insert], inner', Len(inner'))
  BY <1>2, <1>3, PushScoped
<1> QED BY <1>1, <1>4, SitesEmpty DEF Sited

LEMMA VarDeclarationSited ==
  ASSUME Inv, Inv', NEW D, Sited(D), VarDeclaration PROVE Sited(D)'
<1>1. CASE InGlobal
  <2>1. PICK n \in UserNames, t \in DeclTypes :
          /\ fn' = [fn EXCEPT !.made = @ + 1]
          /\ Push(n, GlobalOf(t, fn.made + 1))
    BY <1>1 DEF VarDeclaration
  <2>2. visits = <<>> /\ visits' = <<>> /\ insert' = insert
    BY <1>1 DEF VarDeclaration
  <2>3. fn'.code = fn.code
    BY <2>1, CodeForm DEF Inv
  <2>4. GlobalOf(t, fn.made + 1).kind # "instr"
    BY DEF GlobalOf
  <2> QED BY <2>1, <2>2, <2>3, <2>4, GlobalSited
<1> QED BY <1>1, LocalSited

LEMMA DeclareFunctionSited ==
  ASSUME Inv, NEW D, Sited(D), DeclareFunction PROVE Sited(D)'
<1>1. /\ visits = <<>> /\ visits' = <<>> /\ fn' = fn /\ insert' = insert
      /\ Push(FunctionNames[functions + 1], FunctionOf(functions + 1))
  BY DEF DeclareFunction
<1>2. FunctionOf(functions + 1).kind # "instr"
  BY DEF FunctionOf
<1> QED BY <1>1, <1>2, GlobalSited

LEMMA EnterGlobalSited ==
  ASSUME Inv, NEW D, Sited(D), EnterGlobal PROVE Sited(D)'
<1>1. /\ visits' = visits /\ fn' = fn /\ insert' = insert /\ Enter /\ functions = 0
  BY DEF EnterGlobal
<1>2. visits = <<>>
  BY <1>1, SignatureFacts DEF Inv
<1>3. Scoped(fn', D[insert], inner', Len(inner'))
  BY <1>1, EnterScoped DEF Sited
<1> QED BY <1>1, <1>2, <1>3, SitesEmpty DEF Sited

\* The function begins with an empty block, and only itself before it.
LEMMA FunDeclarationSited ==
  ASSUME Inv, Inv', Early, NEW D, Sited(D), FunDeclaration
  PROVE  \E E \in [Nat -> SUBSET Nat] : Sited(E)'
<1> DEFINE E == [n \in Nat |-> {n}]
           v == FunctionOf(CurrentFunction)
           frame == Visit("function")
<1>1. /\ Push(FunctionNames[CurrentFunction], v) /\ functions = CurrentFunction - 1
      /\ fn' = NewBlocks(fn, 1) /\ insert' = 1 /\ visits' = <<frame>> /\ Len(inner) = 1
  BY DEF FunDeclaration, InGlobal
<1>2. fn.code = <<>> /\ fn \in Code
  BY <1>1, SignatureFacts DEF Early, Inv
<1>3. /\ DOMAIN fn'.code = {1} /\ fn'.code[1] = <<>> /\ Shaped(fn')
  <2>1. /\ DOMAIN fn'.code = 1 .. Len(fn.code) + 1
        /\ \A d \in Len(fn.code) + 1 .. Len(fn.code) + 1 : fn'.code[d] = <<>>
        /\ Shaped(fn')
    BY <1>1, <1>2, NewBlocksCode
  <2>2. Len(fn.code) = 0
    BY <1>2
  <2> QED BY <2>1, <2>2
<1>4. Solid(fn', E)
  BY <1>3 DEF Solid
<1>5. \A X : Scoped(fn', E[insert'], inner, Len(inner))
  <2>1. \A d, n : ~Has(fn, d, n)
    BY <1>2 DEF Has
  <2> QED BY <2>1 DEF Sited, Scoped, Known
<1>6. Known(fn', E[insert'], v)
  BY DEF Known, FunctionOf
<1> HIDE DEF v
<1>7. Len(inner') = 1 /\ Scoped(fn', E[insert'], inner', Len(inner'))
  BY <1>1, <1>5, <1>6, PushScoped
<1>8. Plain(frame) /\ frame.visit = "function" /\ frame \in Frame
  BY PlainFacts, VisitFacts DEF Visits
<1> HIDE DEF frame
<1>9. Sites(fn', E, E[insert'], visits', inner')
  <2>1. Append(<<>>, frame) = <<frame>> /\ <<>> \in Seq(Frame) /\ Len(<<>>) = 0
    OBVIOUS
  <2>2. Sites(fn', E, E[insert'], <<>>, inner') /\ Knows(fn', E[insert'], frame)
    BY <1>8, SitesEmpty, PlainHolds
  <2>3. frame.visit # "then" /\ ~Unopened(frame)
    BY <1>8 DEF Unopened
  <2> HIDE DEF E
  <2>4. Len(inner') \in Nat
    BY <1>7
  <2>5. Sites(fn', E, E[insert'], Append(<<>>, frame), inner')
    BY <1>8, <2>1, <2>2, <2>3, <2>4, SitesPush
  <2> QED BY <1>1, <2>1, <2>5
<1>10. Top' = frame
  BY <1>1 DEF Top
<1>11. Sited(E)'
  BY <1>4, <1>7, <1>8, <1>9, <1>10 DEF Sited, Taking
<1>12. E \in [Nat -> SUBSET Nat]
  OBVIOUS
<1> HIDE DEF E
<1> QED BY <1>11, <1>12

LEMMA EnterFunctionSited ==
  ASSUME Inv, Inv', NEW D, Sited(D), EnterFunction PROVE Sited(D)'
<1> DEFINE child == Visit("body")
<1>1. /\ visits # <<>> /\ Top.visit = "function" /\ visits' = Append(visits, child)
      /\ Enter /\ fn' = fn /\ insert' = insert
  BY DEF EnterFunction, InVisit
<1>2. /\ Len(inner) \in Nat /\ Len(inner') \in Nat
      /\ Scoped(fn', D[insert'], inner', Len(inner'))
  BY <1>1, EnterScoped DEF Sited
<1>3. /\ Plain(child) /\ child.visit = "body" /\ Opens(child) = 0 /\ child \in Frame
  BY PlainFacts, VisitFacts DEF Visits
<1> HIDE DEF child
<1>4. Leave = <<>> /\ Top \in Frame /\ visits \in Seq(Frame) /\ Plain(Top)
  BY <1>1, TopFacts, TopSites, SitedFacts DEF Silent
<1>5. visits = Append(<<>>, Top)
  <2>1. [visits EXCEPT ![Len(visits)] = Top] = visits
    BY <1>1, <1>4 DEF Top
  <2> QED BY <1>1, <1>4, <2>1, BecomeIsPush DEF Leave
<1>6. Sites(fn, D, D[insert], visits, inner')
  <2>1. /\ Sites(fn, D, D[insert], <<>>, inner') /\ Knows(fn, D[insert], Top)
        /\ <<>> \in Seq(Frame) /\ Len(<<>>) = 0
    BY <1>4, SitesEmpty, PlainHolds
  <2>2. Top.visit # "then" /\ ~Unopened(Top)
    BY <1>1 DEF Unopened
  <2>3. Sites(fn, D, D[insert], Append(<<>>, Top), inner')
    BY <1>2, <1>4, <2>1, <2>2, SitesPush
  <2> QED BY <1>5, <2>3
<1>7. /\ \A j \in 1 .. Len(visits) : visits[j].visit # "then"
      /\ visits[Len(visits)].visit \in Bare
  <2>1. Len(visits) = 1 /\ visits[1] = Top
    BY <1>5
  <2> QED BY <1>1, <2>1 DEF Bare, Silent
<1>8. Sites(fn, D, D[insert], Append(visits, child), inner')
  <2>1. Knows(fn, D[insert], child) /\ child.visit # "then"
    BY <1>3, PlainHolds
  <2>2. Len(inner') = Len(inner') + Opens(child)
    BY <1>2, <1>3
  <2> QED BY <1>2, <1>3, <1>4, <1>6, <1>7, <2>1, <2>2, SitesPush
<1>9. Top' = child
  <2>1. Append(visits, child)[Len(Append(visits, child))] = child
    BY <1>3, <1>4
  <2> QED BY <1>1, <2>1 DEF Top
<1> QED BY <1>1, <1>2, <1>3, <1>8, <1>9 DEF Sited, Taking

LEMMA EnterCompoundStmtSited ==
  ASSUME Inv, Inv', Entering, NEW D, Sited(D), EnterCompoundStmt PROVE Sited(D)'
<1> DEFINE frame == [Visit("declarations") EXCEPT !.flag = ~pre_enter_scope]
<1>1. /\ visits # <<>> /\ Top.visit \in {"body", "statement"} /\ visits' = Become(frame)
      /\ IF pre_enter_scope THEN UNCHANGED inner ELSE Enter
      /\ fn' = fn /\ insert' = insert
  BY DEF EnterCompoundStmt, InVisit
<1>2. frame.visit = "declarations" /\ frame.val = NoValue /\ frame.args = <<>>
      /\ frame.flag = ~pre_enter_scope
  BY DEF Visit
<1> HIDE DEF frame
<1>3. /\ Plain(frame) /\ Opens(frame) = (IF pre_enter_scope THEN 0 ELSE 1)
      /\ Opens(Top) = 0
  <2>1. frame \in Shape
    BY <1>1, BecomeFrame DEF Frame
  <2> QED BY <1>1, <1>2, <2>1 DEF Plain, NoValue, Opens, Shape
<1>4. Unopened(frame) => Unopened(Top)
  BY <1>2 DEF Unopened, Entering, InVisit
<1>5. /\ Len(inner) \in Nat /\ Len(inner') \in Nat
      /\ Len(inner') = Len(inner) - Opens(Top) + Opens(frame)
      /\ \A i \in 1 .. Len(inner) - Opens(Top) : inner'[i] = inner[i]
      /\ Scoped(fn', D[insert'], inner', Len(inner'))
  <2>1. Len(inner) - Opens(Top) = Len(inner) /\ Len(inner) \in Nat
    BY <1>3, SitedFacts
  <2>2. CASE pre_enter_scope
    BY <1>1, <1>3, <2>1, <2>2 DEF Sited
  <2>3. CASE ~pre_enter_scope
    <3>1. /\ Len(inner') \in Nat /\ Len(inner') = Len(inner) + 1
          /\ \A i \in 1 .. Len(inner) : inner'[i] = inner[i]
          /\ Scoped(fn, D[insert], inner', Len(inner'))
      BY <1>1, <2>3, EnterScoped DEF Sited
    <3> QED BY <1>1, <1>3, <2>1, <2>3, <3>1
  <2> QED BY <2>2, <2>3
<1>6. frame \in Frame /\ Moved(D, D) /\ Knows(fn', D[insert], frame)
  BY <1>1, <1>3, BecomeFrame, StaysMoves, PlainHolds
<1>7. Top.visit \in Silent /\ frame.visit \notin Taking /\ frame.visit # "then"
  BY <1>1, <1>2 DEF Silent, Taking
<1> QED BY <1>1, <1>3, <1>4, <1>5, <1>6, <1>7, BecameSited

LEMMA ParameterSited ==
  ASSUME Inv, Inv', NEW D, Sited(D), Parameter PROVE Sited(D)'
<1> DEFINE i == Len(Top.args) + 1
           t == Signatures[CurrentFunction].params[i]
           f == CreateAlloca(fn, insert, t)
           address == Result(PointerTo(t), f.made)
           arg == Argument(t, i)
           c == Create(f, insert, "store", <<arg, address>>)
           frame == [Top EXCEPT !.args = Append(@, arg)]
<1>1. /\ visits # <<>> /\ Top.visit = "body"
      /\ fn' = c.fn /\ visits' = Become(frame) /\ insert' = insert
      /\ \E n \in UserNames : Push(n, address)
  BY DEF Parameter, InVisit
<1>2. /\ Solid(fn, D) /\ insert \in DOMAIN fn.code /\ Top \in Shape /\ Plain(Top)
      /\ Len(inner) \in Nat
  BY <1>1, SitedFacts, TopFacts, TopSites DEF Silent
<1> HIDE DEF t, i
<1>3. f.made = fn.made + 1 /\ arg.kind = "arg"
  BY DEF CreateAlloca, Emit, Argument
<1>4. Extends(fn, f, D) /\ Known(f, D[insert], address)
  BY <1>2, <1>3, AllocaSolid
<1>5. Known(f, D[insert], arg)
  BY <1>3 DEF Known
<1> HIDE DEF f, address, arg
<1>6. Extends(f, c.fn, D)
  BY <1>2, <1>4, <1>5, ExtendsKnown, KnownTuples, CreateSolid
<1> HIDE DEF c
<1>7. Extends(fn, fn', D) /\ Known(fn', D[insert], address)
  BY <1>1, <1>4, <1>6, ExtendsOn, ExtendsKnown
<1>8. frame.visit = "body" /\ frame.val = Top.val /\ frame.args = Append(Top.args, arg)
  BY <1>1, <1>2 DEF Shape
<1> HIDE DEF frame
<1>9. Plain(frame)
  <2> DEFINE s == Top.args
  <2>1. Len(s) \in Nat /\ DOMAIN s = 1 .. Len(s)
    BY <1>2 DEF Shape
  <2> HIDE DEF s
  <2>2. /\ DOMAIN Append(s, arg) = 1 .. Len(s) + 1 /\ Append(s, arg)[Len(s) + 1] = arg
        /\ \A k \in 1 .. Len(s) : Append(s, arg)[k] = s[k]
    BY <2>1
  <2>3. \A k \in 1 .. Len(s) + 1 : k = Len(s) + 1 \/ k \in 1 .. Len(s)
    BY <2>1
  <2>4. \A k \in DOMAIN s : s[k].kind # "instr"
    BY <1>2 DEF Plain, s
  <2>5. \A k \in DOMAIN frame.args : frame.args[k].kind # "instr"
    BY <1>3, <1>8, <2>1, <2>2, <2>3, <2>4 DEF s
  <2> QED BY <1>2, <1>8, <2>5 DEF Plain
<1>10. Opens(frame) = 0 /\ Opens(Top) = 0 /\ Unopened(Top) /\ frame.visit # "then"
       /\ Top.visit \in Silent
  BY <1>1, <1>8 DEF Opens, Unopened, Silent
<1>11. frame \in Frame
  BY <1>1, BecomeFrame
<1>12. /\ Become(frame) \in Seq(Frame) /\ Become(frame) # <<>>
       /\ Become(frame)[Len(Become(frame))] = frame
       /\ Sites(fn', D, D[insert], Become(frame), inner)
  <2>1. Len(inner) = Len(inner) - Opens(Top) + Opens(frame)
    BY <1>2, <1>10
  <2>2. Grows(fn, fn') /\ Knows(fn', D[insert], frame)
    BY <1>7, <1>9, PlainHolds DEF Extends
  <2> QED BY <1>1, <1>2, <1>9, <1>10, <1>11, <2>1, <2>2, BecomeSites
<1>13. Scoped(fn', D[insert], inner, Len(inner))
  BY <1>7, ScopedGrows DEF Sited, Extends
<1>14. /\ Len(inner') = Len(inner)
       /\ \A k \in 1 .. Len(inner) - 1 : inner'[k] = inner[k]
       /\ Scoped(fn', D[insert], inner', Len(inner'))
  BY <1>1, <1>7, <1>13, PushScoped
<1>15. Sites(fn', D, D[insert], Become(frame), inner')
  BY <1>2, <1>8, <1>12, <1>14, SitesDeclare
<1>16. Top' = frame
  BY <1>1, <1>12 DEF Top
<1> QED BY <1>1, <1>7, <1>8, <1>14, <1>15, <1>16 DEF Sited, Extends, Taking

-----------------------------------------------------------------------------
(* Branches.                                                               *)

LEMMA BranchSelectionSited ==
  ASSUME Inv, Inv', NEW D \in [Nat -> SUBSET Nat], Sited(D), BranchSelection
  PROVE  \E E \in [Nat -> SUBSET Nat] : Sited(E)'
<1> DEFINE trueBB == Len(fn.code) + 1
           contBB == Len(fn.code) + 2
           f == NewBlocks(fn, 2)
           op == IF tmp_val.type = "i32" THEN "ne" ELSE "fne"
           zero == Constant(tmp_val.type, 0)
           c == Create(f, insert, op, <<tmp_val, zero>>)
           frame == [Visit("then") EXCEPT !.block = contBB]
           child == Visit("statement")
<1>1. /\ visits # <<>> /\ Top.visit = "condition"
      /\ fn' = CreateCondBr(c.fn, insert, c.val, trueBB, contBB)
      /\ insert' = trueBB /\ visits' = Call(frame, child) /\ inner' = inner
  BY DEF BranchSelection, InVisit
<1>2. /\ Solid(fn, D) /\ insert \in DOMAIN fn.code /\ fn \in Code /\ Len(fn.code) \in Nat
      /\ Known(fn, D[insert], tmp_val)
  BY <1>1, SitedFacts, TopSites DEF Taking
<1>3. PICK E \in [Nat -> SUBSET Nat] :
        /\ Solid(f, E) /\ Grows(fn, f) /\ \A d \in DOMAIN fn.code : E[d] = D[d]
        /\ \A d \in Len(fn.code) + 1 .. Len(fn.code) + 2 :
             d \in DOMAIN f.code /\ E[d] = D[insert] \cup {d} /\ Behind(E, d) = D[insert]
        /\ DOMAIN fn.code \subseteq DOMAIN f.code
  <2>1. \E E \in [Nat -> SUBSET Nat] : Forked(fn, D, insert, 2, f, E)
    BY <1>2, NewBlocksSolid, 2 \in Nat
  <2> HIDE DEF f
  <2> QED BY <2>1 DEF Forked
<1>4. /\ {trueBB, contBB} \subseteq DOMAIN f.code /\ E[trueBB] = D[insert] \cup {trueBB}
      /\ Behind(E, trueBB) = D[insert] /\ Behind(E, contBB) = D[insert]
      /\ E[insert] = D[insert] /\ insert \in DOMAIN f.code
  BY <1>2, <1>3
<1> HIDE DEF trueBB, contBB, f, op
<1>5. KnownAll(f, E[insert], <<tmp_val, zero>>)
  BY <1>2, <1>3, <1>4, GrowsKnown, KnownTuples
<1> HIDE DEF zero
<1>6. Extends(f, c.fn, E) /\ Known(c.fn, E[insert], c.val)
  BY <1>3, <1>4, <1>5, CreateSolid
<1> HIDE DEF c
<1>7. Extends(c.fn, fn', E)
  <2>1. Solid(c.fn, E) /\ DOMAIN c.fn.code = DOMAIN f.code
    BY <1>6, ExtendsKnown
  <2> QED BY <1>1, <1>4, <1>6, <2>1, JumpSolid
<1>8. Extends(f, fn', E)
  BY <1>6, <1>7, ExtendsOn
<1>9. Moved(D, E)
  BY <1>1, <1>3, <1>4, <1>8, GrowsOn DEF Moved, Extends
<1>10. /\ frame.visit = "then" /\ frame.block = contBB /\ Plain(frame) /\ Opens(frame) = 0
       /\ ~Unopened(frame)
  <2>1. /\ frame.visit = "then" /\ frame.val = NoValue /\ frame.args = <<>>
        /\ frame.block = contBB
    BY DEF Visit
  <2> HIDE DEF frame
  <2> QED BY <2>1 DEF Plain, NoValue, Opens, Unopened
<1>11. Plain(child) /\ child.visit = "statement" /\ Opens(child) = 0
  BY PlainFacts
<1>12. frame \in Frame /\ child \in Frame
  BY <1>1, CallFrames
<1> HIDE DEF frame, child
<1>13. Opens(Top) = 0 /\ Top.visit \in Silent /\ Knows(fn', D[insert], frame)
       /\ frame.visit \in Bare
  BY <1>1, <1>10, PlainHolds DEF Opens, Silent, Bare
<1>14. Sited(E)'
  BY <1>1, <1>4, <1>9, <1>10, <1>11, <1>12, <1>13, CalledSited
<1> QED BY <1>14

LEMMA EndThenSited ==
  ASSUME Inv, Inv', NEW D, Sited(D), EndThen PROVE Sited(D)'
<1> DEFINE c == Top.block
<1>1. /\ visits # <<>> /\ Top.visit = "then"
      /\ fn' = IF HasTerminator(fn, insert) THEN fn ELSE CreateBr(fn, insert, c)
      /\ insert' = c /\ visits' = Leave /\ inner' = inner
  BY DEF EndThen, InVisit
<1>2. /\ Solid(fn, D) /\ insert \in DOMAIN fn.code /\ visits \in Seq(Frame)
      /\ Len(inner) \in Nat /\ Placed(visits, Len(fn.code))
      /\ DOMAIN fn.code = 1 .. Len(fn.code)
  BY <1>1, SitedFacts
<1>3. c \in DOMAIN fn.code
  <2>1. Len(visits) \in 1 .. Len(visits)
    BY <1>1, <1>2
  <2> QED BY <1>1, <1>2, <2>1 DEF Placed, Top
<1>4. /\ Behind(D, c) \subseteq D[insert]
      /\ Sites(fn, D, D[c], Leave, inner) /\ Scoped(fn, D[c], inner, Len(inner))
  BY <1>1, <1>2, SitesThen DEF Sited, Top, Leave
<1> HIDE DEF c
<1>5. Extends(fn, fn', D)
  BY <1>1, <1>2, <1>3, <1>4, JumpSolid, ExtendsStays
<1>6. Placed(visits', Len(fn.code))
  <2>1. Placed(visits', Len(fn'.code)) /\ DOMAIN fn'.code = 1 .. Len(fn'.code)
        /\ DOMAIN fn'.code = DOMAIN fn.code
    BY <1>5 DEF Inv, Stack, Extends, Solid, Shaped
  <2> QED BY <1>2, <2>1 DEF Placed
<1>7. Sites(fn', D, D[c], visits', inner)
  BY <1>1, <1>2, <1>4, <1>5, <1>6, SitesGrow DEF Extends
<1>8. Scoped(fn', D[c], inner, Len(inner))
  BY <1>4, <1>5, ScopedGrows DEF Extends
<1>9. visits' # <<>> => Top'.visit \notin Taking
  <2>1. Leave # <<>> => Leave[Len(Leave)].visit \in Bare
    BY <1>1, TopSites DEF Silent
  <2> QED BY <1>1, <2>1 DEF Top, Bare, Silent, Taking
<1> QED BY <1>1, <1>5, <1>7, <1>8, <1>9 DEF Sited, Extends

LEMMA EndIndexSited ==
  ASSUME Inv, Inv', NEW D \in [Nat -> SUBSET Nat], Sited(D), EndIndex
  PROVE  \E E \in [Nat -> SUBSET Nat] : Sited(E)'
<1> DEFINE exceptBB == Len(fn.code) + 1
           contBB == Len(fn.code) + 2
           f0 == NewBlocks(fn, 2)
           i == AsIndex(f0, insert, tmp_val)
           zero == Constant("i32", 0)
           is_neg == Create(i.fn, insert, "lt", <<i.val, zero>>)
           f1 == CreateCondBr(is_neg.fn, insert, is_neg.val, exceptBB, contBB)
           f2 == CreateCall(f1, exceptBB, Find(NegName).id, <<>>)
           f3 == RetDefault(f2, exceptBB)
           address == ElementAddress(f3, contBB, Top.val, i.val)
           element == Create(address.fn, contBB, "load", <<address.val>>)
<1>1. /\ visits # <<>> /\ Top.visit = "index"
      /\ fn' = IF Top.flag THEN address.fn ELSE element.fn
      /\ tmp_val' = IF Top.flag THEN address.val ELSE element.val
      /\ insert' = contBB /\ visits' = Leave /\ inner' = inner
  BY DEF EndIndex, InVisit, NegName
<1>2. /\ Solid(fn, D) /\ insert \in DOMAIN fn.code /\ fn \in Code /\ Len(fn.code) \in Nat
      /\ Known(fn, D[insert], tmp_val) /\ Known(fn, D[insert], Top.val)
      /\ Len(inner) \in Nat
  BY <1>1, SitedFacts, TopSites DEF Taking, Knows
<1>3. PICK E \in [Nat -> SUBSET Nat] :
        /\ Solid(f0, E) /\ Grows(fn, f0) /\ \A d \in DOMAIN fn.code : E[d] = D[d]
        /\ \A d \in Len(fn.code) + 1 .. Len(fn.code) + 2 :
             d \in DOMAIN f0.code /\ E[d] = D[insert] \cup {d} /\ Behind(E, d) = D[insert]
        /\ DOMAIN fn.code \subseteq DOMAIN f0.code
  <2>1. \E E \in [Nat -> SUBSET Nat] : Forked(fn, D, insert, 2, f0, E)
    BY <1>2, NewBlocksSolid, 2 \in Nat
  <2> HIDE DEF f0
  <2> QED BY <2>1 DEF Forked
<1>4. /\ {exceptBB, contBB, insert} \subseteq DOMAIN f0.code
      /\ D[insert] \subseteq E[contBB]
      /\ Behind(E, exceptBB) = D[insert] /\ Behind(E, contBB) = D[insert]
      /\ E[insert] = D[insert]
  <2> HIDE DEF f0
  <2>1. /\ exceptBB \in Len(fn.code) + 1 .. Len(fn.code) + 2
        /\ contBB \in Len(fn.code) + 1 .. Len(fn.code) + 2
    BY <1>2
  <2> HIDE DEF exceptBB, contBB
  <2>2. /\ exceptBB \in DOMAIN f0.code /\ contBB \in DOMAIN f0.code
        /\ E[contBB] = D[insert] \cup {contBB}
        /\ Behind(E, exceptBB) = D[insert] /\ Behind(E, contBB) = D[insert]
    BY <1>3, <2>1
  <2>3. insert \in DOMAIN f0.code /\ E[insert] = D[insert]
    BY <1>2, <1>3
  <2> QED BY <2>2, <2>3
<1>5. /\ Known(f0, E[insert], tmp_val) /\ Known(f0, E[contBB], Top.val)
      /\ E[insert] \subseteq E[contBB]
  <2> HIDE DEF f0, contBB
  <2>1. Grows(fn, f0) /\ E[insert] = D[insert] /\ D[insert] \subseteq E[contBB]
        /\ D[insert] \subseteq D[insert]
    BY <1>3, <1>4
  <2>2. Known(f0, D[insert], tmp_val)
    BY <1>2, <2>1, GrowsKnown
  <2>3. Known(f0, E[contBB], Top.val)
    BY <1>2, <2>1, GrowsKnown
  <2> QED BY <2>1, <2>2, <2>3
<1> HIDE DEF exceptBB, contBB, f0
<1>6. Extends(f0, i.fn, E) /\ Known(i.fn, E[insert], i.val)
  BY <1>3, <1>4, <1>5, ConvertedSolid DEF AsIndex
<1> HIDE DEF i
<1>7. Extends(i.fn, is_neg.fn, E) /\ Known(is_neg.fn, E[insert], is_neg.val)
  <2>1. KnownAll(i.fn, E[insert], <<i.val, zero>>)
    BY <1>6, KnownTuples
  <2>2. Solid(i.fn, E) /\ insert \in DOMAIN i.fn.code
    BY <1>4, <1>6, ExtendsKnown
  <2> HIDE DEF zero
  <2> QED BY <2>1, <2>2, CreateSolid
<1> HIDE DEF zero, is_neg
<1>8. Extends(is_neg.fn, f1, E)
  <2>1. Solid(is_neg.fn, E) /\ DOMAIN is_neg.fn.code = DOMAIN f0.code
    BY <1>6, <1>7, ExtendsKnown
  <2> QED BY <1>4, <1>7, <2>1, JumpSolid
<1> HIDE DEF f1
<1>9. Extends(f1, f2, E)
  <2>1. Solid(f1, E) /\ exceptBB \in DOMAIN f1.code
    BY <1>4, <1>6, <1>7, <1>8, ExtendsKnown
  <2>2. <<>> \in Seq(Value) /\ KnownAll(f1, E[exceptBB], <<>>)
    BY KnownTuples
  <2> QED BY <2>1, <2>2, CallSolid
<1> HIDE DEF f2
<1>10. Extends(f2, f3, E)
  <2>1. Solid(f2, E)
    BY <1>9 DEF Extends
  <2>2. exceptBB \in DOMAIN f2.code
    BY <1>4, <1>6, <1>7, <1>8, <1>9 DEF Extends
  <2> QED BY <2>1, <2>2, RetSolid
<1> HIDE DEF f3
<1>11. Extends(i.fn, f3, E) /\ Extends(f0, f3, E)
  BY <1>6, <1>7, <1>8, <1>9, <1>10, ExtendsOn
<1>12. /\ Solid(f3, E) /\ contBB \in DOMAIN f3.code
       /\ Known(f3, E[contBB], Top.val) /\ Known(f3, E[contBB], i.val)
  <2>1. Grows(i.fn, f3) /\ Solid(f3, E) /\ DOMAIN f3.code = DOMAIN f0.code
    BY <1>11 DEF Extends
  <2>2. Known(f3, E[contBB], i.val)
    BY <1>5, <1>6, <2>1, GrowsKnown
  <2> QED BY <1>4, <1>5, <1>11, <2>1, <2>2, ExtendsKnown
<1>13. Extends(f3, address.fn, E) /\ Known(address.fn, E[contBB], address.val)
  BY <1>12, ElementSolid
<1> HIDE DEF address
<1>14. Extends(address.fn, element.fn, E) /\ Known(element.fn, E[contBB], element.val)
  BY <1>12, <1>13, ExtendsKnown, KnownTuples, CreateSolid
<1> HIDE DEF element
<1>15. Extends(f0, fn', E) /\ Known(fn', E[insert'], tmp_val')
  <2>1. Extends(f0, address.fn, E)
    BY <1>11, <1>13, ExtendsOn
  <2>2. Extends(f0, element.fn, E)
    BY <1>14, <2>1, ExtendsOn
  <2> QED BY <1>1, <1>13, <1>14, <2>1, <2>2
<1>16. Moved(D, E)
  BY <1>1, <1>3, <1>4, <1>15, GrowsOn DEF Moved, Extends
<1>17. Len(inner') \in Nat /\ Len(inner') = Len(inner) - Opens(Top)
  BY <1>1, <1>2 DEF Opens
<1>18. Sited(E)'
  BY <1>1, <1>15, <1>16, <1>17, ReturnedSited
<1> QED BY <1>18

-----------------------------------------------------------------------------
(* The invariant holds throughout.                                         *)

Defined == (\E D \in [Nat -> SUBSET Nat] : Sited(D)) /\ Entering /\ Early

LEMMA InitiallyDefined == ExpressionsInit => Defined
<1> SUFFICES ASSUME ExpressionsInit PROVE Defined
  OBVIOUS
<1>1. /\ inner = <<>> /\ fn = [code |-> <<>>, made |-> 0] /\ visits = <<>>
      /\ pre_enter_scope = FALSE
  BY DEF ExpressionsInit, ScopeInit
<1> DEFINE D == [n \in Nat |-> {n}]
<1>2. fn.code = <<>> /\ Len(fn.code) = 0 /\ DOMAIN fn.code = {} /\ 1 .. 0 = {}
      /\ Len(inner) = 0
  BY <1>1
<1>3. D[1] = {1} /\ D \in [Nat -> SUBSET Nat]
  OBVIOUS
<1> HIDE DEF D
<1>4. Solid(fn, D)
  BY <1>2, <1>3 DEF Solid, Shaped
<1>5. Sited(D)
  BY <1>1, <1>2, <1>4, SitesEmpty DEF Sited, Scoped
<1> QED BY <1>1, <1>2, <1>3, <1>5 DEF Defined, Entering, Early

LEMMA EnteringStep ==
  ASSUME Inv, Entering, ExpressionsStep PROVE Entering'
<1>1. CASE EnterGlobal \/ DeclareFunction \/ VarDeclaration \/ FunDeclaration
  <2>1. /\ visits = <<>> \/ visits' = visits
        /\ pre_enter_scope' = pre_enter_scope
    BY <1>1 DEF EnterGlobal, DeclareFunction, VarDeclaration, FunDeclaration
  <2> QED BY <2>1 DEF Entering, InVisit, Top
<1>2. CASE EnterFunction
  <2>1. visits' = Append(visits, Visit("body")) /\ visits \in Seq(Frame)
    BY <1>2, InvFacts DEF EnterFunction
  <2> DEFINE frame == Visit("body")
  <2>2. frame.visit = "body" /\ frame \in Frame
    BY VisitFacts DEF Visits
  <2> HIDE DEF frame
  <2>3. /\ Append(visits, frame)[Len(Append(visits, frame))] = frame
        /\ Append(visits, frame) # <<>>
    BY <2>1, <2>2
  <2> QED BY <2>1, <2>2, <2>3 DEF Entering, InVisit, Top, frame
<1>3. CASE Parameter
  <2> DEFINE i == Len(Top.args) + 1
             arg == Argument(Signatures[CurrentFunction].params[i], i)
             frame == [Top EXCEPT !.args = Append(@, arg)]
  <2>1. /\ visits' = Become(frame) /\ visits # <<>> /\ visits \in Seq(Frame)
        /\ Top.visit = "body" /\ Top \in Shape
    BY <1>3, InvFacts, TopFacts DEF Parameter, InVisit
  <2> HIDE DEF arg
  <2>2. frame.visit = "body"
    BY <2>1 DEF Shape
  <2> HIDE DEF frame
  <2>3. Len(visits) \in Nat /\ Len(visits) # 0 /\ DOMAIN visits = 1 .. Len(visits)
    BY <2>1
  <2>4. DOMAIN visits' = 1 .. Len(visits) /\ visits'[Len(visits)] = frame
    BY <2>1, <2>3 DEF Become
  <2>5. Len(visits') = Len(visits) /\ visits' # <<>>
    BY <2>3, <2>4
  <2> QED BY <2>2, <2>4, <2>5 DEF Entering, InVisit, Top
<1>4. CASE EnterCompoundStmt
  BY <1>4 DEF EnterCompoundStmt, Entering
<1>5. CASE \/ NextStatement \/ LeaveCompoundStmt \/ ExpressionStmt \/ SelectionStmt
           \/ BranchSelection \/ EndThen \/ ReturnStmt \/ EndReturnStmt \/ EndFunDeclaration
  <2>1. ~InVisit("body") /\ pre_enter_scope' = pre_enter_scope
    BY <1>5 DEF NextStatement, LeaveCompoundStmt, ExpressionStmt, SelectionStmt,
       BranchSelection, EndThen, ReturnStmt, EndReturnStmt, EndFunDeclaration, InVisit
  <2> QED BY <2>1 DEF Entering
<1>6. CASE \/ Num \/ Var \/ IndexedVar \/ EndIndex \/ AssignExpression \/ AssignTarget
           \/ EndAssign \/ BinaryExpression \/ RightOperand \/ EndBinary \/ CallFunction
           \/ NextArgument \/ EndArgument \/ EndCall
  <2>1. pre_enter_scope' = pre_enter_scope
    BY <1>6 DEF Num, Var, IndexedVar, EndIndex, AssignExpression, AssignTarget, EndAssign,
       BinaryExpression, RightOperand, EndBinary, CallFunction, NextArgument, EndArgument,
       EndCall
  <2>2. CASE Var
    <3>1. PICK n \in UserNames : Wanted(Pointee(Find(n).type)) /\ IsVariable(n)
      BY <2>2 DEF Var
    <3>2. ~InVisit("body")
      BY <3>1 DEF Wanted, WantsNumber, InVisit
    <3> QED BY <2>1, <3>2 DEF Entering
  <2>3. CASE ~Var
    <3>1. ~InVisit("body")
      BY <1>6, <2>3 DEF Num, IndexedVar, EndIndex, AssignExpression, AssignTarget, EndAssign,
         BinaryExpression, RightOperand, EndBinary, CallFunction, NextArgument, EndArgument,
         EndCall, WantsNumber, InVisit
    <3> QED BY <2>1, <3>1 DEF Entering
  <2> QED BY <2>2, <2>3
<1> QED BY <1>1, <1>2, <1>3, <1>4, <1>5, <1>6 DEF ExpressionsStep

LEMMA EarlyStep ==
  ASSUME Inv, Early, ExpressionsStep PROVE Early'
<1>1. CASE EnterGlobal \/ DeclareFunction \/ FunDeclaration
  <2>1. CASE FunDeclaration
    BY <2>1, SignatureFacts DEF FunDeclaration, Early
  <2>2. CASE EnterGlobal
    BY <2>2 DEF EnterGlobal, Early
  <2>3. CASE DeclareFunction
    BY <2>3, SignatureFacts DEF DeclareFunction, Early, Inv, Tables
  <2> QED BY <1>1, <2>1, <2>2, <2>3
<1>2. CASE VarDeclaration /\ InGlobal
  <2>1. fn'.code = fn.code /\ functions' = functions
    BY <1>2, CodeForm DEF VarDeclaration, Inv
  <2> QED BY <2>1 DEF Early
<1>3. CASE visits # <<>> /\ functions' = functions
  BY <1>3, SignatureFacts DEF Early, Inv
<1>4. CASE VarDeclaration /\ ~InGlobal
  BY <1>3, <1>4 DEF VarDeclaration, InVisit
<1>5. CASE \/ EnterFunction \/ Parameter \/ EndFunDeclaration \/ EnterCompoundStmt
           \/ NextStatement \/ LeaveCompoundStmt \/ ExpressionStmt \/ SelectionStmt
           \/ BranchSelection \/ EndThen \/ ReturnStmt \/ EndReturnStmt
  <2>1. visits # <<>> /\ functions' = functions
    BY <1>5 DEF EnterFunction, Parameter, EndFunDeclaration, EnterCompoundStmt,
       NextStatement, LeaveCompoundStmt, ExpressionStmt, SelectionStmt, BranchSelection,
       EndThen, ReturnStmt, EndReturnStmt, InVisit
  <2> QED BY <1>3, <2>1
<1>6. CASE \/ Num \/ Var \/ IndexedVar \/ EndIndex \/ AssignExpression \/ AssignTarget
           \/ EndAssign \/ BinaryExpression \/ RightOperand \/ EndBinary \/ CallFunction
           \/ NextArgument \/ EndArgument \/ EndCall
  <2>1. functions' = functions
    BY <1>6 DEF Num, Var, IndexedVar, EndIndex, AssignExpression, AssignTarget, EndAssign,
       BinaryExpression, RightOperand, EndBinary, CallFunction, NextArgument, EndArgument,
       EndCall
  <2>2. CASE Var
    <3>1. PICK n \in UserNames : Wanted(Pointee(Find(n).type)) /\ IsVariable(n)
      BY <2>2 DEF Var
    <3>2. visits # <<>>
      BY <3>1 DEF Wanted, WantsNumber, InVisit
    <3> QED BY <1>3, <2>1, <3>2
  <2>3. CASE ~Var
    <3>1. visits # <<>>
      BY <1>6, <2>3 DEF Num, IndexedVar, EndIndex, AssignExpression, AssignTarget, EndAssign,
         BinaryExpression, RightOperand, EndBinary, CallFunction, NextArgument, EndArgument,
         EndCall, WantsNumber, InVisit
    <3> QED BY <1>3, <2>1, <3>1
  <2> QED BY <2>2, <2>3
<1> QED BY <1>1, <1>2, <1>4, <1>5, <1>6 DEF ExpressionsStep

LEMMA DefinedStep ==
  Inv /\ Inv' /\ Defined /\ [ExpressionsStep]_expressionsVars => Defined'
<1> SUFFICES ASSUME Inv, Inv', Defined, [ExpressionsStep]_expressionsVars PROVE Defined'
  OBVIOUS
<1>1. CASE ExpressionsStep
  <2>1. PICK D \in [Nat -> SUBSET Nat] : Sited(D)
    BY DEF Defined
  <2>2. Entering' /\ Early' /\ Entering /\ Early
    BY <1>1, EnteringStep, EarlyStep DEF Defined
  <2>3. \E E \in [Nat -> SUBSET Nat] : Sited(E)'
    <3>1. CASE EnterGlobal \/ DeclareFunction \/ VarDeclaration \/ FunDeclaration
      BY <2>1, <2>2, <3>1, EnterGlobalSited, DeclareFunctionSited, VarDeclarationSited,
         FunDeclarationSited
    <3>2. CASE EnterFunction \/ Parameter \/ EnterCompoundStmt
      BY <2>1, <2>2, <3>2, EnterFunctionSited, ParameterSited, EnterCompoundStmtSited
    <3>3. CASE Calls \/ Emits
      BY <2>1, <3>3, CallsSited, EmitsSited
    <3>4. CASE BranchSelection \/ EndThen \/ EndIndex
      BY <2>1, <3>4, BranchSelectionSited, EndThenSited, EndIndexSited
    <3> QED BY <1>1, <3>1, <3>2, <3>3, <3>4 DEF ExpressionsStep, Calls, Emits
  <2> QED BY <2>2, <2>3 DEF Defined
<1>2. CASE UNCHANGED expressionsVars
  <2>1. UNCHANGED <<inner, fn, insert, visits, tmp_val, pre_enter_scope, functions>>
    BY <1>2 DEF expressionsVars
  <2>2. \A D : Sited(D) => Sited(D)'
    BY <2>1 DEF Sited, Top
  <2> QED BY <2>1, <2>2 DEF Defined, Entering, Early, InVisit, Top
<1> QED BY <1>1, <1>2

LEMMA SameReached ==
  /\ \A S : IsFiniteSet(S) <=> G!IsFiniteSet(S)
  /\ \A next, start : ReachedFrom(next, start) = G!ReachedFrom(next, start)
<1>1. \A S : Cardinality(S) = G!Cardinality(S)
  BY Zenon DEF Cardinality, G!Cardinality
<1>2. \A S : IsFiniteSet(S) <=> G!IsFiniteSet(S)
  BY DEF IsFiniteSet, G!IsFiniteSet
<1>3. \A next, start : ReachedFrom(next, start) = G!ReachedFrom(next, start)
  BY <1>1, Zenon DEF ReachedFrom, G!ReachedFrom
<1> QED BY <1>2, <1>3

\* The sets D are dominators: no path avoids a block that is behind another.
LEMMA DefinedDominates ==
  ASSUME NEW D, Solid(fn, D), NEW b \in DOMAIN fn.code, NEW d \in D[b], d # b
  PROVE  b \notin ReachedWithout(d)
<1> DEFINE next == [x \in DOMAIN fn.code |-> Targets(x) \ {d}]
           start == {1} \ {d}
           C == {x \in DOMAIN fn.code : d \notin D[x]}
<1>1. IsFiniteSet(DOMAIN fn.code) /\ 1 \in DOMAIN fn.code
  <2>1. Len(fn.code) \in Nat /\ DOMAIN fn.code = 1 .. Len(fn.code)
    BY DEF Solid, Shaped
  <2> QED BY <2>1, FS_Interval
<1>2. start \subseteq C
  BY <1>1 DEF Solid
<1>3. ASSUME NEW x \in C PROVE next[x] \subseteq C
  <2> SUFFICES ASSUME NEW y \in Targets(x), y # d PROVE y \in C
    OBVIOUS
  <2>1. PICK k \in DOMAIN fn.code[x] : y \in Range(fn.code[x][k].to)
    BY DEF Targets, Range
  <2>2. PICK m \in DOMAIN fn.code[x][k].to : y = fn.code[x][k].to[m]
    BY <2>1 DEF Range
  <2>3. y \in DOMAIN fn.code /\ Behind(D, y) \subseteq D[x]
    BY <2>1, <2>2 DEF Solid, Sits, Leads
  <2> QED BY <2>3 DEF Behind
<1>4. DOMAIN next = DOMAIN fn.code
  OBVIOUS
<1> HIDE DEF next, start
<1>5. ReachedFrom(next, start) \subseteq C
  <2> HIDE DEF C
  <2> QED BY <1>1, <1>2, <1>3, <1>4, SameReached, G!ReachedIsLeast
<1> QED BY <1>5 DEF ReachedWithout, next, start

(* Whatever program is visited: an operand that an instruction made stands  *)
(* before its user, or in a block that every path to the user passes.      *)
THEOREM DefinitionsComeFirst == ExpressionsSpec => []DefinitionsDominate
<1>1. Defined => DefinitionsDominate
  <2> SUFFICES ASSUME NEW D, Sited(D), NEW b \in DOMAIN fn.code,
                      NEW k \in DOMAIN fn.code[b],
                      NEW v \in Range(fn.code[b][k].args), v.kind = "instr"
               PROVE  \/ \E j \in 1 .. k - 1 : fn.code[b][j].id = v.id
                      \/ \E d \in DOMAIN fn.code \ {b} :
                           v.id \in MadeIn(d) /\ b \notin ReachedWithout(d)
    BY DEF DefinitionsDominate, Defined
  <2>1. Uses(fn, D, b, k, v)
    BY DEF Sited, Solid, Sits, Range
  <2>2. ASSUME NEW d \in Behind(D, b), Has(fn, d, v.id)
        PROVE  d \in DOMAIN fn.code \ {b} /\ v.id \in MadeIn(d) /\ b \notin ReachedWithout(d)
    BY <2>2, DefinedDominates DEF Has, MadeIn, Range, Behind, Sited
  <2> QED BY <2>1, <2>2 DEF Uses
<1> QED BY <1>1, InitiallyDefined, DefinedStep, Initially, Inductive, PTL
        DEF ExpressionsSpec

-----------------------------------------------------------------------------
(* A float becomes an integer only for its user.  Between the conversion   *)
(* and the user only a call stands open: the arguments collected for it    *)
(* wait on the stack.                                                      *)

Spending == {"store", "call", "gep", "ret"}

Written(f, i) == \E d \in DOMAIN f.code : \E j \in DOMAIN f.code[d] : f.code[d][j] = i

Spent(f, v) == \E u : Written(f, u) /\ u.op \in Spending /\ v \in Range(u.args)

\* Each truncated value has its user, or waits in X.
Settled(f, X) ==
  \A i : Written(f, i) /\ i.op = "fptosi" =>
    Spent(f, Result(i.type, i.id)) \/ Result(i.type, i.id) \in X

Gathers(frame) == IF frame.visit \in {"call", "argument"} THEN Range(frame.args) ELSE {}
Collected(s)   == UNION {Gathers(s[k]) : k \in DOMAIN s}

Keeps(f, g, X) == Shaped(g) /\ DOMAIN g.code = DOMAIN f.code /\ Settled(g, X)

LEMMA CodeShaped ==
  ASSUME NEW f \in Code PROVE Shaped(f)
<1>1. f.code \in Seq(Seq(Fit)) /\ Len(f.code) \in Nat /\ DOMAIN f.code = 1 .. Len(f.code)
  BY CodeFacts
<1>2. ASSUME NEW b \in DOMAIN f.code
      PROVE  Len(f.code[b]) \in Nat /\ DOMAIN f.code[b] = 1 .. Len(f.code[b])
  <2>1. f.code[b] \in Seq(Fit)
    BY <1>1
  <2> QED BY <2>1
<1> QED BY <1>1, <1>2 DEF Shaped

LEMMA SettledGrows ==
  ASSUME NEW f, NEW X, Settled(f, X), NEW Y, X \subseteq Y PROVE Settled(f, Y)
  BY DEF Settled

LEMMA EmitWritten ==
  ASSUME NEW f, Shaped(f), NEW b \in DOMAIN f.code, NEW op, NEW type, NEW args, NEW to
  PROVE  LET g == Emit(f, b, op, type, args, to)
         IN  \A i : Written(g, i) <=> Written(f, i) \/ i = Instr(op, type, args, to, f.made + 1)
<1> DEFINE g == Emit(f, b, op, type, args, to)
           n == Len(f.code[b])
           new == Instr(op, type, args, to, f.made + 1)
<1>1. /\ DOMAIN g.code = DOMAIN f.code /\ Shaped(g)
      /\ \A d \in DOMAIN f.code \ {b} : g.code[d] = f.code[d]
      /\ Len(g.code[b]) = n + 1
      /\ \A k \in 1 .. n : g.code[b][k] = f.code[b][k]
      /\ g.code[b][n + 1] = new
  BY EmittedCode
<1>2. n \in Nat /\ DOMAIN f.code[b] = 1 .. n /\ DOMAIN g.code[b] = 1 .. n + 1
  BY <1>1 DEF Shaped
<1> HIDE DEF g, n, new
<1>3. ASSUME NEW i, Written(f, i) PROVE Written(g, i)
  <2>1. PICK d \in DOMAIN f.code : \E j \in DOMAIN f.code[d] : f.code[d][j] = i
    BY <1>3 DEF Written
  <2>2. CASE d = b
    <3>1. PICK j \in 1 .. n : f.code[b][j] = i
      BY <1>2, <2>1, <2>2
    <3>2. j \in DOMAIN g.code[b] /\ g.code[b][j] = i
      BY <1>1, <1>2, <3>1
    <3> QED BY <1>1, <3>2 DEF Written
  <2>3. CASE d # b
    BY <1>1, <2>1, <2>3 DEF Written
  <2> QED BY <2>2, <2>3
<1>4. Written(g, new)
  <2>1. n + 1 \in DOMAIN g.code[b]
    BY <1>2
  <2> QED BY <1>1, <2>1 DEF Written
<1>5. ASSUME NEW i, Written(g, i) PROVE Written(f, i) \/ i = new
  <2>1. PICK d \in DOMAIN f.code : \E j \in DOMAIN g.code[d] : g.code[d][j] = i
    BY <1>1, <1>5 DEF Written
  <2>2. CASE d = b
    <3>1. PICK j \in 1 .. n + 1 : g.code[b][j] = i
      BY <1>2, <2>1, <2>2
    <3>2. CASE j = n + 1
      BY <1>1, <3>1, <3>2
    <3>3. CASE j \in 1 .. n
      BY <1>1, <1>2, <3>1, <3>3 DEF Written
    <3> QED BY <1>2, <3>1, <3>2, <3>3
  <2>3. CASE d # b
    BY <1>1, <2>1, <2>3 DEF Written
  <2> QED BY <2>2, <2>3
<1> QED BY <1>3, <1>4, <1>5 DEF g, new

\* A value that the new instruction takes need not wait any longer.
LEMMA EmitSettled ==
  ASSUME NEW f, Shaped(f), NEW b \in DOMAIN f.code, NEW op, NEW type, NEW args, NEW to,
         NEW X, NEW Y, Settled(f, X),
         X \subseteq Y \/ (op \in Spending /\ X \subseteq Y \cup Range(args)),
         op = "fptosi" => Result(type, f.made + 1) \in Y
  PROVE  Keeps(f, Emit(f, b, op, type, args, to), Y)
<1> DEFINE g == Emit(f, b, op, type, args, to)
           new == Instr(op, type, args, to, f.made + 1)
<1>1. DOMAIN g.code = DOMAIN f.code /\ Shaped(g)
  BY EmittedCode
<1>2. \A i : Written(g, i) <=> Written(f, i) \/ i = new
  BY EmitWritten
<1>3. new.op = op /\ new.type = type /\ new.args = args /\ new.id = f.made + 1
  BY DEF Instr
<1> HIDE DEF g, new
<1>4. \A v : Spent(f, v) => Spent(g, v)
  BY <1>2 DEF Spent
<1>5. ASSUME NEW i, Written(g, i), i.op = "fptosi"
      PROVE  Spent(g, Result(i.type, i.id)) \/ Result(i.type, i.id) \in Y
  <2> DEFINE v == Result(i.type, i.id)
  <2>1. CASE i = new
    BY <1>3, <1>5, <2>1
  <2>2. CASE Written(f, i)
    <3>1. Spent(f, v) \/ v \in X
      BY <1>5, <2>2 DEF Settled
    <3> HIDE DEF v
    <3>2. CASE v \in X /\ v \notin Y
      <4>1. op \in Spending /\ v \in Range(args)
        BY <3>2
      <4>2. Written(g, new)
        BY <1>2
      <4>3. Spent(g, v)
        BY <1>3, <4>1, <4>2 DEF Spent
      <4> QED BY <4>3 DEF v
    <3> QED BY <1>4, <3>1, <3>2 DEF v
  <2> QED BY <1>2, <1>5, <2>1, <2>2
<1>6. Settled(g, Y)
  BY <1>5 DEF Settled
<1> QED BY <1>1, <1>6 DEF Keeps, g

LEMMA CreateSettled ==
  ASSUME NEW f, Shaped(f), NEW b \in DOMAIN f.code, NEW op, NEW args,
         NEW X, NEW Y, Settled(f, X), op # "fptosi",
         X \subseteq Y \/ (op \in Spending /\ X \subseteq Y \cup Range(args))
  PROVE  Keeps(f, Create(f, b, op, args).fn, Y)
<1> DEFINE type == ResultType(op, args)
<1>1. Create(f, b, op, args).fn = Emit(f, b, op, type, args, <<>>)
  BY DEF Create
<1> HIDE DEF type
<1> QED BY <1>1, EmitSettled

LEMMA ConvertedSettled ==
  ASSUME NEW f, Shaped(f), NEW b \in DOMAIN f.code, NEW v, NEW t, NEW X, Settled(f, X)
  PROVE  LET c == Converted(f, b, v, t)
         IN  /\ Keeps(f, c.fn, X \cup {c.val})
             /\ t = "float" /\ v.type \in Scalars => Keeps(f, c.fn, X)
<1>1. CASE v.type = t
  BY <1>1, SettledGrows DEF Converted, Keeps
<1>2. CASE v.type # t
  <2> DEFINE op == IF v.type = "i32" THEN "sitofp" ELSE "fptosi"
             type == ResultType(op, <<v>>)
             c == Converted(f, b, v, t)
  <2>1. /\ c.fn = Emit(f, b, op, type, <<v>>, <<>>)
        /\ c.val = Result(type, f.made + 1)
    BY <1>2 DEF Converted, Create
  <2>2. t = "float" /\ v.type \in Scalars => op = "sitofp"
    BY <1>2 DEF Scalars
  <2> HIDE DEF op, type, c
  <2>3. Keeps(f, c.fn, X \cup {c.val})
    BY <2>1, EmitSettled
  <2>4. op = "sitofp" => Keeps(f, c.fn, X)
    BY <2>1, EmitSettled
  <2> QED BY <2>2, <2>3, <2>4 DEF c
<1> QED BY <1>1, <1>2

\* promote makes no integer of a float.
LEMMA PromoteSettled ==
  ASSUME NEW f, Shaped(f), NEW b \in DOMAIN f.code, NEW l, NEW r, NEW X, Settled(f, X),
         l.type \in Scalars, r.type \in Scalars
  PROVE  Keeps(f, Promote(f, b, l, r).fn, X)
<1>1. CASE l.type = r.type
  BY <1>1 DEF Promote, Keeps
<1>2. CASE l.type # r.type
  <2> DEFINE cl == Converted(f, b, l, "float")
             cr == Converted(cl.fn, b, r, "float")
  <2>1. Promote(f, b, l, r).fn = cr.fn
    BY <1>2 DEF Promote
  <2>2. Keeps(f, cl.fn, X)
    BY ConvertedSettled
  <2> HIDE DEF cl
  <2>3. Shaped(cl.fn) /\ b \in DOMAIN cl.fn.code /\ Settled(cl.fn, X)
    BY <2>2 DEF Keeps
  <2>4. Keeps(cl.fn, cr.fn, X)
    BY <2>3, ConvertedSettled
  <2> HIDE DEF cr
  <2> QED BY <2>1, <2>2, <2>4 DEF Keeps
<1> QED BY <1>1, <1>2

LEMMA ElementSettled ==
  ASSUME NEW f, Shaped(f), NEW b \in DOMAIN f.code, NEW v, NEW i, NEW X,
         Settled(f, X \cup {i})
  PROVE  Keeps(f, ElementAddress(f, b, v, i).fn, X)
<1>1. CASE Pointee(v.type) \in Arrays
  <2> DEFINE args == <<v, Constant("i32", 0), i>>
  <2>1. ElementAddress(f, b, v, i).fn = Create(f, b, "gep", args).fn
    BY <1>1 DEF ElementAddress
  <2>2. i \in Range(args)
    <3>1. 3 \in DOMAIN args /\ args[3] = i
      OBVIOUS
    <3> QED BY <3>1 DEF Range
  <2> HIDE DEF args
  <2> QED BY <2>1, <2>2, CreateSettled DEF Spending
<1>2. CASE Pointee(v.type) \notin Arrays
  <2> DEFINE l == Create(f, b, "load", <<v>>)
             args == <<l.val, i>>
  <2>1. ElementAddress(f, b, v, i).fn = Create(l.fn, b, "gep", args).fn
    BY <1>2 DEF ElementAddress
  <2>2. Keeps(f, l.fn, X \cup {i})
    BY CreateSettled
  <2>3. i \in Range(args)
    <3>1. 2 \in DOMAIN args /\ args[2] = i
      OBVIOUS
    <3> QED BY <3>1 DEF Range
  <2> HIDE DEF l, args
  <2>4. Keeps(l.fn, Create(l.fn, b, "gep", args).fn, X)
    BY <2>2, <2>3, CreateSettled DEF Spending, Keeps
  <2> QED BY <2>1, <2>2, <2>4 DEF Keeps
<1> QED BY <1>1, <1>2

LEMMA RetSettled ==
  ASSUME NEW f, Shaped(f), NEW b \in DOMAIN f.code, NEW X, Settled(f, X)
  PROVE  Keeps(f, RetDefault(f, b), X)
  BY EmitSettled DEF RetDefault, CreateRet

LEMMA NewBlocksSettled ==
  ASSUME NEW f \in Code, NEW n \in Nat, NEW X, Settled(f, X)
  PROVE  LET g == NewBlocks(f, n)
         IN  /\ Shaped(g) /\ Settled(g, X) /\ Len(f.code) \in Nat
             /\ DOMAIN f.code = 1 .. Len(f.code) /\ DOMAIN g.code = 1 .. Len(f.code) + n
<1> DEFINE g == NewBlocks(f, n)
           l == Len(f.code)
<1>1. /\ l \in Nat /\ DOMAIN f.code = 1 .. l /\ DOMAIN g.code = 1 .. l + n
      /\ \A d \in DOMAIN f.code : g.code[d] = f.code[d]
      /\ \A d \in l + 1 .. l + n : g.code[d] = <<>>
      /\ Shaped(g)
  BY NewBlocksCode
<1> HIDE DEF g, l
<1>2. ASSUME NEW i PROVE Written(g, i) <=> Written(f, i)
  <2>1. ASSUME Written(f, i) PROVE Written(g, i)
    <3>1. DOMAIN f.code \subseteq DOMAIN g.code
      BY <1>1
    <3> QED BY <1>1, <2>1, <3>1 DEF Written
  <2>2. ASSUME Written(g, i) PROVE Written(f, i)
    <3>1. PICK d \in DOMAIN g.code : \E j \in DOMAIN g.code[d] : g.code[d][j] = i
      BY <2>2 DEF Written
    <3>2. d \notin l + 1 .. l + n
      BY <1>1, <3>1
    <3>3. d \in DOMAIN f.code
      BY <1>1, <3>2
    <3> QED BY <1>1, <3>1, <3>3 DEF Written
  <2> QED BY <2>1, <2>2
<1>3. Settled(g, X)
  BY <1>2 DEF Settled, Spent
<1> QED BY <1>1, <1>3 DEF g, l

\* What waits on the stack: a frame that is left or changed takes nothing
\* with it that was collected, but at the call itself.
LEMMA StackCollected ==
  ASSUME Inv, visits # <<>>,
         \/ visits' = Leave /\ Gathers(Top) = {}
         \/ \E frame : visits' = Become(frame) /\ Gathers(Top) \subseteq Gathers(frame)
         \/ \E frame, child : /\ visits' = Call(frame, child)
                              /\ Gathers(Top) \subseteq Gathers(frame)
  PROVE  Collected(visits) \subseteq Collected(visits')
<1> DEFINE n == Len(visits)
<1>1. /\ visits \in Seq(Frame) /\ n \in Nat \ {0} /\ DOMAIN visits = 1 .. n
      /\ n \in DOMAIN visits
  BY InvFacts
<1>2. Top = visits[n]
  BY DEF Top
<1>3. CASE visits' = Leave /\ Gathers(Top) = {}
  <2>1. Len(Leave) = n - 1 /\ DOMAIN Leave = 1 .. n - 1 /\ \A k \in 1 .. n - 1 : Leave[k] = visits[k]
    BY <1>1, LeaveFacts DEF Leave
  <2> HIDE DEF n
  <2>2. \A k \in DOMAIN visits : k = n \/ k \in DOMAIN Leave
    BY <1>1, <2>1
  <2> QED BY <1>2, <1>3, <2>1, <2>2 DEF Collected
<1>4. ASSUME NEW frame, Gathers(Top) \subseteq Gathers(frame)
      PROVE  /\ DOMAIN Become(frame) = 1 .. n /\ Len(Become(frame)) = n
             /\ \A k \in 1 .. n : Gathers(visits[k]) \subseteq Gathers(Become(frame)[k])
  <2>1. Become(frame) = [visits EXCEPT ![n] = frame]
    BY DEF Become
  <2> HIDE DEF n
  <2>2. /\ DOMAIN Become(frame) = 1 .. n /\ Become(frame)[n] = frame
        /\ \A k \in 1 .. n : k # n => Become(frame)[k] = visits[k]
    BY <1>1, <2>1
  <2>3. Len(Become(frame)) = n
    BY <1>1, <2>2
  <2> QED BY <1>2, <1>4, <2>2, <2>3
<1>5. ASSUME NEW frame, visits' = Become(frame), Gathers(Top) \subseteq Gathers(frame)
      PROVE  Collected(visits) \subseteq Collected(visits')
  BY <1>1, <1>4, <1>5 DEF Collected
<1>6. ASSUME NEW frame, NEW child, visits' = Call(frame, child),
             Gathers(Top) \subseteq Gathers(frame)
      PROVE  Collected(visits) \subseteq Collected(visits')
  <2> DEFINE s == Become(frame)
  <2>1. /\ DOMAIN s = 1 .. n /\ Len(s) = n
        /\ \A k \in 1 .. n : Gathers(visits[k]) \subseteq Gathers(s[k])
    BY <1>4, <1>6
  <2>2. visits' = Append(s, child)
    BY <1>6 DEF Call
  <2> HIDE DEF s, n
  <2>3. DOMAIN visits' = 1 .. n + 1 /\ \A k \in 1 .. n : visits'[k] = s[k]
    BY <1>1, <2>1, <2>2
  <2>4. \A k \in DOMAIN visits : k \in DOMAIN visits' /\ visits'[k] = s[k]
    BY <1>1, <2>3
  <2> QED BY <1>1, <2>1, <2>4 DEF Collected
<1> QED BY <1>3, <1>5, <1>6

LEMMA QuietTop ==
  ASSUME Top.visit \notin {"call", "argument"} PROVE Gathers(Top) = {}
  BY DEF Gathers

LEMMA VisitedCode ==
  ASSUME Inv, visits # <<>>
  PROVE  fn \in Code /\ Shaped(fn) /\ insert \in DOMAIN fn.code
  BY InvFacts, CodeShaped, CodeFacts DEF Inv

\* The steps that emit nothing.
LEMMA QuietSettled ==
  ASSUME Inv, Settled(fn, Collected(visits)),
         \/ NextStatement \/ LeaveCompoundStmt \/ EnterFunction \/ EnterCompoundStmt
         \/ ExpressionStmt \/ SelectionStmt \/ Num \/ IndexedVar \/ AssignExpression
         \/ AssignTarget \/ BinaryExpression \/ RightOperand \/ CallFunction \/ NextArgument
  PROVE  Settled(fn', Collected(visits'))
<1>1. CASE EnterFunction
  <2> DEFINE n == Len(visits)
             child == Visit("body")
  <2>1. visits' = Append(visits, child) /\ fn' = fn
    BY <1>1 DEF EnterFunction
  <2>2. n \in Nat /\ DOMAIN visits = 1 .. n
    BY InvFacts
  <2> HIDE DEF n, child
  <2>3. \A k \in DOMAIN visits : k \in DOMAIN visits' /\ visits'[k] = visits[k]
    BY <2>1, <2>2 DEF n
  <2>4. Collected(visits) \subseteq Collected(visits')
    BY <2>3 DEF Collected
  <2> QED BY <2>1, <2>4, SettledGrows
<1>2. CASE NextArgument
  <2> DEFINE frame == [Top EXCEPT !.visit = "argument"]
  <2>1. visits # <<>> /\ fn' = fn /\ \E child : visits' = Call(frame, child)
    BY <1>2 DEF NextArgument, InVisit
  <2>2. frame.visit = "argument" /\ frame.args = Top.args
    BY <2>1, TopFacts DEF Shape
  <2> HIDE DEF frame
  <2>3. Gathers(Top) \subseteq Gathers(frame)
    BY <2>2 DEF Gathers
  <2> QED BY <2>1, <2>3, StackCollected, SettledGrows
<1>3. ASSUME visits # <<>>, Gathers(Top) = {}, fn' = fn,
             \/ visits' = Leave
             \/ \E frame : visits' = Become(frame)
             \/ \E frame, child : visits' = Call(frame, child)
      PROVE  Settled(fn', Collected(visits'))
  BY <1>3, StackCollected, SettledGrows
<1>4. CASE NextStatement \/ LeaveCompoundStmt \/ EnterCompoundStmt
  <2>1. visits # <<>> /\ Top.visit \notin {"call", "argument"} /\ fn' = fn
    BY <1>4 DEF NextStatement, LeaveCompoundStmt, EnterCompoundStmt, InVisit
  <2>2. \/ visits' = Leave
        \/ \E frame : visits' = Become(frame)
        \/ \E frame, child : visits' = Call(frame, child)
    BY <1>4 DEF NextStatement, LeaveCompoundStmt, EnterCompoundStmt
  <2> QED BY <1>3, <2>1, <2>2, QuietTop
<1>5. CASE ExpressionStmt \/ SelectionStmt \/ AssignTarget \/ RightOperand
  <2>1. visits # <<>> /\ Top.visit \notin {"call", "argument"} /\ fn' = fn
    BY <1>5 DEF ExpressionStmt, SelectionStmt, AssignTarget, RightOperand, InVisit
  <2>2. \/ visits' = Leave
        \/ \E frame : visits' = Become(frame)
        \/ \E frame, child : visits' = Call(frame, child)
    BY <1>5 DEF ExpressionStmt, SelectionStmt, AssignTarget, RightOperand
  <2> QED BY <1>3, <2>1, <2>2, QuietTop
<1>6. CASE Num \/ IndexedVar \/ AssignExpression \/ BinaryExpression \/ CallFunction
  <2>1. (WantsNumber \/ InVisit("target")) /\ fn' = fn
    BY <1>6 DEF Num, IndexedVar, AssignExpression, BinaryExpression, CallFunction
  <2>2. visits # <<>> /\ Top.visit \notin {"call", "argument"}
    BY <2>1, NumberFacts, TargetFacts
  <2>3. \/ visits' = Leave
        \/ \E frame : visits' = Become(frame)
        \/ \E frame, child : visits' = Call(frame, child)
    BY <1>6 DEF Num, IndexedVar, AssignExpression, BinaryExpression, CallFunction
  <2> QED BY <1>3, <2>1, <2>2, <2>3, QuietTop
<1> QED BY <1>1, <1>2, <1>4, <1>5, <1>6

\* The statements that emit code.
LEMMA DeclarationSettled ==
  ASSUME Inv, Settled(fn, Collected(visits)), VarDeclaration
  PROVE  Settled(fn', Collected(visits'))
<1>1. visits' = visits
  BY DEF VarDeclaration
<1>2. CASE InGlobal
  <2>1. fn'.code = fn.code
    <3>1. fn \in Code /\ fn' = [fn EXCEPT !.made = @ + 1]
      BY <1>2, InvFacts DEF VarDeclaration
    <3> QED BY <3>1, CodeForm
  <2>2. \A i : Written(fn', i) <=> Written(fn, i)
    BY <2>1 DEF Written
  <2> QED BY <1>1, <2>2 DEF Settled, Spent
<1>3. CASE ~InGlobal
  <2>1. visits # <<>> /\ \E t \in DeclTypes : fn' = CreateAlloca(fn, insert, t)
    BY <1>3 DEF VarDeclaration, InVisit
  <2>2. PICK t \in DeclTypes : fn' = Emit(fn, insert, "alloca", PointerTo(t), <<>>, <<>>)
    BY <2>1 DEF CreateAlloca
  <2>3. Shaped(fn) /\ insert \in DOMAIN fn.code
    BY <2>1, VisitedCode
  <2> QED BY <1>1, <2>2, <2>3, EmitSettled DEF Keeps
<1> QED BY <1>2, <1>3

LEMMA FunctionSettled ==
  ASSUME Inv, Settled(fn, Collected(visits)), FunDeclaration
  PROVE  Settled(fn', Collected(visits'))
<1>1. fn' = NewBlocks(fn, 1) /\ visits = <<>>
  BY DEF FunDeclaration
<1>2. Collected(visits) = {}
  BY <1>1 DEF Collected
<1>3. fn \in Code /\ 1 \in Nat
  BY InvFacts
<1>4. Settled(fn', {})
  BY <1>1, <1>2, <1>3, NewBlocksSettled
<1> QED BY <1>4, SettledGrows

LEMMA ParameterSettled ==
  ASSUME Inv, Settled(fn, Collected(visits)), Parameter
  PROVE  Settled(fn', Collected(visits'))
<1> DEFINE i == Len(Top.args) + 1
           t == Signatures[CurrentFunction].params[i]
           f == CreateAlloca(fn, insert, t)
           args == <<Argument(t, i), Result(PointerTo(t), f.made)>>
           X == Collected(visits)
<1>1. /\ visits # <<>> /\ Top.visit = "body" /\ fn' = Create(f, insert, "store", args).fn
      /\ \E frame : visits' = Become(frame)
  BY DEF Parameter, InVisit
<1>2. Shaped(fn) /\ insert \in DOMAIN fn.code
  BY <1>1, VisitedCode
<1> HIDE DEF args, t, X
<1>3. Keeps(fn, f, X)
  BY <1>2, EmitSettled DEF CreateAlloca, X
<1> HIDE DEF f
<1>4. Keeps(f, fn', X)
  <2>1. Shaped(f) /\ insert \in DOMAIN f.code /\ Settled(f, X)
    BY <1>2, <1>3 DEF Keeps
  <2> QED BY <1>1, <2>1, CreateSettled
<1>5. X \subseteq Collected(visits')
  BY <1>1, QuietTop, StackCollected DEF X
<1> QED BY <1>4, <1>5, SettledGrows DEF Keeps

LEMMA EndFunctionSettled ==
  ASSUME Inv, Settled(fn, Collected(visits)), EndFunDeclaration \/ EndThen
  PROVE  Settled(fn', Collected(visits'))
<1>1. /\ visits # <<>> /\ Top.visit \notin {"call", "argument"} /\ visits' = Leave
      /\ \/ fn' = fn
         \/ fn' = RetDefault(fn, insert)
         \/ \E c : fn' = CreateBr(fn, insert, c)
  BY DEF EndFunDeclaration, EndThen, InVisit
<1>2. Shaped(fn) /\ insert \in DOMAIN fn.code
  BY <1>1, VisitedCode
<1>3. Settled(fn', Collected(visits))
  <2>1. CASE fn' = RetDefault(fn, insert)
    BY <1>2, <2>1, RetSettled DEF Keeps
  <2>2. CASE \E c : fn' = CreateBr(fn, insert, c)
    BY <1>2, <2>2, EmitSettled DEF CreateBr, Keeps
  <2> QED BY <1>1, <2>1, <2>2
<1> QED BY <1>1, <1>3, QuietTop, StackCollected, SettledGrows

LEMMA BranchSettled ==
  ASSUME Inv, Settled(fn, Collected(visits)), BranchSelection
  PROVE  Settled(fn', Collected(visits'))
<1> DEFINE trueBB == Len(fn.code) + 1
           contBB == Len(fn.code) + 2
           f == NewBlocks(fn, 2)
           op == IF tmp_val.type = "i32" THEN "ne" ELSE "fne"
           args == <<tmp_val, Constant(tmp_val.type, 0)>>
           c == Create(f, insert, op, args)
           X == Collected(visits)
<1>1. /\ visits # <<>> /\ Top.visit = "condition"
      /\ fn' = CreateCondBr(c.fn, insert, c.val, trueBB, contBB)
      /\ \E frame, child : visits' = Call(frame, child)
  BY DEF BranchSelection, InVisit
<1>2. fn \in Code /\ insert \in DOMAIN fn.code /\ 2 \in Nat
  BY <1>1, VisitedCode
<1>3. X \subseteq Collected(visits')
  BY <1>1, QuietTop, StackCollected
<1>4. Settled(fn, X)
  OBVIOUS
<1> HIDE DEF X, trueBB, contBB, args
<1>5. Shaped(f) /\ Settled(f, X) /\ insert \in DOMAIN f.code
  <2>1. /\ Shaped(f) /\ Settled(f, X) /\ Len(fn.code) \in Nat
        /\ DOMAIN fn.code = 1 .. Len(fn.code) /\ DOMAIN f.code = 1 .. Len(fn.code) + 2
    BY <1>2, <1>4, NewBlocksSettled
  <2> HIDE DEF f
  <2> QED BY <1>2, <2>1
<1> HIDE DEF f
<1>6. op # "fptosi"
  OBVIOUS
<1> HIDE DEF op
<1>7. Keeps(f, c.fn, X)
  BY <1>5, <1>6, CreateSettled
<1> HIDE DEF c
<1>8. Keeps(c.fn, fn', X)
  <2>1. Shaped(c.fn) /\ insert \in DOMAIN c.fn.code /\ Settled(c.fn, X)
    BY <1>5, <1>7 DEF Keeps
  <2>2. fn' = Emit(c.fn, insert, "br", "void", <<c.val>>, <<trueBB, contBB>>)
    BY <1>1 DEF CreateCondBr
  <2> QED BY <2>1, <2>2, EmitSettled
<1> QED BY <1>3, <1>8, SettledGrows DEF Keeps

LEMMA ReturnSettled ==
  ASSUME Inv, Settled(fn, Collected(visits)), ReturnStmt \/ EndReturnStmt
  PROVE  Settled(fn', Collected(visits'))
<1>1. visits # <<>> /\ Top.visit \in {"statement", "return"}
  BY DEF ReturnStmt, EndReturnStmt, InVisit
<1>2. Shaped(fn) /\ insert \in DOMAIN fn.code
  BY <1>1, VisitedCode
<1>3. Collected(visits) \subseteq Collected(visits')
  <2>1. visits' = Leave \/ \E frame, child : visits' = Call(frame, child)
    BY DEF ReturnStmt, EndReturnStmt
  <2> QED BY <1>1, <2>1, QuietTop, StackCollected
<1>4. CASE ReturnStmt
  <2>1. fn' = fn \/ fn' = CreateRet(fn, insert, <<>>)
    BY <1>4 DEF ReturnStmt
  <2>2. Settled(fn', Collected(visits))
    BY <1>2, <2>1, EmitSettled DEF CreateRet, Keeps
  <2> QED BY <1>3, <2>2, SettledGrows
<1>5. CASE EndReturnStmt
  <2> DEFINE c == Converted(fn, insert, tmp_val, ReturnType)
             X == Collected(visits)
             args == <<c.val>>
  <2>1. fn' = Emit(c.fn, insert, "ret", "void", args, <<>>)
    BY <1>5 DEF EndReturnStmt, CreateRet
  <2>2. X \subseteq Collected(visits') /\ Settled(fn, X)
    BY <1>3
  <2> HIDE DEF X
  <2>3. Keeps(fn, c.fn, X \cup {c.val})
    BY <1>2, <2>2, ConvertedSettled
  <2>4. c.val \in Range(args)
    <3>1. 1 \in DOMAIN args /\ args[1] = c.val
      OBVIOUS
    <3> QED BY <3>1 DEF Range
  <2> HIDE DEF c, args
  <2>5. Keeps(c.fn, fn', X)
    <3>1. Shaped(c.fn) /\ insert \in DOMAIN c.fn.code /\ Settled(c.fn, X \cup {c.val})
      BY <1>2, <2>3 DEF Keeps
    <3>2. "ret" \in Spending /\ X \cup {c.val} \subseteq X \cup Range(args)
      BY <2>4 DEF Spending
    <3> QED BY <2>1, <3>1, <3>2, EmitSettled
  <2> QED BY <2>2, <2>5, SettledGrows DEF Keeps
<1> QED BY <1>4, <1>5

\* The expressions.
LEMMA VarSettled ==
  ASSUME Inv, Settled(fn, Collected(visits)), Var
  PROVE  Settled(fn', Collected(visits'))
<1>1. PICK n \in UserNames :
        IsVariable(n) /\ Wanted(Pointee(Find(n).type)) /\ (Address(n) \/ ValueOf(n))
  BY DEF Var
<1> DEFINE var == Find(n)
           zero == Constant("i32", 0)
<1>2. visits # <<>> /\ Top.visit \notin {"call", "argument"}
  <2>1. InVisit("expression") \/ InVisit("target")
    BY <1>1 DEF Wanted, WantsNumber
  <2> QED BY <2>1 DEF InVisit
<1>3. Collected(visits) \subseteq Collected(visits')
  BY <1>2, QuietTop, StackCollected DEF Var
<1>4. \/ fn' = fn
      \/ fn' = Create(fn, insert, "gep", <<var, zero, zero>>).fn
      \/ fn' = Create(fn, insert, "load", <<var>>).fn
  BY <1>1 DEF Address, ValueOf
<1>5. Shaped(fn) /\ insert \in DOMAIN fn.code
  BY <1>2, VisitedCode
<1> HIDE DEF var, zero
<1>6. Settled(fn', Collected(visits))
  BY <1>4, <1>5, CreateSettled DEF Keeps
<1> QED BY <1>3, <1>6, SettledGrows

LEMMA IndexSettled ==
  ASSUME Inv, Settled(fn, Collected(visits)), EndIndex
  PROVE  Settled(fn', Collected(visits'))
<1> DEFINE exceptBB == Len(fn.code) + 1
           contBB == Len(fn.code) + 2
           f0 == NewBlocks(fn, 2)
           i == AsIndex(f0, insert, tmp_val)
           args == <<i.val, Constant("i32", 0)>>
           is_neg == Create(i.fn, insert, "lt", args)
           f1 == CreateCondBr(is_neg.fn, insert, is_neg.val, exceptBB, contBB)
           f2 == CreateCall(f1, exceptBB, Find(NegName).id, <<>>)
           f3 == RetDefault(f2, exceptBB)
           address == ElementAddress(f3, contBB, Top.val, i.val)
           element == Create(address.fn, contBB, "load", <<address.val>>)
           X == Collected(visits)
           Y == X \cup {i.val}
<1>1. /\ visits # <<>> /\ Top.visit = "index" /\ visits' = Leave
      /\ fn' = IF Top.flag THEN address.fn ELSE element.fn
  BY DEF EndIndex, InVisit, NegName
<1>2. fn \in Code /\ insert \in DOMAIN fn.code /\ 2 \in Nat
  BY <1>1, VisitedCode
<1>3. X \subseteq Collected(visits')
  BY <1>1, QuietTop, StackCollected
<1>4. Settled(fn, X)
  OBVIOUS
<1> HIDE DEF X, args
<1>5. /\ Shaped(f0) /\ Settled(f0, X)
      /\ insert \in DOMAIN f0.code /\ exceptBB \in DOMAIN f0.code /\ contBB \in DOMAIN f0.code
  <2>1. /\ Shaped(f0) /\ Settled(f0, X) /\ Len(fn.code) \in Nat
        /\ DOMAIN fn.code = 1 .. Len(fn.code) /\ DOMAIN f0.code = 1 .. Len(fn.code) + 2
    BY <1>2, <1>4, NewBlocksSettled
  <2> HIDE DEF f0
  <2> QED BY <1>2, <2>1
<1> HIDE DEF f0, exceptBB, contBB
<1>6. Keeps(f0, i.fn, Y)
  BY <1>5, ConvertedSettled DEF AsIndex
<1> HIDE DEF i, Y
<1>7. Keeps(f0, is_neg.fn, Y)
  <2>1. Shaped(i.fn) /\ insert \in DOMAIN i.fn.code /\ Settled(i.fn, Y)
    BY <1>5, <1>6 DEF Keeps
  <2>2. Keeps(i.fn, is_neg.fn, Y)
    BY <2>1, CreateSettled
  <2> QED BY <1>6, <2>2 DEF Keeps
<1> HIDE DEF is_neg
<1>8. Keeps(f0, f1, Y)
  <2>1. Shaped(is_neg.fn) /\ insert \in DOMAIN is_neg.fn.code /\ Settled(is_neg.fn, Y)
    BY <1>5, <1>7 DEF Keeps
  <2>2. f1 = Emit(is_neg.fn, insert, "br", "void", <<is_neg.val>>, <<exceptBB, contBB>>)
    BY DEF CreateCondBr
  <2>3. Keeps(is_neg.fn, f1, Y)
    BY <2>1, <2>2, EmitSettled
  <2> QED BY <1>7, <2>3 DEF Keeps
<1> HIDE DEF f1
<1>9. Keeps(f0, f2, Y)
  <2> DEFINE g == Find(NegName).id
             all == <<FunctionOf(g)>> \o <<>>
             type == Signatures[g].ret
  <2>1. Shaped(f1) /\ exceptBB \in DOMAIN f1.code /\ Settled(f1, Y)
    BY <1>5, <1>8 DEF Keeps
  <2>2. f2 = Emit(f1, exceptBB, "call", type, all, <<>>)
    BY DEF CreateCall
  <2> HIDE DEF all, type
  <2>3. Keeps(f1, f2, Y)
    BY <2>1, <2>2, EmitSettled
  <2> QED BY <1>8, <2>3 DEF Keeps
<1> HIDE DEF f2
<1>10. Keeps(f0, f3, Y)
  <2>1. Shaped(f2) /\ exceptBB \in DOMAIN f2.code /\ Settled(f2, Y)
    BY <1>5, <1>9 DEF Keeps
  <2>2. Keeps(f2, f3, Y)
    BY <2>1, RetSettled
  <2> QED BY <1>9, <2>2 DEF Keeps
<1> HIDE DEF f3
<1>11. Keeps(f0, address.fn, X)
  <2>1. Shaped(f3) /\ contBB \in DOMAIN f3.code /\ Settled(f3, X \cup {i.val})
    BY <1>5, <1>10 DEF Keeps, Y
  <2>2. Keeps(f3, address.fn, X)
    BY <2>1, ElementSettled
  <2> QED BY <1>10, <2>2 DEF Keeps
<1> HIDE DEF address
<1>12. Keeps(f0, element.fn, X)
  <2>1. Shaped(address.fn) /\ contBB \in DOMAIN address.fn.code /\ Settled(address.fn, X)
    BY <1>5, <1>11 DEF Keeps
  <2>2. Keeps(address.fn, element.fn, X)
    BY <2>1, CreateSettled
  <2> QED BY <1>11, <2>2 DEF Keeps
<1> HIDE DEF element
<1>13. Settled(fn', X)
  BY <1>1, <1>11, <1>12 DEF Keeps
<1> QED BY <1>3, <1>13, SettledGrows

LEMMA AssignSettled ==
  ASSUME Inv, Settled(fn, Collected(visits)), EndAssign
  PROVE  Settled(fn', Collected(visits'))
<1> DEFINE c == Converted(fn, insert, Top.val, Pointee(tmp_val.type))
           args == <<c.val, tmp_val>>
           X == Collected(visits)
<1>1. /\ visits # <<>> /\ Top.visit = "store" /\ visits' = Leave
      /\ fn' = Create(c.fn, insert, "store", args).fn
  BY DEF EndAssign, InVisit
<1>2. Shaped(fn) /\ insert \in DOMAIN fn.code
  BY <1>1, VisitedCode
<1>3. X \subseteq Collected(visits') /\ Settled(fn, X)
  BY <1>1, QuietTop, StackCollected
<1> HIDE DEF X
<1>4. Keeps(fn, c.fn, X \cup {c.val})
  BY <1>2, <1>3, ConvertedSettled
<1>5. c.val \in Range(args)
  <2>1. 1 \in DOMAIN args /\ args[1] = c.val
    OBVIOUS
  <2> QED BY <2>1 DEF Range
<1> HIDE DEF c, args
<1>6. Keeps(c.fn, fn', X)
  <2>1. Shaped(c.fn) /\ insert \in DOMAIN c.fn.code /\ Settled(c.fn, X \cup {c.val})
    BY <1>2, <1>4 DEF Keeps
  <2>2. "store" \in Spending /\ X \cup {c.val} \subseteq X \cup Range(args)
    BY <1>5 DEF Spending
  <2> QED BY <1>1, <2>1, <2>2, CreateSettled
<1> QED BY <1>3, <1>6, SettledGrows DEF Keeps

LEMMA BinarySettled ==
  ASSUME Inv, Settled(fn, Collected(visits)), EndBinary
  PROVE  Settled(fn', Collected(visits'))
<1> DEFINE p == Promote(fn, insert, Top.val, tmp_val)
           op == IF p.is_int THEN Top.op ELSE FloatOp[Top.op]
           c == Create(p.fn, insert, op, <<p.l, p.r>>)
           x == Create(c.fn, insert, "zext", <<c.val>>)
           X == Collected(visits)
<1>1. /\ visits # <<>> /\ Top.visit = "right" /\ visits' = Leave
      /\ fn' = c.fn \/ fn' = x.fn
  BY DEF EndBinary, InVisit
<1>2. Shaped(fn) /\ insert \in DOMAIN fn.code
  BY <1>1, VisitedCode
<1>3. X \subseteq Collected(visits') /\ Settled(fn, X)
  BY <1>1, QuietTop, StackCollected
<1> HIDE DEF X
<1>4. Top.val.type \in Scalars /\ tmp_val.type \in Scalars
  BY <1>1, TopFacts DEF Carries, Inv, Needs
<1>5. Keeps(fn, p.fn, X)
  BY <1>2, <1>3, <1>4, PromoteSettled
<1> HIDE DEF p
<1>6. op # "fptosi"
  <2>1. Top.op \in Arithmetic \cup Comparisons
    BY <1>1, TopFacts DEF Shape
  <2>2. FloatOp[Top.op] \in FArithmetic \cup FComparisons
    BY <2>1, Operations
  <2>3. "fptosi" \notin FArithmetic \cup FComparisons
    BY Operations
  <2>4. "fptosi" \notin Arithmetic \cup Comparisons
    BY DEF Arithmetic, Comparisons
  <2> QED BY <2>1, <2>2, <2>3, <2>4
<1> HIDE DEF op
<1>7. Keeps(fn, c.fn, X)
  <2>1. Shaped(p.fn) /\ insert \in DOMAIN p.fn.code /\ Settled(p.fn, X)
    BY <1>2, <1>5 DEF Keeps
  <2>2. Keeps(p.fn, c.fn, X)
    BY <1>6, <2>1, CreateSettled
  <2> QED BY <1>5, <2>2 DEF Keeps
<1> HIDE DEF c
<1>8. Keeps(fn, x.fn, X)
  <2>1. Shaped(c.fn) /\ insert \in DOMAIN c.fn.code /\ Settled(c.fn, X)
    BY <1>2, <1>7 DEF Keeps
  <2>2. Keeps(c.fn, x.fn, X)
    BY <2>1, CreateSettled
  <2> QED BY <1>7, <2>2 DEF Keeps
<1> HIDE DEF x
<1>9. Settled(fn', X)
  BY <1>1, <1>7, <1>8 DEF Keeps
<1> QED BY <1>3, <1>9, SettledGrows

\* A converted argument waits until its call.
LEMMA ArgumentSettled ==
  ASSUME Inv, Settled(fn, Collected(visits)), EndArgument
  PROVE  Settled(fn', Collected(visits'))
<1> DEFINE c == Converted(fn, insert, tmp_val, ParamType)
           frame == [Top EXCEPT !.visit = "call", !.args = Append(@, c.val)]
           X == Collected(visits)
<1>1. /\ visits # <<>> /\ Top.visit = "argument" /\ fn' = c.fn /\ visits' = Become(frame)
  BY DEF EndArgument, InVisit
<1>2. Shaped(fn) /\ insert \in DOMAIN fn.code
  BY <1>1, VisitedCode
<1>3. Top \in Shape
  BY <1>1, TopFacts
<1>4. Keeps(fn, c.fn, X \cup {c.val})
  BY <1>2, ConvertedSettled
<1> HIDE DEF c
<1>5. frame.visit = "call" /\ frame.args = Append(Top.args, c.val)
  BY <1>3 DEF Shape
<1> HIDE DEF frame
<1>6. Range(Top.args) \subseteq Range(frame.args) /\ c.val \in Range(frame.args)
  <2> DEFINE s == Top.args
             v == c.val
  <2>1. Len(s) \in Nat /\ DOMAIN s = 1 .. Len(s)
    BY <1>3 DEF Shape
  <2> HIDE DEF s, v
  <2>2. /\ DOMAIN Append(s, v) = 1 .. Len(s) + 1 /\ Append(s, v)[Len(s) + 1] = v
        /\ \A k \in 1 .. Len(s) : Append(s, v)[k] = s[k]
    BY <2>1
  <2>3. Len(s) + 1 \in 1 .. Len(s) + 1 /\ \A k \in DOMAIN s : k \in DOMAIN Append(s, v)
    BY <2>1, <2>2
  <2>4. Range(s) \subseteq Range(Append(s, v)) /\ v \in Range(Append(s, v))
    BY <2>1, <2>2, <2>3 DEF Range
  <2> QED BY <1>5, <2>4 DEF s, v
<1>7. Gathers(Top) = Range(Top.args) /\ Gathers(frame) = Range(frame.args)
  BY <1>1, <1>5 DEF Gathers
<1>8. X \subseteq Collected(visits')
  BY <1>1, <1>6, <1>7, StackCollected
<1>9. c.val \in Collected(visits')
  <2>1. visits \in Seq(Frame)
    BY InvFacts
  <2>2. Len(visits) \in DOMAIN visits /\ visits' = [visits EXCEPT ![Len(visits)] = frame]
    BY <1>1, <2>1 DEF Become
  <2>3. Len(visits) \in DOMAIN visits' /\ visits'[Len(visits)] = frame
    BY <2>2
  <2> QED BY <1>6, <1>7, <2>3 DEF Collected
<1> HIDE DEF X
<1> QED BY <1>1, <1>4, <1>8, <1>9, SettledGrows DEF Keeps

LEMMA CallSettled ==
  ASSUME Inv, Settled(fn, Collected(visits)), EndCall
  PROVE  Settled(fn', Collected(visits'))
<1> DEFINE g == Top.fun
           s == Top.args
           head == <<FunctionOf(g)>>
           all == head \o s
           type == Signatures[g].ret
           X == Collected(visits)
           n == Len(visits)
<1>1. /\ visits # <<>> /\ Top.visit = "call" /\ visits' = Leave
      /\ fn' = Emit(fn, insert, "call", type, all, <<>>)
  BY DEF EndCall, InVisit, CreateCall
<1>2. Shaped(fn) /\ insert \in DOMAIN fn.code
  BY <1>1, VisitedCode
<1>3. s \in Seq(Value) /\ head \in Seq(Value) /\ Len(head) = 1
  <2>1. s \in Seq(Value) /\ ArgumentsFit(Top)
    BY <1>1, TopFacts DEF Shape, Carries
  <2>2. FunctionOf(g) \in Value
    BY <2>1 DEF ArgumentsFit, FunctionOf, Value, Kinds, TypeNames
  <2> QED BY <2>1, <2>2
<1> HIDE DEF g, head, type
<1>4. Range(s) \subseteq Range(all)
  <2> HIDE DEF s
  <2>1. /\ all \in Seq(Value) /\ Len(all) = 1 + Len(s)
        /\ \A k \in 1 .. Len(all) : all[k] = IF k <= 1 THEN head[k] ELSE s[k - 1]
    <3>1. s \in Seq(Value) /\ head \in Seq(Value)
      BY <1>3
    <3>2. /\ all \in Seq(Value) /\ Len(all) = Len(head) + Len(s)
          /\ \A k \in 1 .. Len(all) : all[k] = IF k <= Len(head) THEN head[k]
                                              ELSE s[k - Len(head)]
      BY <3>1, ConcatProperties
    <3> HIDE DEF all
    <3> QED BY <1>3, <3>2
  <2> HIDE DEF all
  <2>2. DOMAIN s = 1 .. Len(s) /\ Len(s) \in Nat /\ DOMAIN all = 1 .. Len(s) + 1
    BY <1>3, <2>1
  <2>3. \A k \in DOMAIN s : k + 1 \in DOMAIN all /\ all[k + 1] = s[k]
    BY <2>1, <2>2
  <2> QED BY <2>3 DEF Range
<1>5. Gathers(Top) = Range(s)
  BY <1>1 DEF Gathers
<1>6. X \subseteq Collected(visits') \cup Gathers(Top)
  <2>1. /\ visits \in Seq(Frame) /\ n \in Nat \ {0} /\ DOMAIN visits = 1 .. n
    BY <1>1, InvFacts
  <2>2. Len(Leave) = n - 1 /\ DOMAIN Leave = 1 .. n - 1
        /\ \A k \in 1 .. n - 1 : Leave[k] = visits[k]
    BY <1>1, <2>1, LeaveFacts DEF Leave
  <2>3. Top = visits[n]
    BY DEF Top
  <2> HIDE DEF n
  <2>4. \A k \in DOMAIN visits : k = n \/ k \in DOMAIN Leave
    BY <2>1, <2>2
  <2> QED BY <1>1, <2>2, <2>3, <2>4 DEF Collected
<1>7. Settled(fn, X)
  OBVIOUS
<1> HIDE DEF X, s, all
<1>8. "call" \in Spending /\ X \subseteq Collected(visits') \cup Range(all)
  BY <1>4, <1>5, <1>6 DEF Spending
<1>9. Keeps(fn, fn', Collected(visits'))
  BY <1>1, <1>2, <1>7, <1>8, EmitSettled
<1> QED BY <1>9 DEF Keeps

Waiting == Settled(fn, Collected(visits))

LEMMA WaitingStep ==
  Inv /\ Waiting /\ [ExpressionsStep]_expressionsVars => Waiting'
<1> SUFFICES ASSUME Inv, Waiting, [ExpressionsStep]_expressionsVars
             PROVE  Settled(fn', Collected(visits'))
  BY DEF Waiting
<1>1. Settled(fn, Collected(visits))
  BY DEF Waiting
<1>2. CASE EnterGlobal \/ DeclareFunction \/ UNCHANGED expressionsVars
  <2>1. fn' = fn /\ visits' = visits
    BY <1>2 DEF EnterGlobal, DeclareFunction, expressionsVars
  <2> QED BY <1>1, <2>1
<1>3. CASE \/ NextStatement \/ LeaveCompoundStmt \/ EnterFunction \/ EnterCompoundStmt
           \/ ExpressionStmt \/ SelectionStmt \/ Num \/ IndexedVar \/ AssignExpression
           \/ AssignTarget \/ BinaryExpression \/ RightOperand \/ CallFunction \/ NextArgument
  BY <1>1, <1>3, QuietSettled
<1>4. CASE \/ VarDeclaration \/ FunDeclaration \/ Parameter \/ EndFunDeclaration \/ EndThen
           \/ BranchSelection \/ ReturnStmt \/ EndReturnStmt
  BY <1>1, <1>4, DeclarationSettled, FunctionSettled, ParameterSettled, EndFunctionSettled,
     BranchSettled, ReturnSettled
<1>5. CASE Var \/ EndIndex \/ EndAssign \/ EndBinary \/ EndArgument \/ EndCall
  BY <1>1, <1>5, VarSettled, IndexSettled, AssignSettled, BinarySettled, ArgumentSettled,
     CallSettled
<1> QED BY <1>2, <1>3, <1>4, <1>5 DEF ExpressionsStep

(* Whatever program is visited: a float becomes an integer for a store, a  *)
(* call, an element's address or a return, and never for an operator.      *)
THEOREM TruncatedForItsUser == ExpressionsSpec => []TruncatedWhereStated
<1>1. ExpressionsInit => Waiting
  <2> SUFFICES ASSUME ExpressionsInit PROVE Waiting
    OBVIOUS
  <2>1. fn.code = <<>>
    BY DEF ExpressionsInit
  <2> QED BY <2>1 DEF Waiting, Settled, Written
<1>2. Waiting => TruncatedWhereStated
  <2> SUFFICES ASSUME Waiting, visits = <<>>, NEW i \in Instructions, i.op = "fptosi"
               PROVE  \E u \in Instructions :
                        /\ u.op \in {"store", "call", "gep", "ret"}
                        /\ Result(i.type, i.id) \in Range(u.args)
    BY DEF TruncatedWhereStated, Visited
  <2>1. \A u : u \in Instructions <=> Written(fn, u)
    BY DEF Instructions, Written, Range
  <2>2. Collected(visits) = {}
    BY DEF Collected
  <2>3. Spent(fn, Result(i.type, i.id))
    BY <2>1, <2>2 DEF Waiting, Settled
  <2> QED BY <2>1, <2>3 DEF Spent, Spending
<1> QED BY <1>1, <1>2, WaitingStep, Initially, Inductive, PTL DEF ExpressionsSpec

-----------------------------------------------------------------------------
(* ConstPropagation keeps the code well typed, unless it folds a           *)
(* comparison of floats.  Until then every constant it puts in has the     *)
(* type of the result it stands for, also those a load is replaced by,     *)
(* which a store before has noted; afterwards the comparison is on its way *)
(* out: whatever has its number is in the block at hand and to be deleted. *)

\* The positions a sequence has below k, among some of its own.
UpTo(S, k) == {j \in S : j <= k}

\* Counting from below, every number up to their count is reached.
LEMMA Counted ==
  ASSUME NEW m \in Nat, NEW S \in SUBSET (1 .. m), NEW n \in 1 .. Cardinality(S)
  PROVE  \E k \in S : Cardinality(UpTo(S, k)) = n
<1>0. \A k \in S : k \in Nat
  OBVIOUS
<1>1. IsFiniteSet(S) /\ Cardinality(S) \in Nat
  <2>1. IsFiniteSet(1 .. m)
    BY FS_Interval
  <2> QED BY <2>1, FS_Subset, FS_CardinalityType
<1>2. ASSUME NEW k \in S
      PROVE  /\ IsFiniteSet(UpTo(S, k)) /\ Cardinality(UpTo(S, k)) \in Nat
             /\ Cardinality(UpTo(S, k)) \in 1 .. Cardinality(S)
  <2>1. UpTo(S, k) \subseteq S /\ k \in UpTo(S, k)
    BY DEF UpTo
  <2>2. IsFiniteSet(UpTo(S, k)) /\ Cardinality(UpTo(S, k)) <= Cardinality(S)
    BY <1>1, <2>1, FS_Subset
  <2>3. Cardinality(UpTo(S, k)) \in Nat /\ Cardinality(UpTo(S, k)) # 0
    BY <2>1, <2>2, FS_CardinalityType, FS_EmptySet
  <2> QED BY <1>1, <2>2, <2>3
<1> DEFINE rank == [k \in S |-> Cardinality(UpTo(S, k))]
           T == 1 .. Cardinality(S)
<1>3. ASSUME NEW j \in S, NEW k \in S, j < k PROVE rank[j] < rank[k]
  <2>1. UpTo(S, j) \subseteq UpTo(S, k) /\ k \in UpTo(S, k) /\ k \notin UpTo(S, j)
    <3>1. j \in Nat /\ k \in Nat /\ j < k
      BY <1>0, <1>3
    <3>2. ASSUME NEW i \in S, i <= j PROVE i <= k
      <4>1. i \in Nat
        BY <1>0
      <4> QED BY <3>1, <3>2, <4>1
    <3>3. k <= k /\ ~(k <= j)
      BY <3>1
    <3> QED BY <3>2, <3>3 DEF UpTo
  <2>2. Cardinality(UpTo(S, j)) < Cardinality(UpTo(S, k))
    <3>1. /\ Cardinality(UpTo(S, j)) <= Cardinality(UpTo(S, k))
          /\ Cardinality(UpTo(S, j)) = Cardinality(UpTo(S, k)) => UpTo(S, j) = UpTo(S, k)
      BY <1>2, <2>1, FS_Subset
    <3> QED BY <1>2, <2>1, <3>1
  <2> QED BY <2>2
<1>4. rank \in Injection(S, T)
  <2>1. rank \in [S -> T]
    BY <1>2
  <2>2. \A j, k \in S : rank[j] = rank[k] => j = k
    <3> SUFFICES ASSUME NEW j \in S, NEW k \in S, j # k PROVE rank[j] # rank[k]
      OBVIOUS
    <3>1. rank[j] \in Nat /\ rank[k] \in Nat
      BY <1>2
    <3>2. j < k \/ k < j
      OBVIOUS
    <3> HIDE DEF rank
    <3> QED BY <3>1, <3>2, <1>3
  <2> HIDE DEF rank
  <2> QED BY <2>1, <2>2 DEF Injection, IsInjective
<1>5. rank \in Surjection(S, T)
  <2>1. IsFiniteSet(T) /\ Cardinality(T) = Cardinality(S)
    BY <1>1, FS_Interval
  <2> HIDE DEF rank, T
  <2> QED BY <1>4, <2>1, FS_Injection
<1>6. PICK k \in S : rank[k] = n
  <2> HIDE DEF rank
  <2> QED BY <1>5 DEF Surjection
<1> QED BY <1>6

\* Deletion keeps what has another number, and nothing else.
LEMMA WithoutFacts ==
  ASSUME NEW code, Len(code) \in Nat, DOMAIN code = 1 .. Len(code), NEW ids
  PROVE  LET s == Without(code, ids)
         IN  /\ Len(s) \in Nat /\ DOMAIN s = 1 .. Len(s)
             /\ \A n \in DOMAIN s :
                  \E k \in DOMAIN code : s[n] = code[k] /\ code[k].id \notin ids
<1> DEFINE left == {k \in DOMAIN code : code[k].id \notin ids}
           nth(n) == CHOOSE k \in left : Cardinality({j \in left : j <= k}) = n
           m == Cardinality(left)
<1>1. left \in SUBSET (1 .. Len(code)) /\ m \in Nat
  <2>1. IsFiniteSet(1 .. Len(code)) /\ left \subseteq 1 .. Len(code)
    BY FS_Interval
  <2> HIDE DEF left
  <2> QED BY <2>1, FS_Subset, FS_CardinalityType
<1>2. Without(code, ids) = [n \in 1 .. m |-> code[nth(n)]]
  BY DEF Without
<1>3. ASSUME NEW n \in 1 .. m PROVE nth(n) \in left
  <2>1. \E k \in left : Cardinality(UpTo(left, k)) = n
    <3> HIDE DEF left
    <3> QED BY <1>1, Counted
  <2>2. \E k \in left : Cardinality({j \in left : j <= k}) = n
    BY <2>1 DEF UpTo
  <2> HIDE DEF left
  <2> QED BY <2>2
<1>4. Len(Without(code, ids)) = m
  <2> HIDE DEF m, nth
  <2> QED BY <1>1, <1>2
<1>5. \A n \in 1 .. m : nth(n) \in DOMAIN code /\ code[nth(n)].id \notin ids
  BY <1>3
<1> HIDE DEF m, nth
<1> QED BY <1>1, <1>2, <1>4, <1>5

-----------------------------------------------------------------------------
\* The instruction at a place, and what the folder leaves of its form: its
\* fields, its number and, as long as no comparison of floats is folded, its type.
At(f, b, k) == f.code[b][k]
Place(f, b, k) == b \in DOMAIN f.code /\ k \in DOMAIN f.code[b]

Whole(f) ==
  /\ Shaped(f) /\ f.made \in Nat
  /\ f = [code |-> f.code, made |-> f.made]
  /\ \A b, k : Place(f, b, k) =>
       LET i == At(f, b, k) IN i = Instr(i.op, i.type, i.args, i.to, i.id)

Typed(f) ==
  \A b, k : Place(f, b, k) =>
    OperandsFit(At(f, b, k)) /\ Formed(At(f, b, k)) /\ At(f, b, k).op \in Opcodes

\* A value remembered for an address is of the type stored there.
StoresTyped ==
  \A a \in DOMAIN global_value :
    global_value[a].type \in Pointees /\ a.type = PointerTo(global_value[a].type)

\* Comparisons of floats are those the visitor made.
Originals ==
  \A b, k : Place(fn, b, k) /\ At(fn, b, k).op \in FComparisons =>
    \E d \in DOMAIN given : \E i \in Range(given[d]) :
      i.op \in FComparisons /\ i.id = At(fn, b, k).id

\* One of them is folded: only to be deleted is anything of its number.
Outgoing ==
  \E d \in DOMAIN given : \E i \in Range(given[d]) :
    /\ i.op \in FComparisons /\ i.id \in 1 .. fn.made
    /\ \A b, k : Place(fn, b, k) /\ At(fn, b, k).id = i.id => b = at /\ i.id \in wait_delete

FoldInv ==
  \/ pass = "idle" /\ Inv /\ global_value = <<>>
  \/ /\ pass # "idle" /\ Visited /\ at \in Nat /\ pos \in Nat
     /\ pass = "fold" => at # 0 /\ pos # 0
     /\ pass = "done" => at = 0
     /\ Whole(fn) /\ Numbered(fn) /\ Originals
     /\ Outgoing \/ (Typed(fn) /\ StoresTyped)

LEMMA PlaceFacts ==
  \A f, b, k : Place(f, b, k) <=> b \in DOMAIN f.code /\ k \in DOMAIN f.code[b]
  BY DEF Place

LEMMA NumberedFacts ==
  ASSUME NEW f
  PROVE  Numbered(f) <=>
           \A b, d, k, j : Place(f, b, k) /\ Place(f, d, j) =>
             /\ At(f, b, k).id \in 1 .. f.made
             /\ At(f, b, k).id = At(f, d, j).id => b = d
  BY DEF Numbered, Place, At

\* The visitor's code is such.
LEMMA CodeWhole ==
  ASSUME NEW f \in Code PROVE Whole(f) /\ Typed(f) /\ Numbered(f)
<1>1. f = [code |-> f.code, made |-> f.made] /\ Numbered(f) /\ f.made \in Nat
  BY CodeForm, CodeFacts
<1>2. ASSUME NEW b, NEW k, Place(f, b, k) PROVE At(f, b, k) \in Fit
  <2>1. f.code \in Seq(Seq(Fit))
    BY CodeFacts
  <2>2. f.code[b] \in Seq(Fit)
    BY <1>2, <2>1 DEF Place
  <2> QED BY <1>2, <2>2 DEF Place, At
<1>3. Typed(f)
  BY <1>2 DEF Typed, Fit, Instruction
<1>4. \A i \in Fit : i = Instr(i.op, i.type, i.args, i.to, i.id)
  BY DEF Fit, Instruction, Instr
<1>5. Shaped(f)
  BY CodeShaped
<1> QED BY <1>1, <1>2, <1>3, <1>4, <1>5 DEF Whole

\* A visited function is not visited again.
LEMMA VisitedOnce ==
  ASSUME Visited PROVE ~ExpressionsStep
<1>1. functions = CurrentFunction /\ visits = <<>> /\ functions \in Nat /\ functions > 1
  BY SignatureFacts DEF Visited
<1>2. ~EnterGlobal /\ ~DeclareFunction /\ ~VarDeclaration /\ ~FunDeclaration
  BY <1>1 DEF EnterGlobal, DeclareFunction, VarDeclaration, FunDeclaration, InVisit
<1>3. ~(EnterFunction \/ Parameter \/ EndFunDeclaration \/ EnterCompoundStmt
        \/ NextStatement \/ LeaveCompoundStmt \/ ExpressionStmt \/ SelectionStmt
        \/ BranchSelection \/ EndThen \/ ReturnStmt \/ EndReturnStmt)
  BY <1>1 DEF EnterFunction, Parameter, EndFunDeclaration, EnterCompoundStmt, NextStatement,
        LeaveCompoundStmt, ExpressionStmt, SelectionStmt, BranchSelection, EndThen,
        ReturnStmt, EndReturnStmt, InVisit
<1>4. ~(Num \/ Var \/ IndexedVar \/ EndIndex \/ AssignExpression \/ AssignTarget \/ EndAssign
        \/ BinaryExpression \/ RightOperand \/ EndBinary \/ CallFunction \/ NextArgument
        \/ EndArgument \/ EndCall)
  <2>1. ~WantsNumber /\ \A v : ~InVisit(v)
    BY <1>1 DEF WantsNumber, InVisit
  <2>2. ~Var
    BY <1>1 DEF Var, Wanted, WantsNumber, InVisit
  <2> QED BY <2>1, <2>2 DEF Num, IndexedVar, EndIndex, AssignExpression, AssignTarget,
            EndAssign, BinaryExpression, RightOperand, EndBinary, CallFunction, NextArgument,
            EndArgument, EndCall
<1> QED BY <1>2, <1>3, <1>4 DEF ExpressionsStep

-----------------------------------------------------------------------------
ReplacedIn(f, i, v) == [f EXCEPT !.code = Replaced(@, i, v)]
Substituted(args, i, v) == [n \in DOMAIN args |-> IF args[n] = Result(i.type, i.id) THEN v ELSE args[n]]

\* What replace_all_use_with does to each instruction.
LEMMA ReplacedFacts ==
  ASSUME NEW f, Whole(f), NEW i, NEW v, NEW g, g = ReplacedIn(f, i, v)
  PROVE  /\ Whole(g) /\ g.made = f.made
         /\ \A b, k : Place(g, b, k) <=> Place(f, b, k)
         /\ \A b, k : Place(f, b, k) =>
              /\ At(g, b, k).op = At(f, b, k).op /\ At(g, b, k).type = At(f, b, k).type
              /\ At(g, b, k).to = At(f, b, k).to /\ At(g, b, k).id = At(f, b, k).id
              /\ At(g, b, k).args = Substituted(At(f, b, k).args, i, v)
<1> DEFINE code == Replaced(f.code, i, v)
<1>1. g = [code |-> code, made |-> f.made] /\ f.made \in Nat
  BY DEF Whole, ReplacedIn
<1>2. Shaped(f)
  BY DEF Whole
<1>3. /\ DOMAIN code = DOMAIN f.code
      /\ \A b \in DOMAIN f.code : code[b] = [k \in DOMAIN f.code[b] |->
           [f.code[b][k] EXCEPT !.args = Substituted(@, i, v)]]
  BY DEF Replaced, Substituted
<1> HIDE DEF code
<1>4. ASSUME NEW b \in DOMAIN f.code
      PROVE  /\ DOMAIN code[b] = 1 .. Len(f.code[b]) /\ Len(code[b]) = Len(f.code[b])
             /\ \A k \in DOMAIN code[b] :
                  code[b][k] = [f.code[b][k] EXCEPT !.args = Substituted(@, i, v)]
  <2> DEFINE h == [k \in DOMAIN f.code[b] |-> [f.code[b][k] EXCEPT !.args = Substituted(@, i, v)]]
             n == Len(f.code[b])
  <2>1. DOMAIN f.code[b] = 1 .. n /\ n \in Nat
    BY <1>2 DEF Shaped
  <2>2. code[b] = h
    BY <1>3
  <2>3. Len(h) = n
    <3>1. h = [k \in 1 .. n |-> h[k]]
      BY <2>1
    <3> HIDE DEF h, n
    <3> QED BY <2>1, <3>1
  <2> QED BY <2>1, <2>2, <2>3
<1>5. Shaped(g)
  <2>1. Len(code) = Len(f.code) /\ DOMAIN code = 1 .. Len(f.code) /\ Len(f.code) \in Nat
    <3>1. Len(f.code) \in Nat /\ DOMAIN f.code = 1 .. Len(f.code)
      BY <1>2 DEF Shaped
    <3>2. code = [b \in 1 .. Len(f.code) |-> code[b]]
      BY <3>1 DEF code, Replaced
    <3> QED BY <3>1, <3>2
  <2>2. g.code = code
    BY <1>1
  <2> QED BY <2>1, <2>2, <1>2, <1>3, <1>4 DEF Shaped
<1>6. \A b, k : Place(g, b, k) <=> Place(f, b, k)
  <2>1. g.code = code
    BY <1>1
  <2> QED BY <2>1, <1>2, <1>3, <1>4 DEF Place, Shaped
<1>7. ASSUME NEW b, NEW k, Place(f, b, k)
      PROVE  LET j == At(f, b, k)
             IN  At(g, b, k) = Instr(j.op, j.type, Substituted(j.args, i, v), j.to, j.id)
  <2>1. At(f, b, k) = Instr(At(f, b, k).op, At(f, b, k).type, At(f, b, k).args,
                            At(f, b, k).to, At(f, b, k).id)
    BY <1>7 DEF Whole
  <2>2. At(g, b, k) = [At(f, b, k) EXCEPT !.args = Substituted(@, i, v)]
    BY <1>1, <1>4, <1>6, <1>7 DEF Place, At
  <2> QED BY <2>1, <2>2 DEF Instr
<1>8. Whole(g)
  <2>1. \A b, k : Place(g, b, k) =>
          LET j == At(g, b, k) IN j = Instr(j.op, j.type, j.args, j.to, j.id)
    <3>1. \A a, c, d, m, n : LET j == Instr(a, c, d, m, n)
                             IN  j = Instr(j.op, j.type, j.args, j.to, j.id)
      BY DEF Instr
    <3> QED BY <1>6, <1>7, <3>1
  <2>2. g = [code |-> g.code, made |-> g.made] /\ g.made \in Nat
    BY <1>1
  <2> QED BY <1>5, <2>1, <2>2 DEF Whole
<1>9. g.made = f.made
  BY <1>1
<1>10. \A b, k : Place(f, b, k) =>
         /\ At(g, b, k).op = At(f, b, k).op /\ At(g, b, k).type = At(f, b, k).type
         /\ At(g, b, k).to = At(f, b, k).to /\ At(g, b, k).id = At(f, b, k).id
         /\ At(g, b, k).args = Substituted(At(f, b, k).args, i, v)
  <2>1. \A a, c, d, m, n : LET j == Instr(a, c, d, m, n)
                           IN  j.op = a /\ j.type = c /\ j.args = d /\ j.to = m /\ j.id = n
    BY DEF Instr
  <2> QED BY <1>7, <2>1
<1>11. Whole(g) /\ g.made = f.made /\ \A b, k : Place(g, b, k) <=> Place(f, b, k)
  BY <1>6, <1>8, <1>9
<1> QED BY <1>10, <1>11

\* A value of the type of the result in its place leaves the types as they are.
LEMMA SubstitutedTypes ==
  ASSUME NEW args, NEW i, NEW v, v.type = i.type
  PROVE  /\ Types(Substituted(args, i, v)) = Types(args)
         /\ DOMAIN Substituted(args, i, v) = DOMAIN args
         /\ \A n \in DOMAIN args : Substituted(args, i, v)[n].type = args[n].type
         /\ \A n \in DOMAIN args : args[n].kind # "instr" => Substituted(args, i, v)[n] = args[n]
<1>1. Result(i.type, i.id).type = i.type /\ Result(i.type, i.id).kind = "instr"
  BY DEF Result
<1>2. DOMAIN Substituted(args, i, v) = DOMAIN args
  BY DEF Substituted
<1>3. ASSUME NEW n \in DOMAIN args
      PROVE  /\ Substituted(args, i, v)[n].type = args[n].type
             /\ args[n].kind # "instr" => Substituted(args, i, v)[n] = args[n]
  BY <1>1 DEF Substituted
<1>4. Types(Substituted(args, i, v)) = Types(args)
  BY <1>2, <1>3 DEF Types
<1> QED BY <1>2, <1>3, <1>4

LEMMA ReplacedTyped ==
  ASSUME NEW f, Whole(f), Typed(f), NEW i, NEW v, v.type = i.type,
         NEW g, g = ReplacedIn(f, i, v)
  PROVE  Typed(g)
<1>1. ASSUME NEW b, NEW k, Place(g, b, k) 
      PROVE  /\ OperandsFit(At(g, b, k)) /\ Formed(At(g, b, k))
             /\ At(g, b, k).op \in Opcodes
  <2> DEFINE j == At(f, b, k)
             n == At(g, b, k)
  <2>1. /\ Place(f, b, k)
        /\ n.op = j.op /\ n.type = j.type /\ n.to = j.to
        /\ n.args = Substituted(j.args, i, v)
    <3>1. Place(f, b, k)
      BY <1>1, ReplacedFacts
    <3>2. \A c, m : Place(f, c, m) =>
            /\ At(g, c, m).op = At(f, c, m).op /\ At(g, c, m).type = At(f, c, m).type
            /\ At(g, c, m).to = At(f, c, m).to
            /\ At(g, c, m).args = Substituted(At(f, c, m).args, i, v)
      BY ReplacedFacts
    <3> QED BY <3>1, <3>2
  <2>2. OperandsFit(j) /\ Formed(j)
    BY <2>1 DEF Typed
  <2>0. n.op \in Opcodes
    BY <2>1 DEF Typed
  <2>3. /\ Types(n.args) = Types(j.args) /\ DOMAIN n.args = DOMAIN j.args
        /\ \A m \in DOMAIN j.args : n.args[m].type = j.args[m].type
        /\ \A m \in DOMAIN j.args : j.args[m].kind # "instr" => n.args[m] = j.args[m]
    BY <2>1, SubstitutedTypes
  <2> HIDE DEF n, j
  <2>4. Formed(n)
    BY <2>1, <2>2, <2>3 DEF Formed
  <2>5. n.op = "call" => n.args[1] = j.args[1]
    BY <2>1, <2>2, <2>3 DEF Formed
  <2>6. OperandsFit(n)
    <3>1. CASE n.op = "call"
      BY <3>1, <2>1, <2>2, <2>3, <2>5, Operations DEF OperandsFit, Arithmetic, Comparisons
    <3>2. CASE n.op # "call"
      <4> DEFINE t == Types(j.args)
      <4>1. CASE n.op \in Arithmetic \cup Comparisons \cup FArithmetic \cup FComparisons
        BY <4>1, <2>1, <2>2, <2>3, Operations DEF OperandsFit, Arithmetic, Comparisons
      <4>2. CASE n.op \in {"zext", "sitofp", "fptosi", "alloca", "load", "store", "gep"}
        <5>1. CASE n.op = "zext"
          BY <5>1, <2>1, <2>2, <2>3, Operations DEF OperandsFit, Arithmetic, Comparisons
        <5>2. CASE n.op = "sitofp"
          BY <5>2, <2>1, <2>2, <2>3, Operations DEF OperandsFit, Arithmetic, Comparisons
        <5>3. CASE n.op = "fptosi"
          BY <5>3, <2>1, <2>2, <2>3, Operations DEF OperandsFit, Arithmetic, Comparisons
        <5>4. CASE n.op = "alloca"
          BY <5>4, <2>1, <2>2, <2>3, Operations DEF OperandsFit, Arithmetic, Comparisons
        <5>5. CASE n.op = "load"
          BY <5>5, <2>1, <2>2, <2>3, Operations DEF OperandsFit, Arithmetic, Comparisons
        <5>6. CASE n.op = "store"
          BY <5>6, <2>1, <2>2, <2>3, Operations DEF OperandsFit, Arithmetic, Comparisons
        <5>7. CASE n.op = "gep"
          BY <5>7, <2>1, <2>2, <2>3, Operations DEF OperandsFit, Arithmetic, Comparisons
        <5> QED BY <4>2, <5>1, <5>2, <5>3, <5>4, <5>5, <5>6, <5>7
      <4>3. CASE n.op \in {"br", "ret"}
        BY <4>3, <2>1, <2>2, <2>3, Operations DEF OperandsFit, Arithmetic, Comparisons
      <4> QED BY <4>1, <4>2, <4>3, <3>2, <2>0 DEF Opcodes, Casts, Effects
    <3> QED BY <3>1, <3>2
  <2> QED BY <2>0, <2>4, <2>6 DEF n
<1> QED BY <1>1 DEF Typed

\* What the folder puts in for a result has its type, but for comparisons of
\* floats.
LEMMA ReplacementTyped ==
  ASSUME NEW i, OperandsFit(i), Formed(i), StoresTyped, i.op \in Opcodes,
         i.op \notin FComparisons, Replacement(i) # NoValue
  PROVE  Replacement(i).type = i.type
<1>1. \A t, n : Constant(t, n).type = t
  BY DEF Constant
<1>2. CASE i.op \in Arithmetic \cup Comparisons
  <2>1. Replacement(i) = ComputeInt(i.op, i.args[1].id, i.args[2].id)
    BY <1>2, Operations DEF Replacement, Arithmetic, Comparisons
  <2>2. i.type = IF i.op \in Arithmetic THEN "i32" ELSE "i1"
    BY <1>2 DEF Formed, Arithmetic, Comparisons
  <2> QED BY <1>1, <2>1, <2>2 DEF ComputeInt
<1>3. CASE i.op \in FArithmetic
  <2>1. Replacement(i) = ComputeFloat(IntOp(i.op), i.args[1].id, i.args[2].id)
    BY <1>3, Operations DEF Replacement, Arithmetic, Comparisons
  <2> QED BY <1>1, <1>3, <2>1 DEF ComputeFloat, Formed
<1>4. CASE i.op = "fptosi"
  <2>1. Replacement(i) = Truncated(i.args[1])
    BY <1>4, Operations DEF Replacement, Arithmetic, Comparisons
  <2> QED BY <1>1, <1>4, <2>1 DEF Truncated, Formed
<1>5. CASE i.op = "sitofp"
  <2>1. Replacement(i) = Constant("float", 2 * i.args[1].id)
    BY <1>5, Operations DEF Replacement, Arithmetic, Comparisons
  <2> QED BY <1>1, <1>5, <2>1 DEF Formed
<1>6. CASE i.op = "zext"
  <2>1. Replacement(i) = Constant("i32", i.args[1].id)
    BY <1>6, Operations DEF Replacement, Arithmetic, Comparisons
  <2> QED BY <1>1, <1>6, <2>1 DEF Formed
<1>7. CASE i.op = "load"
  <2> DEFINE a == i.args[1]
  <2>1. a \in DOMAIN global_value /\ Replacement(i) = global_value[a]
    BY <1>7, Operations DEF Replacement, Arithmetic, Comparisons
  <2>2. PointerTo(i.type) = a.type /\ i.type \in Pointees
    <3>1. Types(i.args)[1] = a.type
      BY <1>7 DEF Formed, Types
    <3>2. PointerTo(i.type) = Types(i.args)[1]
      BY <1>7, Operations DEF OperandsFit, Arithmetic, Comparisons
    <3> QED BY <1>7, <3>1, <3>2 DEF Formed
  <2>3. /\ global_value[a].type \in Pointees
        /\ PointerTo(global_value[a].type) = PointerTo(i.type)
    BY <2>1, <2>2 DEF StoresTyped
  <2> HIDE DEF a
  <2> QED BY <2>1, <2>2, <2>3, TypeFacts
<1>8. CASE i.op \in {"alloca", "store", "gep", "call", "br", "ret"}
  <2>1. Replacement(i) = NoValue
    BY <1>8, Operations DEF Replacement, Arithmetic, Comparisons
  <2> QED BY <2>1
<1> QED BY <1>2, <1>3, <1>4, <1>5, <1>6, <1>7, <1>8 DEF Opcodes, Casts, Effects

-----------------------------------------------------------------------------
\* The steps of the folder.

LEMMA FoldInvFacts ==
  ASSUME FoldInv, pass = "fold"
  PROVE  /\ Visited /\ at \in Nat \ {0} /\ pos \in Nat \ {0}
         /\ Whole(fn) /\ Numbered(fn) /\ Originals
         /\ Outgoing \/ (Typed(fn) /\ StoresTyped)
  BY DEF FoldInv

LEMMA CurrentPlace ==
  ASSUME FoldInv, InBlock
  PROVE  Place(fn, at, pos) /\ Current = At(fn, at, pos)
<1>1. /\ at \in Nat \ {0} /\ pos \in Nat \ {0} /\ Shaped(fn)
      /\ at <= Len(fn.code) /\ pos <= Len(fn.code[at])
  BY FoldInvFacts DEF InBlock, Whole
<1>2. at \in DOMAIN fn.code
  BY <1>1 DEF Shaped
<1>3. pos \in DOMAIN fn.code[at]
  BY <1>1, <1>2 DEF Shaped
<1> QED BY <1>2, <1>3 DEF Place, At, Current

LEMMA StartFoldingInv ==
  ASSUME FoldInv, StartFolding PROVE FoldInv'
<1>1. /\ pass = "idle" /\ Inv /\ Visited /\ global_value = <<>>
      /\ pass' = "fold" /\ given' = fn.code /\ at' = 1 /\ pos' = 1
      /\ fn' = fn /\ functions' = functions /\ visits' = visits
      /\ global_value' = global_value
  BY DEF StartFolding, FoldInv, expressionsVars
<1>2. Visited' /\ at' \in Nat \ {0} /\ pos' \in Nat \ {0}
  BY <1>1 DEF Visited
<1>3. Whole(fn') /\ Typed(fn') /\ Numbered(fn')
  BY <1>1, CodeWhole DEF Inv
<1>4. StoresTyped'
  BY <1>1 DEF StoresTyped
<1>5. Originals'
  BY <1>1 DEF Originals, Place, At, Range
<1> QED BY <1>1, <1>2, <1>3, <1>4, <1>5 DEF FoldInv

LEMMA FoldStoreInv ==
  ASSUME FoldInv, FoldStore PROVE FoldInv'
<1>1. /\ pass = "fold" /\ pass' = "fold" /\ fn' = fn /\ given' = given /\ at' = at
      /\ wait_delete' = wait_delete /\ pos' = pos + 1
      /\ functions' = functions /\ visits' = visits
      /\ at <= Len(fn.code) /\ pos <= Len(fn.code[at]) /\ Current.op = "store"
      /\ global_value' = Remembered(Current.args[2], Current.args[1])
  BY DEF FoldStore, InBlock, NextInstr, FolderVars
<1>2. /\ Visited' /\ Whole(fn') /\ Numbered(fn') /\ Originals'
      /\ Outgoing => Outgoing'
      /\ at' \in Nat \ {0} /\ pos' \in Nat \ {0}
  BY <1>1, FoldInvFacts DEF Visited, Originals, Outgoing
<1>3. ASSUME Typed(fn), StoresTyped PROVE StoresTyped'
  <2> DEFINE i == Current
             a == i.args[2]
             v == i.args[1]
  <2>1. OperandsFit(i) /\ Formed(i) /\ i.op = "store"
    BY <1>1, <1>3, CurrentPlace DEF InBlock, Typed
  <2>2. a.type = PointerTo(v.type) /\ v.type \in Pointees
    <3>1. Types(i.args)[2] = a.type /\ Types(i.args)[1] = v.type
      BY <2>1 DEF Formed, Types
    <3>2. Types(i.args)[2] = PointerTo(Types(i.args)[1])
      BY <2>1, Operations DEF OperandsFit, Arithmetic, Comparisons
    <3> QED BY <2>1, <3>1, <3>2 DEF Formed
  <2>3. global_value' = Remembered(a, v)
    BY <1>1
  <2> HIDE DEF a, v, i
  <2> QED BY <1>3, <2>2, <2>3 DEF StoresTyped, Remembered
<1>4. Typed(fn) => Typed(fn')
  BY <1>1
<1> QED BY <1>1, <1>2, <1>3, <1>4, FoldInvFacts DEF FoldInv

LEMMA FoldInstrInv ==
  ASSUME FoldInv, FoldInstr PROVE FoldInv'
<1> DEFINE i == Current
           v == Replacement(i)
           g == ReplacedIn(fn, i, v)
<1>1. /\ pass = "fold" /\ pass' = "fold" /\ given' = given /\ at' = at /\ pos' = pos + 1
      /\ functions' = functions /\ visits' = visits /\ global_value' = global_value
      /\ InBlock
      /\ \/ v = NoValue /\ fn' = fn /\ wait_delete' = wait_delete
         \/ v # NoValue /\ fn' = g /\ wait_delete' = wait_delete \cup {i.id}
  BY DEF FoldInstr, NextInstr, FolderVars, InBlock, ReplacedIn
<1>2. Place(fn, at, pos) /\ i = At(fn, at, pos)
  BY <1>1, CurrentPlace
<1>3. /\ Visited /\ at \in Nat \ {0} /\ pos \in Nat \ {0}
      /\ Whole(fn) /\ Numbered(fn) /\ Originals
      /\ Outgoing \/ (Typed(fn) /\ StoresTyped)
  BY <1>1, FoldInvFacts
<1>4. Visited' /\ at' \in Nat \ {0} /\ pos' \in Nat \ {0}
  BY <1>1, <1>3 DEF Visited
<1> HIDE DEF i, v
<1>5. /\ Whole(fn') /\ fn'.made = fn.made
      /\ \A b, k : Place(fn', b, k) <=> Place(fn, b, k)
      /\ \A b, k : Place(fn, b, k) => At(fn', b, k).op = At(fn, b, k).op
                                    /\ At(fn', b, k).id = At(fn, b, k).id
  <2>1. CASE fn' = fn
    BY <2>1, <1>3
  <2>2. CASE fn' = g
    <3>1. Whole(fn)
      BY <1>3
    <3> QED BY <2>2, <3>1, ReplacedFacts
  <2> QED BY <1>1, <2>1, <2>2
<1>6. Numbered(fn')
  <2>1. \A b, d, k, j : Place(fn, b, k) /\ Place(fn, d, j) =>
          /\ At(fn, b, k).id \in 1 .. fn.made
          /\ At(fn, b, k).id = At(fn, d, j).id => b = d
    BY <1>3, NumberedFacts
  <2>2. \A b, d, k, j : Place(fn', b, k) /\ Place(fn', d, j) =>
          /\ At(fn', b, k).id \in 1 .. fn'.made
          /\ At(fn', b, k).id = At(fn', d, j).id => b = d
    BY <1>5, <2>1
  <2> QED BY <2>2, NumberedFacts
<1>7. Originals'
  BY <1>1, <1>3, <1>5 DEF Originals
<1>8. ASSUME Outgoing PROVE Outgoing'
  <2>1. PICK d \in DOMAIN given : \E j \in Range(given[d]) :
          /\ j.op \in FComparisons /\ j.id \in 1 .. fn.made
          /\ \A b, k : Place(fn, b, k) /\ At(fn, b, k).id = j.id => b = at /\ j.id \in wait_delete
    BY <1>8 DEF Outgoing
  <2>2. PICK j \in Range(given[d]) :
          /\ j.op \in FComparisons /\ j.id \in 1 .. fn.made
          /\ \A b, k : Place(fn, b, k) /\ At(fn, b, k).id = j.id => b = at /\ j.id \in wait_delete
    BY <2>1
  <2>3. \A b, k : Place(fn', b, k) /\ At(fn', b, k).id = j.id => b = at' /\ j.id \in wait_delete'
    BY <1>1, <1>5, <2>2
  <2> QED BY <1>1, <1>5, <2>2, <2>3 DEF Outgoing
<1>9. ASSUME Typed(fn), StoresTyped, i.op \notin FComparisons
      PROVE  Typed(fn') /\ StoresTyped'
  <2>1. CASE fn' = fn
    BY <1>1, <1>9, <2>1 DEF StoresTyped
  <2>2. CASE v # NoValue /\ fn' = g
    <3>1. OperandsFit(i) /\ Formed(i) /\ i.op \in Opcodes
      BY <1>2, <1>9 DEF Typed
    <3>2. v.type = i.type
      BY <1>9, <2>2, <3>1, ReplacementTyped DEF v
    <3> QED BY <1>1, <1>3, <1>9, <2>2, <3>2, ReplacedTyped DEF StoresTyped
  <2> QED BY <1>1, <2>1, <2>2
<1>10. ASSUME i.op \in FComparisons, fn' # fn PROVE Outgoing'
  <2>1. PICK d \in DOMAIN given : \E j \in Range(given[d]) : j.op \in FComparisons /\ j.id = i.id
    BY <1>2, <1>3, <1>10 DEF Originals
  <2>2. PICK j \in Range(given[d]) : j.op \in FComparisons /\ j.id = i.id
    BY <2>1
  <2>3. j.id \in 1 .. fn'.made /\ j.id \in wait_delete'
    BY <1>1, <1>2, <1>3, <1>5, <1>10, <2>2, NumberedFacts
  <2>4. ASSUME NEW b, NEW k, Place(fn', b, k), At(fn', b, k).id = j.id PROVE b = at'
    BY <1>1, <1>2, <1>3, <1>5, <2>2, <2>4, NumberedFacts
  <2> QED BY <1>1, <2>2, <2>3, <2>4 DEF Outgoing
<1>11. Outgoing' \/ (Typed(fn') /\ StoresTyped')
  <2>1. CASE fn' = fn
    BY <1>1, <1>3, <1>8, <2>1 DEF StoresTyped
  <2> QED BY <1>3, <1>8, <1>9, <1>10, <2>1
<1> QED BY <1>1, <1>4, <1>5, <1>6, <1>7, <1>11 DEF FoldInv

\* The br that a constant condition leaves.
LEMMA BranchWhole ==
  ASSUME NEW f, Whole(f), Numbered(f), NEW b \in DOMAIN f.code, NEW t
  PROVE  LET g == CreateBr(f, b, t)
         IN  /\ Whole(g) /\ Numbered(g) /\ g.made = f.made + 1
             /\ Typed(f) => Typed(g)
             /\ \A c, k : Place(g, c, k) =>
                  \/ Place(f, c, k) /\ At(g, c, k) = At(f, c, k)
                  \/ c = b /\ At(g, c, k).op = "br" /\ At(g, c, k).id = f.made + 1
<1> DEFINE g == CreateBr(f, b, t)
           i == Instr("br", "void", <<>>, <<t>>, f.made + 1)
           n == Len(f.code[b])
<1>1. /\ Shaped(g) /\ DOMAIN g.code = DOMAIN f.code
      /\ \A d \in DOMAIN f.code \ {b} : g.code[d] = f.code[d]
      /\ Len(g.code[b]) = n + 1
      /\ \A k \in 1 .. n : g.code[b][k] = f.code[b][k]
      /\ g.code[b][n + 1] = i
  BY EmittedCode DEF CreateBr, Whole
<1>2. g = [code |-> g.code, made |-> f.made + 1] /\ f.made \in Nat /\ g.made = f.made + 1
  BY DEF CreateBr, Emit, Whole
<1> HIDE DEF g
<1>3. n \in Nat /\ DOMAIN f.code[b] = 1 .. n /\ DOMAIN g.code[b] = 1 .. n + 1
  BY <1>1 DEF Whole, Shaped
<1> HIDE DEF n, i
<1>4. ASSUME NEW c, NEW k, Place(g, c, k)
      PROVE  \/ Place(f, c, k) /\ At(g, c, k) = At(f, c, k)
             \/ c = b /\ At(g, c, k) = i
  <2>1. CASE c # b
    BY <1>1, <1>4, <2>1 DEF Place, At
  <2>2. CASE c = b
    <3>1. k \in 1 .. n \/ k = n + 1
      BY <1>3, <1>4, <2>2 DEF Place
    <3> QED BY <1>1, <1>3, <2>2, <3>1 DEF Place, At
  <2> QED BY <2>1, <2>2
<1>5. /\ i = Instr(i.op, i.type, i.args, i.to, i.id) /\ i.op = "br" /\ i.id = f.made + 1
      /\ i.args = <<>> /\ Len(i.to) = 1
  BY DEF i, Instr
<1>6. Whole(g)
  <2>1. \A c, k : Place(g, c, k) =>
          LET j == At(g, c, k) IN j = Instr(j.op, j.type, j.args, j.to, j.id)
    BY <1>4, <1>5 DEF Whole
  <2> QED BY <1>1, <1>2, <2>1 DEF Whole
<1>7. Numbered(g)
  <2>1. \A c, d, k, j : Place(f, c, k) /\ Place(f, d, j) =>
          /\ At(f, c, k).id \in 1 .. f.made
          /\ At(f, c, k).id = At(f, d, j).id => c = d
    BY NumberedFacts
  <2>2. /\ f.made + 1 \notin 1 .. f.made /\ f.made + 1 \in 1 .. g.made
        /\ 1 .. f.made \subseteq 1 .. g.made
    BY <1>2
  <2>3. ASSUME NEW c, NEW d, NEW k, NEW j, Place(g, c, k), Place(g, d, j)
        PROVE  /\ At(g, c, k).id \in 1 .. g.made
               /\ At(g, c, k).id = At(g, d, j).id => c = d
    <3>1. /\ (Place(f, c, k) /\ At(g, c, k) = At(f, c, k)) \/ (c = b /\ At(g, c, k) = i)
          /\ (Place(f, d, j) /\ At(g, d, j) = At(f, d, j)) \/ (d = b /\ At(g, d, j) = i)
      BY <1>4, <2>3
    <3> QED BY <1>5, <2>1, <2>2, <3>1
  <2> QED BY <2>3, NumberedFacts
<1>8. ASSUME Typed(f) PROVE Typed(g)
  <2>1. Types(i.args) = <<>>
    BY <1>5 DEF Types
  <2>2. OperandsFit(i) /\ Formed(i) /\ i.op \in Opcodes
    BY <1>5, <2>1, Operations
       DEF OperandsFit, Formed, Arithmetic, Comparisons, Opcodes, Effects
  <2> QED BY <1>4, <1>8, <2>2 DEF Typed
<1>9. \A c, k : Place(g, c, k) =>
        \/ Place(f, c, k) /\ At(g, c, k) = At(f, c, k)
        \/ c = b /\ At(g, c, k).op = "br" /\ At(g, c, k).id = f.made + 1
  BY <1>4, <1>5
<1> QED BY <1>2, <1>6, <1>7, <1>8, <1>9 DEF g

\* What stays of a comparison on its way out, when the blocks keep their
\* instructions or lose some, and get none of its number.
LEMMA OutgoingKept ==
  ASSUME Outgoing, given' = given, fn'.made >= fn.made, fn.made \in Nat, fn'.made \in Nat,
         at' = at, wait_delete \subseteq wait_delete',
         \A b, k : Place(fn', b, k) =>
           \/ \E j : Place(fn, b, j) /\ At(fn', b, k).id = At(fn, b, j).id
           \/ At(fn', b, k).id > fn.made
  PROVE  Outgoing'
<1>1. PICK d \in DOMAIN given : \E j \in Range(given[d]) :
        /\ j.op \in FComparisons /\ j.id \in 1 .. fn.made
        /\ \A b, k : Place(fn, b, k) /\ At(fn, b, k).id = j.id => b = at /\ j.id \in wait_delete
  BY DEF Outgoing
<1>2. PICK j \in Range(given[d]) :
        /\ j.op \in FComparisons /\ j.id \in 1 .. fn.made
        /\ \A b, k : Place(fn, b, k) /\ At(fn, b, k).id = j.id => b = at /\ j.id \in wait_delete
  BY <1>1
<1>3. j.id \in 1 .. fn'.made /\ ~(j.id > fn.made)
  BY <1>2
<1>4. \A b, k : Place(fn', b, k) /\ At(fn', b, k).id = j.id => b = at' /\ j.id \in wait_delete'
  BY <1>2, <1>3
<1> QED BY <1>2, <1>3, <1>4 DEF Outgoing

LEMMA FoldBranchInv ==
  ASSUME FoldInv, FoldBranch PROVE FoldInv'
<1>1. /\ pass = "fold" /\ pass' = "fold" /\ given' = given /\ at' = at /\ pos' = pos + 1
      /\ functions' = functions /\ visits' = visits /\ global_value' = global_value
      /\ InBlock /\ wait_delete \subseteq wait_delete'
      /\ fn' = fn \/ \E t : fn' = CreateBr(fn, at, t)
  BY DEF FoldBranch, NextInstr, FolderVars, InBlock
<1>2. /\ Visited /\ at \in Nat \ {0} /\ pos \in Nat \ {0}
      /\ Whole(fn) /\ Numbered(fn) /\ Originals
      /\ Outgoing \/ (Typed(fn) /\ StoresTyped)
  BY <1>1, FoldInvFacts
<1>3. Visited' /\ at' \in Nat \ {0} /\ pos' \in Nat \ {0} /\ (StoresTyped => StoresTyped')
  BY <1>1, <1>2 DEF Visited, StoresTyped
<1>4. at \in DOMAIN fn.code /\ fn.made \in Nat
  BY <1>1, <1>2, CurrentPlace DEF Place, Whole
<1>5. CASE fn' = fn
  <2>1. Originals'
    BY <1>1, <1>2, <1>5 DEF Originals
  <2>2. Outgoing => Outgoing'
    BY <1>1, <1>4, <1>5, OutgoingKept
  <2> QED BY <1>1, <1>2, <1>3, <1>5, <2>1, <2>2 DEF FoldInv
<1>6. CASE \E t : fn' = CreateBr(fn, at, t)
  <2>1. PICK t : fn' = CreateBr(fn, at, t)
    BY <1>6
  <2>2. /\ Whole(fn') /\ Numbered(fn') /\ fn'.made = fn.made + 1
        /\ Typed(fn) => Typed(fn')
        /\ \A c, k : Place(fn', c, k) =>
             \/ Place(fn, c, k) /\ At(fn', c, k) = At(fn, c, k)
             \/ c = at /\ At(fn', c, k).op = "br" /\ At(fn', c, k).id = fn.made + 1
    BY <1>2, <1>4, <2>1, BranchWhole
  <2>3. Originals'
    BY <1>1, <1>2, <2>2, Operations DEF Originals
  <2>4. Outgoing => Outgoing'
    <3>1. fn.made + 1 > fn.made /\ fn'.made \in Nat /\ fn'.made >= fn.made
      BY <1>4, <2>2
    <3> QED BY <1>1, <1>4, <2>2, <3>1, OutgoingKept
  <2> QED BY <1>1, <1>2, <1>3, <2>2, <2>3, <2>4 DEF FoldInv
<1> QED BY <1>1, <1>5, <1>6

LEMMA EndBlockInv ==
  ASSUME FoldInv, EndBlock PROVE FoldInv'
<1> DEFINE s == Without(fn.code[at], wait_delete)
<1>1. /\ pass = "fold" /\ pass' = "fold" /\ given' = given /\ at' = at + 1 /\ pos' = 1
      /\ functions' = functions /\ visits' = visits /\ global_value' = <<>>
      /\ at <= Len(fn.code) /\ fn' = [fn EXCEPT !.code[at] = s]
  BY DEF EndBlock, FolderVars
<1>2. /\ Visited /\ at \in Nat \ {0}
      /\ Whole(fn) /\ Numbered(fn) /\ Originals
      /\ Outgoing \/ (Typed(fn) /\ StoresTyped)
  BY <1>1, FoldInvFacts
<1>3. Visited' /\ at' \in Nat \ {0} /\ pos' \in Nat \ {0} /\ StoresTyped'
  BY <1>1, <1>2 DEF Visited, StoresTyped
<1>4. /\ at \in DOMAIN fn.code /\ fn.made \in Nat
      /\ Len(fn.code[at]) \in Nat /\ DOMAIN fn.code[at] = 1 .. Len(fn.code[at])
  BY <1>1, <1>2 DEF Whole, Shaped
<1>5. /\ Len(s) \in Nat /\ DOMAIN s = 1 .. Len(s)
      /\ \A n \in DOMAIN s : \E k \in DOMAIN fn.code[at] :
           s[n] = fn.code[at][k] /\ fn.code[at][k].id \notin wait_delete
  BY <1>4, WithoutFacts
<1> HIDE DEF s
<1>6. /\ fn' = [code |-> [fn.code EXCEPT ![at] = s], made |-> fn.made]
      /\ fn'.made = fn.made
  BY <1>1, <1>2 DEF Whole
<1>7. /\ DOMAIN fn'.code = DOMAIN fn.code /\ fn'.code[at] = s
      /\ \A b \in DOMAIN fn.code \ {at} : fn'.code[b] = fn.code[b]
  BY <1>4, <1>6
<1>8. ASSUME NEW b, NEW k, Place(fn', b, k)
      PROVE  \E j : /\ Place(fn, b, j) /\ At(fn', b, k) = At(fn, b, j)
                    /\ b = at => At(fn, b, j).id \notin wait_delete
  <2>1. CASE b = at
    BY <1>4, <1>5, <1>7, <1>8, <2>1 DEF Place, At
  <2>2. CASE b # at
    BY <1>7, <1>8, <2>2 DEF Place, At
  <2> QED BY <2>1, <2>2
<1>9. Whole(fn')
  <2>1. Shaped(fn')
    <3>1. Len(fn'.code) = Len(fn.code) /\ Len(fn.code) \in Nat /\ DOMAIN fn.code = 1 .. Len(fn.code)
      <4>1. Len(fn.code) \in Nat /\ DOMAIN fn.code = 1 .. Len(fn.code)
        BY <1>2 DEF Whole, Shaped
      <4>2. fn'.code = [b \in 1 .. Len(fn.code) |-> fn'.code[b]]
        BY <1>6, <1>7, <4>1
      <4> QED BY <4>1, <4>2
    <3> QED BY <1>2, <1>5, <1>7, <3>1 DEF Whole, Shaped
  <2>2. \A b, k : Place(fn', b, k) =>
          LET j == At(fn', b, k) IN j = Instr(j.op, j.type, j.args, j.to, j.id)
    BY <1>2, <1>8 DEF Whole
  <2>3. fn' = [code |-> fn'.code, made |-> fn'.made]
    BY <1>6
  <2> QED BY <1>4, <1>6, <2>1, <2>2, <2>3 DEF Whole
<1>10. Numbered(fn')
  <2>1. \A b, d, k, j : Place(fn, b, k) /\ Place(fn, d, j) =>
          /\ At(fn, b, k).id \in 1 .. fn.made
          /\ At(fn, b, k).id = At(fn, d, j).id => b = d
    BY <1>2, NumberedFacts
  <2>2. ASSUME NEW b, NEW d, NEW k, NEW j, Place(fn', b, k), Place(fn', d, j)
        PROVE  /\ At(fn', b, k).id \in 1 .. fn'.made
               /\ At(fn', b, k).id = At(fn', d, j).id => b = d
    <3>1. PICK m : Place(fn, b, m) /\ At(fn', b, k) = At(fn, b, m)
      BY <1>8, <2>2
    <3>2. PICK n : Place(fn, d, n) /\ At(fn', d, j) = At(fn, d, n)
      BY <1>8, <2>2
    <3> QED BY <1>6, <2>1, <3>1, <3>2
  <2> QED BY <2>2, NumberedFacts
<1>11. Originals'
  BY <1>1, <1>2, <1>8 DEF Originals
<1>12. ASSUME Outgoing PROVE Outgoing'
  <2>1. PICK d \in DOMAIN given : \E j \in Range(given[d]) :
          /\ j.op \in FComparisons /\ j.id \in 1 .. fn.made
          /\ \A b, k : Place(fn, b, k) /\ At(fn, b, k).id = j.id => b = at /\ j.id \in wait_delete
    BY <1>12 DEF Outgoing
  <2>2. PICK j \in Range(given[d]) :
          /\ j.op \in FComparisons /\ j.id \in 1 .. fn.made
          /\ \A b, k : Place(fn, b, k) /\ At(fn, b, k).id = j.id => b = at /\ j.id \in wait_delete
    BY <2>1
  <2>3. \A b, k : ~(Place(fn', b, k) /\ At(fn', b, k).id = j.id)
    BY <1>8, <2>2
  <2> QED BY <1>1, <1>6, <2>2, <2>3 DEF Outgoing
<1>13. Typed(fn) => Typed(fn')
  BY <1>8 DEF Typed
<1> QED BY <1>1, <1>2, <1>3, <1>9, <1>10, <1>11, <1>12, <1>13 DEF FoldInv

LEMMA EndFoldingInv ==
  ASSUME FoldInv, EndFolding PROVE FoldInv'
<1>1. /\ pass = "fold" /\ pass' = "done" /\ at > Len(fn.code) /\ at' = 0 /\ pos' = 0
      /\ fn' = fn /\ functions' = functions /\ visits' = visits
      /\ given' = given /\ global_value' = global_value /\ wait_delete' = wait_delete
  BY DEF EndFolding, expressionsVars
<1>2. /\ Visited /\ at \in Nat \ {0}
      /\ Whole(fn) /\ Numbered(fn) /\ Originals
      /\ Outgoing \/ (Typed(fn) /\ StoresTyped)
  BY <1>1, FoldInvFacts
<1>3. \A b, k : Place(fn, b, k) => b # at
  BY <1>1, <1>2 DEF Place, Whole, Shaped
<1>4. Outgoing => Outgoing'
  BY <1>1, <1>3 DEF Outgoing
<1>5. Visited' /\ Originals' /\ (StoresTyped => StoresTyped')
  BY <1>1, <1>2 DEF Visited, Originals, StoresTyped
<1> QED BY <1>1, <1>2, <1>4, <1>5 DEF FoldInv

LEMMA FoldInductive == FoldInv /\ [Visiting \/ FoldingStep]_foldingVars => FoldInv'
<1> SUFFICES ASSUME FoldInv, [Visiting \/ FoldingStep]_foldingVars PROVE FoldInv'
  OBVIOUS
<1>1. CASE Visiting
  <2>1. pass = "idle" /\ Inv /\ global_value = <<>>
    BY <1>1, VisitedOnce DEF Visiting, FoldInv
  <2>2. Inv'
    BY <1>1, <2>1, Inductive DEF Visiting
  <2> QED BY <1>1, <2>1, <2>2 DEF Visiting, foldVars, FoldInv
<1>2. ASSUME UNCHANGED <<fn, functions, visits, given, at, pos, global_value, wait_delete>>,
             \/ pass' = pass /\ UNCHANGED expressionsVars
             \/ pass = "fold" /\ pass' = "trapped"
      PROVE  FoldInv'
  <2>1. /\ Visited => Visited'
        /\ Whole(fn) => Whole(fn')
        /\ Numbered(fn) => Numbered(fn')
        /\ Originals => Originals'
        /\ Outgoing => Outgoing'
        /\ Typed(fn) /\ StoresTyped => Typed(fn') /\ StoresTyped'
    BY <1>2 DEF Visited, Originals, Outgoing, StoresTyped
  <2>2. ASSUME Inv, UNCHANGED expressionsVars PROVE Inv'
    BY <2>2, Inductive
  <2> QED BY <1>2, <2>1, <2>2 DEF FoldInv
<1>3. CASE UNCHANGED foldingVars
  <2>1. /\ UNCHANGED expressionsVars /\ UNCHANGED foldVars
    BY <1>3 DEF foldingVars
  <2> QED BY <2>1, <1>2 DEF expressionsVars, foldVars
<1>4. CASE TrapFolding
  BY <1>2, <1>4 DEF TrapFolding, InBlock, expressionsVars
<1> QED BY <1>1, <1>3, <1>4, StartFoldingInv, FoldInstrInv, FoldStoreInv, FoldBranchInv,
           EndBlockInv, EndFoldingInv DEF FoldingStep

LEMMA FoldInitially == FoldingInit => FoldInv
  BY Initially DEF FoldingInit, FoldInv

(* Whatever the program and the width of its integers, the code that       *)
(* ConstPropagation leaves has operands of the types its instructions      *)
(* require, unless the pass has folded a comparison of floats.             *)
THEOREM FoldingKeepsTypes == FoldingSpec => []FoldedWellTyped
<1>1. FoldInv => FoldedWellTyped
  <2> SUFFICES ASSUME FoldInv, pass = "done" PROVE WellTyped \/ FloatComparisonFolded
    BY DEF FoldedWellTyped
  <2>1. at = 0 /\ Shaped(fn) /\ (Outgoing \/ Typed(fn))
    BY DEF FoldInv, Whole
  <2>2. \A i : i \in Instructions <=> \E b, k : Place(fn, b, k) /\ At(fn, b, k) = i
    BY DEF Instructions, Range, Place, At
  <2>3. CASE Typed(fn)
    BY <2>2, <2>3 DEF WellTyped, Typed
  <2>4. CASE Outgoing
    <3>1. PICK d \in DOMAIN given : \E j \in Range(given[d]) :
            /\ j.op \in FComparisons /\ j.id \in 1 .. fn.made
            /\ \A b, k : Place(fn, b, k) /\ At(fn, b, k).id = j.id => b = at /\ j.id \in wait_delete
      BY <2>4 DEF Outgoing
    <3>2. PICK j \in Range(given[d]) :
            /\ j.op \in FComparisons /\ j.id \in 1 .. fn.made
            /\ \A b, k : Place(fn, b, k) /\ At(fn, b, k).id = j.id => b = at /\ j.id \in wait_delete
      BY <3>1
    <3>3. \A b, k : Place(fn, b, k) => b # at
      BY <2>1 DEF Place, Shaped
    <3>4. \A i \in Instructions : i.id # j.id
      BY <2>2, <3>2, <3>3
    <3> QED BY <3>2, <3>4 DEF FloatComparisonFolded
  <2> QED BY <2>1, <2>3, <2>4
<1>2. FoldingSpec => []FoldInv
  BY FoldInitially, FoldInductive, PTL DEF FoldingSpec
<1> QED BY <1>1, <1>2, PTL

=============================================================================
