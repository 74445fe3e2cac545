--------------------------- MODULE PlaceholderMap ---------------------------
(***************************************************************************)
(* The two-way table between secrets and placeholders                      *)
(* (crates/proxy-core/src/placeholder.rs).  One value of this table lives  *)
(* for one proxied request: the outbound side mints placeholders into it,  *)
(* the inbound side looks them up.  The module has no variables; the       *)
(* modules that own a table hold a record of the shape Map and update it   *)
(* with these operators.                                                   *)
(***************************************************************************)
EXTENDS Naturals

CONSTANTS
  Kind,      \* the kinds of secret the rules know (rules.rs, SecretKind::ALL)
  Text,      \* the secret texts that can occur
  TypeSlug   \* the <TYPE> part of a kind's placeholders (SecretKind::type_slug)

\* Two kinds never share a slug: otherwise their counters, which advance
\* separately, would render the same placeholder.
ASSUME SlugsDistinct ==
  \A j, k \in Kind : TypeSlug[j] = TypeSlug[k] => j = k

\* <<SECRET_TYPE_NNN>>.  The counter is printed with at least three digits
\* and never truncated, so the string determines the pair and vice versa.
Render(kind, n) == [slug |-> TypeSlug[kind], n |-> n]

Placeholder == [slug : {TypeSlug[k] : k \in Kind}, n : Nat \ {0}]

\* HashMap::insert: a binding that exists already is overwritten.
Insert(f, x, v) == [y \in DOMAIN f \cup {x} |-> IF y = x THEN v ELSE f[y]]

\* PlaceholderMap::new.  A kind without an entry in `counters` counts as 0,
\* which is what entry(kind).or_insert(0) makes of it.
EmptyMap ==
  [forward  |-> [s \in {} |-> Render(s[1], 1)],
   reverse  |-> [p \in {} |-> p],
   counters |-> [k \in Kind |-> 0]]

Knows(m, kind, text) == <<kind, text>> \in DOMAIN m.forward

\* Mutations: the number is read before the counter advances; every secret of
\* a kind gets number 1.
FreshBeforeIncrement(m, kind) == Render(kind, m.counters[kind])
FreshAlwaysFirst(m, kind) == Render(kind, 1)

\* The placeholder a secret of `kind` gets when it is new.
Fresh(m, kind) == Render(kind, m.counters[kind] + 1)

\* Mutation: the reverse table is not filled.
AfterWithoutReverse(m, kind, text) ==
  [m EXCEPT !.forward = Insert(m.forward, <<kind, text>>, Fresh(m, kind)),
            !.counters[kind] = @ + 1]

\* What placeholder_for returns ...
PlaceholderFor(m, kind, text) ==
  IF Knows(m, kind, text) THEN m.forward[<<kind, text>>] ELSE Fresh(m, kind)

\* ... and the table it leaves behind.
AfterPlaceholderFor(m, kind, text) ==
  IF Knows(m, kind, text)
  THEN m
  ELSE [forward  |-> Insert(m.forward, <<kind, text>>, Fresh(m, kind)),
        reverse  |-> Insert(m.reverse, Fresh(m, kind), text),
        counters |-> [m.counters EXCEPT ![kind] = @ + 1]]

\* original_for is Some exactly on these; then it returns m.reverse[p].
Minted(m) == DOMAIN m.reverse

IsEmpty(m) == Minted(m) = {}

-----------------------------------------------------------------------------
\* The shape of a table.
IsMap(m) ==
  /\ m = [forward |-> m.forward, reverse |-> m.reverse, counters |-> m.counters]
  /\ m.forward \in [DOMAIN m.forward -> Placeholder]
  /\ DOMAIN m.forward \subseteq Kind \X Text
  /\ m.reverse \in [DOMAIN m.reverse -> Text]
  /\ DOMAIN m.reverse \subseteq Placeholder
  /\ m.counters \in [Kind -> Nat]

\* Reversal undoes minting: the placeholder of a secret leads back to it.
Invertible(m) ==
  \A s \in DOMAIN m.forward :
    /\ m.forward[s] \in DOMAIN m.reverse
    /\ m.reverse[m.forward[s]] = s[2]

\* Distinct secrets never share a placeholder, also across kinds.
Injective(m) ==
  \A s, t \in DOMAIN m.forward : m.forward[s] = m.forward[t] => s = t

\* Nothing can be looked up that was not minted for a secret of this table.
NoOrphans(m) ==
  \A p \in DOMAIN m.reverse : \E s \in DOMAIN m.forward : m.forward[s] = p

\* The counter of a kind is exactly the highest number handed out: numbers
\* start at 1 and none is skipped or reused.
Numbered(m) ==
  /\ \A s \in DOMAIN m.forward :
       \E n \in 1 .. m.counters[s[1]] : m.forward[s] = Render(s[1], n)
  /\ \A k \in Kind : \A n \in 1 .. m.counters[k] : Render(k, n) \in DOMAIN m.reverse

Consistent(m) ==
  /\ Invertible(m)
  /\ Injective(m)
  /\ NoOrphans(m)
  /\ Numbered(m)

=============================================================================
