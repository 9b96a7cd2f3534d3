------------------------------ MODULE Prefixes ------------------------------
(***************************************************************************)
(* The CIDR calculator (backend/wg/tools/cidr.rs): normalisation of a list *)
(* of prefixes and the difference of two lists, one excluded prefix per    *)
(* step.  An address is a number below 2^Bits; the families do not mix.    *)
(* The reference is the set of addresses: what a list covers, and the      *)
(* largest prefixes that cover a set.                                      *)
(***************************************************************************)
EXTENDS Naturals, Sequences, FiniteSets, SequencesExt, TLC

CONSTANTS
    Bits,       \* bits of an address
    Includes,   \* the lists of prefixes that are asked for
    Excludes,   \* the lists that are taken out
    Limits      \* the limits on the number of results

VARIABLES
    include, exclude, limit,    \* the arguments of compute_cidr_exclusion
    step,       \* "call", "include", "exclude", "done" or "error"
    todo,       \* normalised includes not yet handled
    current,    \* what is left of the include at hand
    pending,    \* normalised excludes not yet taken out of it
    remaining   \* the pieces found; at "done" the answer

vars == <<include, exclude, limit, step, todo, current, pending, remaining>>

Mask(a, len) == (a \div 2^(Bits - len)) * 2^(Bits - len)
Canonical(p) == [p EXCEPT !.addr = Mask(@, p.len)]
ContainsPrefix(c, p) ==
    /\ c.fam = p.fam /\ c.len <= p.len
    /\ Mask(c.addr, c.len) = Mask(p.addr, c.len)
\* a mutant: the longer length is compared
OverlapsLonger(p, q) ==
    LET common == IF p.len < q.len THEN q.len ELSE p.len IN
    p.fam = q.fam /\ Mask(p.addr, common) = Mask(q.addr, common)
Overlaps(p, q) ==
    LET common == IF p.len < q.len THEN p.len ELSE q.len IN
    p.fam = q.fam /\ Mask(p.addr, common) = Mask(q.addr, common)

SplitChildren(p) ==
    LET low == [p EXCEPT !.len = @ + 1]
    IN  <<low, [low EXCEPT !.addr = @ + 2^(Bits - low.len)]>>

\* a mutant: two neighbours of one length are taken for siblings
NeighbourParent(l, r) ==
    {p \in {[fam |-> l.fam, addr |-> Mask(l.addr, l.len - 1), len |-> l.len - 1] :
                x \in IF l.len = 0 THEN {} ELSE {1}} :
        l.fam = r.fam /\ l.len = r.len /\ r.addr = l.addr + 2^(Bits - l.len)}
\* sibling_parent: {} or the one prefix that both are halves of
SiblingParent(l, r) ==
    {p \in {[fam |-> l.fam, addr |-> Mask(l.addr, l.len - 1), len |-> l.len - 1] :
                x \in IF l.len = 0 THEN {} ELSE {1}} : SplitChildren(p) = <<l, r>>}

\* a mutant: of one address the longest first
BeforeLongest(p, q) ==
    \/ p.fam < q.fam
    \/ p.fam = q.fam /\ p.addr < q.addr
    \/ p.fam = q.fam /\ p.addr = q.addr /\ p.len > q.len
\* prefix_sort_key
Before(p, q) ==
    \/ p.fam < q.fam
    \/ p.fam = q.fam /\ p.addr < q.addr
    \/ p.fam = q.fam /\ p.addr = q.addr /\ p.len < q.len

KeepsContained(s) == s
\* the prefixes that none before them contains, which also drops duplicates
Uncontained(s) ==
    FoldLeft(LAMBDA kept, p : IF \E i \in DOMAIN kept : ContainsPrefix(kept[i], p)
                              THEN kept ELSE Append(kept, p), <<>>, s)

\* one pass over a sorted list: adjacent siblings become their parent
MergePass(s) ==
    LET from[i \in 1..(Len(s) + 2)] ==
            IF i > Len(s) THEN <<>>
            ELSE IF i < Len(s) /\ SiblingParent(s[i], s[i + 1]) # {}
                 THEN <<CHOOSE p \in SiblingParent(s[i], s[i + 1]) : TRUE>> \o from[i + 2]
                 ELSE <<s[i]>> \o from[i + 1]
    IN  from[1]

\* a mutant: siblings are merged once only
NormalizeOnce(s) ==
    Uncontained(MergePass(Uncontained(
        SortSeq([i \in DOMAIN s |-> Canonical(s[i])], Before))))
\* normalize_prefixes.  A pass that changes the list shortens it, so the loop that stops at
\* the first unchanged pass and one that makes as many passes as there are prefixes agree.
Normalize(s) ==
    LET sorted == SortSeq([i \in DOMAIN s |-> Canonical(s[i])], Before)
        pass[n \in 0..Len(s)] ==
            IF n = 0 THEN Uncontained(sorted)
            ELSE Uncontained(MergePass(SortSeq(pass[n - 1], Before)))
    IN  pass[Len(s)]

\* subtract_prefix, without its limit
Subtract(p, e) ==
    LET family == {[fam |-> p.fam, addr |-> a, len |-> l] : a \in 0..(2^Bits - 1), l \in 0..Bits}
        pieces[q \in family] ==
            IF ~Overlaps(q, e) THEN <<q>>
            ELSE IF ContainsPrefix(e, q) \/ q.len >= Bits THEN <<>>
            ELSE pieces[SplitChildren(q)[1]] \o pieces[SplitChildren(q)[2]]
    IN  pieces[p]

----------------------------------------------------------------------------
Init ==
    /\ include \in Includes /\ exclude \in Excludes /\ limit \in Limits
    /\ step = "call"
    /\ todo = <<>> /\ current = <<>> /\ pending = <<>> /\ remaining = <<>>

Call ==
    /\ step = "call"
    /\ todo' = Normalize(include)
    /\ step' = "include"
    /\ UNCHANGED <<include, exclude, limit, current, pending, remaining>>

NextInclude ==
    /\ step = "include" /\ todo # <<>>
    /\ current' = <<Head(todo)>> /\ todo' = Tail(todo)
    /\ pending' = Normalize(exclude)
    /\ step' = "exclude"
    /\ UNCHANGED <<include, exclude, limit, remaining>>

\* one excluded prefix is taken out of every piece; the limit counts the pieces of this pass
TakeOut ==
    /\ step = "exclude" /\ pending # <<>> /\ current # <<>>
    /\ current' = FlattenSeq([i \in DOMAIN current |-> Subtract(current[i], Head(pending))])
    /\ pending' = Tail(pending)
    /\ step' = IF Len(current') > limit THEN "error" ELSE "exclude"
    /\ UNCHANGED <<include, exclude, limit, todo, remaining>>

Collect ==
    /\ step = "exclude" /\ (pending = <<>> \/ current = <<>>)
    /\ remaining' = remaining \o current
    /\ step' = IF Len(remaining') > limit THEN "error" ELSE "include"
    /\ UNCHANGED <<include, exclude, limit, todo, current, pending>>

Finish ==
    /\ step = "include" /\ todo = <<>>
    /\ remaining' = Normalize(remaining)
    /\ step' = IF Len(remaining') > limit THEN "error" ELSE "done"
    /\ UNCHANGED <<include, exclude, limit, todo, current, pending>>

Next == Call \/ NextInclude \/ TakeOut \/ Collect \/ Finish

Spec == Init /\ [][Next]_vars

----------------------------------------------------------------------------
(* The addresses of a prefix and of a list *)
Covered(p) ==
    {[fam |-> p.fam, addr |-> a] : a \in {b \in 0..(2^Bits - 1) : Mask(b, p.len) = Mask(p.addr, p.len)}}
CoveredBy(s) == UNION {Covered(s[i]) : i \in DOMAIN s}

(* The largest prefixes inside a set of addresses *)
Largest(S) ==
    {p \in {[fam |-> d.fam, addr |-> Mask(d.addr, l), len |-> l] : d \in S, l \in 0..Bits} :
        /\ Covered(p) \subseteq S
        /\ p.len = 0 \/ ~(Covered([p EXCEPT !.len = @ - 1]) \subseteq S)}

TypeOK ==
    /\ include \in Includes /\ exclude \in Excludes /\ limit \in Limits
    /\ step \in {"call", "include", "exclude", "done", "error"}

(* The answer covers exactly the included addresses that are not excluded, *)
(* with the fewest possible prefixes, in ascending order and not more than *)
(* the limit; on the way no address is found twice; and the calculator     *)
(* gives up only when the limit is smaller than the addresses asked for.   *)
ExclusionExact ==
    LET wanted == CoveredBy(include) \ CoveredBy(exclude) IN
    /\ step = "done" =>
         /\ ToSet(remaining) = Largest(wanted)
         /\ Len(remaining) <= limit
         /\ \A i \in 1..(Len(remaining) - 1) : Before(remaining[i], remaining[i + 1])
    /\ step = "error" => Cardinality(CoveredBy(include)) > limit
    /\ \A i, j \in DOMAIN remaining :
          i # j => Covered(remaining[i]) \intersect Covered(remaining[j]) = {}
=============================================================================
