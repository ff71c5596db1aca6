--------------------------------- MODULE Scopes ---------------------------------
(***************************************************************************)
(* mudraid._scopes.RequestedScopes.of: the loop that turns the entries a   *)
(* caller gives into the scopes a token is requested for.  A call with     *)
(* None is a call with no entries: both build the empty set.               *)
(***************************************************************************)
EXTENDS Naturals, Sequences

CONSTANTS Names,       \* what entries name, once stripped; letter case counts
          Wildcards,   \* those that are sentinels in some case or contain "*"
          MaxEntries   \* bound on the entries of one call

Blank == ""            \* what is left of an entry of white space only

ASSUME NamesAssumption == Wildcards \subseteq Names /\ Blank \notin Names
ASSUME EntriesAssumption == MaxEntries \in Nat

VARIABLES entries,     \* the argument
          i,           \* the entry the loop is at
          seen, ordered,
          building     \* "idle", "loop", or how the call ended

scopesVars == <<entries, i, seen, ordered, building>>

\* An entry: what it names, whether strip() takes white space off, and whether
\* it is a string at all.
Raws == [name : Names \cup {Blank}, padded : BOOLEAN, text : BOOLEAN]
Inputs == UNION {[1..n -> Raws] : n \in 0..MaxEntries}

ScopesTypeOK ==
  /\ entries \in Seq(Raws)
  /\ i \in 1..(Len(entries) + 1)
  /\ seen \subseteq Names
  /\ ordered \in Seq(Names)
  /\ building \in {"idle", "loop", "built", "refused"}

ScopesInit ==
  /\ entries = <<>> /\ i = 1 /\ seen = {} /\ ordered = <<>>
  /\ building = "idle"

Of(s) == /\ building = "idle"
         /\ entries' = s
         /\ building' = "loop"
         /\ UNCHANGED <<i, seen, ordered>>

\* The loop is at entry i.
At == building = "loop" /\ i <= Len(entries)

\* Mutant: an entry is looked up before it is stripped.
WildRaw(raw) == raw.name \in Wildcards /\ ~raw.padded
Wild(raw) == raw.name \in Wildcards

\* MudraIDScopeError: not a string, or a wildcard.
RefuseEntry ==
  /\ At
  /\ ~entries[i].text \/ Wild(entries[i])
  /\ building' = "refused"
  /\ UNCHANGED <<entries, i, seen, ordered>>

Acceptable == At /\ entries[i].text /\ ~Wild(entries[i])

SkipBlank ==
  /\ Acceptable /\ entries[i].name = Blank
  /\ i' = i + 1
  /\ UNCHANGED <<entries, seen, ordered, building>>

New(raw) == raw.name \notin seen

SkipDuplicate ==
  /\ Acceptable /\ entries[i].name # Blank /\ ~New(entries[i])
  /\ i' = i + 1
  /\ UNCHANGED <<entries, seen, ordered, building>>

\* Mutants: a blank entry is kept; the newest scope goes first.
KeepBlank ==
  /\ Acceptable /\ New(entries[i])
  /\ seen' = seen \cup {entries[i].name}
  /\ ordered' = Append(ordered, entries[i].name)
  /\ i' = i + 1
  /\ UNCHANGED <<entries, building>>
KeepFirst ==
  /\ Acceptable /\ entries[i].name # Blank /\ New(entries[i])
  /\ seen' = seen \cup {entries[i].name}
  /\ ordered' = <<entries[i].name>> \o ordered
  /\ i' = i + 1
  /\ UNCHANGED <<entries, building>>
Keep ==
  /\ Acceptable /\ entries[i].name # Blank /\ New(entries[i])
  /\ seen' = seen \cup {entries[i].name}
  /\ ordered' = Append(ordered, entries[i].name)
  /\ i' = i + 1
  /\ UNCHANGED <<entries, building>>

Return == /\ building = "loop" /\ i > Len(entries)
          /\ building' = "built"
          /\ UNCHANGED <<entries, i, seen, ordered>>

Loop == RefuseEntry \/ SkipBlank \/ SkipDuplicate \/ Keep \/ Return

ScopesNext == Loop \/ \E s \in Inputs : Of(s)

ScopesSpec == ScopesInit /\ [][ScopesNext]_scopesVars

--------------------------------------------------------------------------------
(***************************************************************************)
(* Properties.                                                             *)
(***************************************************************************)

\* The reference: what the entries name, as a set.
Named(s) == {s[k].name : k \in 1..Len(s)} \ {Blank}
Broad(s) == \E k \in 1..Len(s) : ~s[k].text \/ s[k].name \in Wildcards

\* What is built holds each scope that was named once, and nothing else; and
\* anything broad among the entries refuses all of them.
BuiltIsWhatWasNamed ==
  /\ building = "built" =>
       /\ ~Broad(entries)
       /\ {ordered[p] : p \in 1..Len(ordered)} = Named(entries)
       /\ \A p, q \in 1..Len(ordered) : ordered[p] = ordered[q] => p = q
  /\ building = "refused" => Broad(entries)

\* "The stored tuple preserves first-seen order": whatever stands before a
\* scope was named before that scope's first mention.
FirstSeenOrder ==
  building = "built" =>
    \A p, q \in 1..Len(ordered) : p < q =>
      \E k \in 1..Len(entries) :
        /\ entries[k].name = ordered[p]
        /\ \A m \in 1..k : entries[m].name # ordered[q]
================================================================================
