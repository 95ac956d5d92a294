----------------------------- MODULE GitAuthors -----------------------------
(***************************************************************************)
(* The mapping between the people an identity provider knows and the git   *)
(* authors commits name, kept as a file of the repository that people      *)
(* edit, with the checks made of it.                                       *)
(***************************************************************************)
EXTENDS Integers, Sequences, FiniteSets, Functions, Positions

CONSTANTS
    Bindings,       \* entries of .canon/actors.yaml: [subject, emails]
    Addresses,      \* addresses as people write them
    Normalise,      \* [Addresses -> Addresses]: normalize_email
    Strangers,      \* addresses others commit under
    MaxLog          \* bound: commits

ASSUME GitAuthorsAssumption ==
    /\ \A e \in Addresses : Normalise[e] \in Addresses /\ Normalise[Normalise[e]] = Normalise[e]
    /\ \A b \in Bindings : b.emails \in Seq(Addresses)
    /\ Strangers \subseteq Addresses

VARIABLES
    mapping,    \* the file
    log         \* the addresses of the commits, as they were made

authorVars == <<mapping, log>>

\* The entry at the first of these places, when there is one.
FirstOf(places) ==
    IF places = {} THEN {} ELSE {mapping[CHOOSE n \in places : \A k \in places : n <= k]}

Owns(binding, email) == \E n \in DOMAIN binding.emails :
                            Normalise[binding.emails[n]] = Normalise[email]

BindingForEmail(email) == FirstOf({n \in DOMAIN mapping : Owns(mapping[n], email)})
BindingForSubject(subject) == FirstOf({n \in DOMAIN mapping : mapping[n].subject = subject})

\* resolve_git_identity, for a provider that supplies no addresses: the address to
\* author a commit with, when there is one.
AuthorOf(subject) ==
    {Head(b.emails) : b \in {x \in BindingForSubject(subject) : x.emails # <<>>}}

\* resolve_git_author: whom a commit's address is shown as.
Credited(email) == {b.subject : b \in BindingForEmail(email)}

\* Mutant of Keys: addresses are compared as written.
KeysVerbatim(binding) == Range(binding.emails)

Keys(binding) == {Normalise[e] : e \in Range(binding.emails)}

\* check_mapping: a subject, or an address, is listed twice.
DuplicateSubjects == \E i, j \in DOMAIN mapping : i # j /\ mapping[i].subject = mapping[j].subject

DuplicateEmails == \E i, j \in DOMAIN mapping : i # j /\ Keys(mapping[i]) \cap Keys(mapping[j]) # {}

Clean == ~DuplicateSubjects /\ ~DuplicateEmails

-----------------------------------------------------------------------------
(* People edit the file, and commit: through the service, or around it. *)

Remap ==
    /\ mapping' \in UNION {[1..n -> Bindings] : n \in 0..2} \ {mapping}
    /\ UNCHANGED log

\* write_back, as an identified person: refused when the mapping gives no address.
CommitAs(subject) ==
    /\ \E email \in AuthorOf(subject) : log' = Append(log, email)
    /\ UNCHANGED mapping

CommitOutside(email) ==
    /\ log' = Append(log, email)
    /\ UNCHANGED mapping

\* Those nobody's entry names, among the first so many.
Missing(n) == {email \in {log[m] : m \in 1..n} : BindingForEmail(email) = {}}

\* Mutant of Unseen: addresses are told apart as written.
UnseenVerbatim(n) == log[n] \notin Missing(n - 1)

Unseen(n) == Normalise[log[n]] \notin {Normalise[email] : email \in Missing(n - 1)}

\* unmapped_authors: the authors nobody's entry names, once each, as they appeared.
UnmappedAuthors ==
    Picked(log, {n \in DOMAIN log : BindingForEmail(log[n]) = {} /\ Unseen(n)})

AuthorsInit == mapping = <<>> /\ log = <<>>

AuthorsNext ==
    \/ Remap
    \/ Len(log) < MaxLog /\ \/ \E b \in Bindings : CommitAs(b.subject)
                            \/ \E email \in Strangers : CommitOutside(email)

AuthorsSpec == AuthorsInit /\ [][AuthorsNext]_authorVars

-----------------------------------------------------------------------------
\* A commit made for somebody is shown as theirs, as long as the checks of the
\* mapping pass: the address it is authored with leads back to them alone.
AuthorsComeBack ==
    Clean => \A b \in Bindings : \A email \in AuthorOf(b.subject) : Credited(email) = {b.subject}

\* The list of people the mapping lacks names each of them once and nobody else.
UnmappedOnce ==
    LET missing == {Normalise[e] : e \in {x \in Range(log) : Credited(x) = {}}}
    IN  /\ {Normalise[e] : e \in Range(UnmappedAuthors)} = missing
        /\ Len(UnmappedAuthors) = Cardinality(missing)

\* Names on commits lead back to people, and the people missing are listed.
AuthorsAreKnown ==
    /\ AuthorsComeBack
    /\ UnmappedOnce

=============================================================================
