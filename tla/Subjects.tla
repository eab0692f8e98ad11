------------------------------- MODULE Subjects -------------------------------
(***************************************************************************)
(* The subjects and keys kloudmeter builds by joining names with dots,     *)
(* what NATS makes of them, and what the repositories do to a key: a       *)
(* subject is a sequence of tokens.  Nothing keeps a dot out of an event   *)
(* type, a meter's id or a key of its groupBy (Meter.IsValid,              *)
(* Event.IsValid), so that a name is a sequence of tokens too; only an     *)
(* event's subject is one token by its regular expression.                 *)
(***************************************************************************)
EXTENDS Naturals, Sequences

CONSTANTS
    Token,    \* what may stand between two dots
    dashed    \* dashed[x]: the token x with a dash for every colon

ASSUME TokenAssumption == {"meters", "events", ">"} \subseteq Token
ASSUME DashedAssumption == dashed \in [Token -> Token]

Name == Seq(Token) \ {<<>>}

\* The regular expression of Event.IsValid lets neither dot nor colon through.
SubjectToken == {x \in Token : dashed[x] = x}

\* An event: form says what BodyParser, IsValid and ToJson make of it.
Event == [type : Name, subject : SubjectToken, id : Name,
          form : {"good", "unparsable", "invalid", "unencodable"}]

\* An aggregation with a dot is possible and none that updateReading knows.
Meter == [type : Name, agg : Token, id : Name, groups : SUBSET Name]

\* meters.events.<eventType>.<subject>.<id>
EventSubject(e) == <<"meters", "events">> \o e.type \o <<e.subject>> \o e.id

\* Mutant of FilterSubject: the tail of the subject is left out.
FilterSubjectExact(m) == <<"meters", "events">> \o m.type

\* meters.events.<eventType>.>
FilterSubject(m) == <<"meters", "events">> \o m.type \o <<">">>

\* NATS: ">" at the end of a filter stands for one token or more; the names of
\* stored meters hold no other wildcard, since no key of a bucket does.
Matches(filter, subject) ==
    LET n == Len(filter) IN
    IF filter[n] = ">"
    THEN Len(subject) >= n /\ SubSeq(subject, 1, n - 1) = SubSeq(filter, 1, n - 1)
    ELSE subject = filter

\* Where a repository puts what a caller calls key; dots stay.
sanitiseKey(key) == [i \in DOMAIN key |-> dashed[key[i]]]

\* Meter.Key: <eventType>.<aggregation>.<id>
MeterKey(m) == m.type \o <<m.agg>> \o m.id

\* Mutant of ReadingKey: a group's reading goes under the meter's own key.
ReadingKeyWithoutGroup(m, subject, group) == MeterKey(m) \o <<subject>>

\* The key of a meter's reading for a subject; the reading of the meter itself
\* has no group.
ReadingKey(m, subject, group) == MeterKey(m) \o <<subject>> \o group

NoGroup == <<>>
Parts(m) == {NoGroup} \cup m.groups
=============================================================================
