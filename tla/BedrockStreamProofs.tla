------------------------ MODULE BedrockStreamProofs ------------------------
(***************************************************************************)
(* Proofs about BedrockStream, for messages of any length: types, that the *)
(* caller's message is the beginning of what the service said, that a      *)
(* finish reason comes with the whole of it, and that it then is the       *)
(* message of a response that was not streamed; and about BedrockConvert,  *)
(* for conversations of any length.                                        *)
(***************************************************************************)
EXTENDS BedrockStream, Folding, FiniteSetTheorems, TLAPS

EventTypes == {"none", "messageStart", "blockStart", "delta", "otherDelta", "blockStop",
               "messageStop", "metadata", "metadataWithUsage"}

Calls    == Seq([id : Nat, args : SUBSET Nat])
Messages == [content : SUBSET Nat, calls : Calls]

\* What is on offer fits the place in the message that the service has reached:
\* a delta is the newest part, a start the newest block, of which nothing has
\* been said yet.
OfferRight ==
  /\ event \in [type : EventTypes, block : 0..Len(kinds), part : 0..Len(said)]
  /\ event.type = "delta" =>
       /\ stage = "block" /\ said # <<>>
       /\ event.part = Len(said) /\ event.block = Len(kinds) /\ said[Len(said)] = Len(kinds)
  /\ event.type = "blockStart" =>
       /\ stage = "block" /\ kinds # <<>>
       /\ event.block = Len(kinds) /\ \A i \in DOMAIN said : said[i] < Len(kinds)
  /\ stage = "block" => kinds # <<>>
  /\ stage \in {"stopped", "over"} => event.type \notin {"blockStart", "delta"} /\ reason \in Reasons
  /\ event.type = "messageStop" => stage \in {"stopped", "over"}

TypeInv == TypeOK /\ heard \in Messages /\ OfferRight

\* What the caller knows while the stream is open: everything but what is on offer.
PartsHeard  == IF event.type = "delta" THEN Len(said) - 1 ELSE Len(said)
BlocksHeard == IF event.type = "blockStart" THEN Len(kinds) - 1 ELSE Len(kinds)

AllHeard == open => HeardUpTo(PartsHeard, BlocksHeard)

StreamInv == AllHeard /\ HeardInOrder

-----------------------------------------------------------------------------
(* What a message says.                                                    *)

\* HeardUpTo, element by element, of any message.
Says(content, calls, k, b) ==
  /\ \A i \in 1..k : said[i] <= b
  /\ content = {i \in 1..k : kinds[said[i]] = "text"}
  /\ \A j \in 1..Len(calls) : calls[j].id \in 1..b /\ kinds[calls[j].id] = "toolUse"
  /\ \A i \in 1..b : kinds[i] = "toolUse" => \E j \in 1..Len(calls) : calls[j].id = i
  /\ \A j \in 1..Len(calls) : calls[j].args = {i \in 1..k : said[i] = calls[j].id}
  /\ \A j \in 1..Len(calls) : \A l \in 1..(j - 1) : calls[l].id < calls[j].id

LEMMA HeardIsSaid ==
  ASSUME heard \in Messages, NEW k, NEW b
  PROVE  HeardUpTo(k, b) <=> Says(heard.content, heard.calls, k, b)
<1> DEFINE c == heard.calls
<1>1. DOMAIN c = 1..Len(c)
  <2>1. c \in Seq([id : Nat, args : SUBSET Nat])
    BY DEF Messages, Calls
  <2> QED BY <2>1
<1>2. ({c[j].id : j \in DOMAIN c} = {i \in 1..b : kinds[i] = "toolUse"}) <=>
        /\ \A j \in 1..Len(c) : c[j].id \in 1..b /\ kinds[c[j].id] = "toolUse"
        /\ \A i \in 1..b : kinds[i] = "toolUse" => \E j \in 1..Len(c) : c[j].id = i
  BY <1>1
<1> HIDE DEF c
<1>3. HeardUpTo(k, b) <=>
        /\ \A i \in 1..k : said[i] <= b
        /\ heard.content = {i \in 1..k : kinds[said[i]] = "text"}
        /\ {c[j].id : j \in DOMAIN c} = {i \in 1..b : kinds[i] = "toolUse"}
        /\ \A j \in DOMAIN c : /\ c[j].args = {i \in 1..k : said[i] = c[j].id}
                               /\ \A l \in 1..(j - 1) : c[l].id < c[j].id
  BY DEF HeardUpTo, c
<1> QED BY <1>1, <1>2, <1>3 DEF Says, c

\* ... and so in the next state.
LEMMA HeardIsSaidNext ==
  (heard \in Messages => \A k, b : HeardUpTo(k, b) <=> Says(heard.content, heard.calls, k, b))'
<1>1. heard \in Messages => \A k, b : HeardUpTo(k, b) <=> Says(heard.content, heard.calls, k, b)
  BY HeardIsSaid
<1> QED BY <1>1, PTL

LEMMA SeqParts ==
  ASSUME NEW S, NEW s \in Seq(S), NEW e \in S
  PROVE  /\ Len(s) \in Nat /\ DOMAIN s = 1..Len(s)
         /\ \A i \in 1..Len(s) : s[i] \in S
         /\ Append(s, e) \in Seq(S) /\ Len(Append(s, e)) = Len(s) + 1
         /\ \A i \in 1..Len(s) : Append(s, e)[i] = s[i]
         /\ Append(s, e)[Len(s) + 1] = e
  OBVIOUS

LEMMA CallTypes ==
  ASSUME NEW calls \in Calls
  PROVE  /\ Len(calls) \in Nat /\ DOMAIN calls = 1..Len(calls)
         /\ \A j \in 1..Len(calls) : calls[j].id \in Nat /\ calls[j].args \subseteq Nat
<1> DEFINE C == [id : Nat, args : SUBSET Nat]
<1>1. [id |-> 0, args |-> {}] \in C
  OBVIOUS
<1>2. calls \in Seq(C)
  BY DEF Calls
<1>3. \A c \in C : c.id \in Nat /\ c.args \subseteq Nat
  OBVIOUS
<1> HIDE DEF C
<1> QED BY <1>1, <1>2, <1>3, SeqParts

\* A text block is heard of by its parts only.
LEMMA TextBegun ==
  ASSUME NEW content, NEW calls, NEW k \in Nat, NEW b \in Nat, Says(content, calls, k, b),
         kinds[b + 1] = "text", \A i \in 1..k : said[i] \in Nat
  PROVE  Says(content, calls, k, b + 1)
<1>1. \A i \in 1..(b + 1) : kinds[i] = "toolUse" => i \in 1..b
  OBVIOUS
<1>2. \A i \in 1..k : said[i] <= b + 1
  BY DEF Says
<1>3. \A n : n \in 1..b => n \in 1..(b + 1)
  OBVIOUS
<1> QED BY <1>1, <1>2, <1>3 DEF Says

\* A tool call begins without input.
LEMMA CallBegun ==
  ASSUME NEW content, NEW calls \in Calls, NEW k \in Nat, NEW b \in Nat, Says(content, calls, k, b),
         kinds[b + 1] = "toolUse", \A i \in 1..k : said[i] \in Nat
  PROVE  Says(content, Append(calls, Call(b + 1, {})), k, b + 1)
<1> DEFINE n == Len(calls)
           more == Append(calls, Call(b + 1, {}))
<1>1. n \in Nat /\ \A j \in 1..n : calls[j].id \in Nat
  BY CallTypes
<1>2. /\ Len(more) = n + 1
      /\ \A j \in 1..n : more[j] = calls[j]
      /\ more[n + 1] = Call(b + 1, {})
  BY <1>1 DEF Calls
<1>3. more[n + 1].id = b + 1 /\ more[n + 1].args = {}
  BY <1>2 DEF Call
<1> HIDE DEF n, more
<1>4. \A i \in 1..k : said[i] <= b /\ said[i] <= b + 1
  BY DEF Says
<1>5. {i \in 1..k : said[i] = b + 1} = {}
  BY <1>4
<1>6. ASSUME NEW j \in 1..n
      PROVE  /\ more[j].id \in 1..b /\ kinds[more[j].id] = "toolUse"
             /\ more[j].args = {i \in 1..k : said[i] = more[j].id}
             /\ \A l \in 1..(j - 1) : more[l].id < more[j].id
  <2>1. more[j] = calls[j] /\ \A l \in 1..(j - 1) : more[l] = calls[l]
    BY <1>1, <1>2
  <2> QED BY <2>1 DEF Says, n
<1>7. \A l \in 1..n : more[l].id < b + 1
  BY <1>6
<1>8. ASSUME NEW i \in 1..(b + 1), kinds[i] = "toolUse" PROVE \E j \in 1..(n + 1) : more[j].id = i
  <2>1. CASE i = b + 1
    BY <1>1, <1>3, <2>1
  <2>2. CASE i \in 1..b
    <3>1. PICK j \in 1..n : calls[j].id = i
      BY <1>8, <2>2 DEF Says, n
    <3> QED BY <1>1, <1>2, <3>1
  <2> QED BY <2>1, <2>2
<1>9. ASSUME NEW j \in 1..(n + 1)
      PROVE  /\ more[j].id \in 1..(b + 1) /\ kinds[more[j].id] = "toolUse"
             /\ more[j].args = {i \in 1..k : said[i] = more[j].id}
             /\ \A l \in 1..(j - 1) : more[l].id < more[j].id
  <2>1. CASE j = n + 1
    BY <1>1, <1>3, <1>5, <1>7, <2>1
  <2>2. CASE j \in 1..n
    BY <1>6, <2>2
  <2> QED BY <1>1, <2>1, <2>2
<1>10. content = {i \in 1..k : kinds[said[i]] = "text"}
  BY DEF Says
<1> QED BY <1>2, <1>4, <1>8, <1>9, <1>10 DEF Says, more

\* A part of a text goes into the content.
LEMMA TextHeard ==
  ASSUME NEW content, NEW calls, NEW k \in Nat, NEW b \in Nat, Says(content, calls, k, b),
         said[k + 1] = b, kinds[b] = "text"
  PROVE  Says(content \cup {k + 1}, calls, k + 1, b)
<1>1. content \cup {k + 1} = {i \in 1..(k + 1) : kinds[said[i]] = "text"}
  BY DEF Says
<1>2. \A i \in 1..(k + 1) : said[i] <= b
  BY DEF Says
<1>3. ASSUME NEW j \in 1..Len(calls)
      PROVE  calls[j].args = {i \in 1..(k + 1) : said[i] = calls[j].id}
  <2>1. said[k + 1] # calls[j].id /\ calls[j].args = {i \in 1..k : said[i] = calls[j].id}
    BY DEF Says
  <2> QED BY <2>1
<1> QED BY <1>1, <1>2, <1>3 DEF Says

\* A part of the input of a tool goes to the call that was begun last, and that
\* is the right one.
LEMMA InputHeard ==
  ASSUME NEW content, NEW calls \in Calls, NEW k \in Nat, NEW b \in Nat \ {0},
         Says(content, calls, k, b), said[k + 1] = b, kinds[b] = "toolUse",
         NEW fed, Len(fed) = Len(calls),
         \A j \in 1..Len(calls) :
           /\ fed[j].id = calls[j].id
           /\ fed[j].args = IF j = Len(calls) THEN calls[j].args \cup {k + 1} ELSE calls[j].args
  PROVE  Says(content, fed, k + 1, b)
<1> DEFINE n == Len(calls)
<1>1. n \in Nat /\ \A j \in 1..n : calls[j].id \in Nat
  BY CallTypes
<1>2. content = {i \in 1..(k + 1) : kinds[said[i]] = "text"}
  BY DEF Says
<1>3. \A i \in 1..(k + 1) : said[i] <= b
  <2>1. \A i \in 1..k : said[i] <= b
    BY DEF Says
  <2>2. \A i \in 1..(k + 1) : i \in 1..k \/ i = k + 1
    OBVIOUS
  <2> QED BY <2>1, <2>2
<1>4. PICK m \in 1..n : calls[m].id = b
  BY DEF Says
<1>5. /\ \A j \in 1..n : calls[j].id <= b
      /\ \A j \in 1..n : \A l \in 1..(j - 1) : calls[l].id < calls[j].id
  BY <1>1 DEF Says
<1>6. m = n
  <2>1. ASSUME m < n PROVE FALSE
    <3>1. n \in 1..n /\ m \in 1..(n - 1)
      BY <1>1, <2>1
    <3>2. calls[m].id < calls[n].id /\ calls[n].id <= b /\ calls[n].id \in Nat
      BY <1>1, <1>5, <3>1
    <3> QED BY <1>4, <3>2
  <2> QED BY <1>1, <2>1
<1>7. ASSUME NEW j \in 1..n, j # n PROVE calls[j].id # b
  <2>1. j \in 1..(n - 1) /\ n \in 1..n
    BY <1>1, <1>7
  <2>2. calls[j].id < b /\ calls[j].id \in Nat
    BY <1>1, <1>4, <1>5, <1>6, <2>1
  <2> QED BY <2>2
<1>8. ASSUME NEW j \in 1..n
      PROVE  fed[j].args = {i \in 1..(k + 1) : said[i] = fed[j].id}
  <2>1. calls[j].args = {i \in 1..k : said[i] = calls[j].id}
    BY DEF Says
  <2>2. CASE j = n
    <3>1. {i \in 1..(k + 1) : said[i] = b} = {i \in 1..k : said[i] = b} \cup {k + 1}
      OBVIOUS
    <3> QED BY <1>4, <1>6, <2>1, <2>2, <3>1, ZenonT(30)
  <2>3. CASE j # n
    <3>1. {i \in 1..(k + 1) : said[i] = calls[j].id} = {i \in 1..k : said[i] = calls[j].id}
      BY <1>7, <2>3
    <3> QED BY <2>1, <2>3, <3>1
  <2> QED BY <2>2, <2>3
<1>9. ASSUME NEW j \in 1..n, NEW l \in 1..(j - 1) PROVE fed[l].id < fed[j].id
  <2>1. l \in 1..n
    BY <1>1
  <2> QED BY <1>5, <2>1
<1>10. \A j \in 1..n : fed[j].id = calls[j].id
  OBVIOUS
<1>11. /\ \A j \in 1..n : fed[j].id \in 1..b /\ kinds[fed[j].id] = "toolUse"
       /\ \A i \in 1..b : kinds[i] = "toolUse" => \E j \in 1..n : fed[j].id = i
  <2>1. /\ \A j \in 1..n : calls[j].id \in 1..b /\ kinds[calls[j].id] = "toolUse"
        /\ \A i \in 1..b : kinds[i] = "toolUse" => \E j \in 1..n : calls[j].id = i
    BY DEF Says
  <2> HIDE DEF n
  <2> QED BY <1>10, <2>1, Zenon
<1> QED BY <1>2, <1>3, <1>8, <1>9, <1>11 DEF Says

\* What the caller has heard goes on being true, while it hears nothing.
LEMMA HeardOn ==
  ASSUME TypeInv, NEW k \in 0..Len(said), NEW b \in 0..Len(kinds), HeardUpTo(k, b), heard' = heard,
         \A i \in 1..Len(said) : said'[i] = said[i], \A i \in 1..Len(kinds) : kinds'[i] = kinds[i]
  PROVE  HeardUpTo(k, b)'
<1> DEFINE c == heard.calls
           m == heard.content
<1>1. Says(m, c, k, b)
  BY HeardIsSaid DEF TypeInv
<1>2. Len(said) \in Nat /\ Len(kinds) \in Nat /\ \A i \in 1..Len(said) : said[i] \in 1..Len(kinds)
  BY DEF TypeInv, TypeOK
<1>3. (heard \in Messages)' /\ heard'.content = m /\ heard'.calls = c
  BY DEF TypeInv, Messages, Calls
<1> HIDE DEF c, m
<1>4. \A i \in 1..k : i \in 1..Len(said) /\ said'[i] = said[i] /\ kinds'[said[i]] = kinds[said[i]]
  BY <1>2
<1>5. \A i \in 1..b : i \in 1..Len(kinds) /\ kinds'[i] = kinds[i]
  BY <1>2
<1>6. m = {i \in 1..k : kinds'[said'[i]] = "text"}
  <2>1. {i \in 1..k : kinds'[said'[i]] = "text"} = {i \in 1..k : kinds[said[i]] = "text"}
    BY <1>4
  <2> QED BY <1>1, <2>1 DEF Says
<1>7. \A j \in 1..Len(c) : c[j].args = {i \in 1..k : said'[i] = c[j].id}
  <2>1. \A n : {i \in 1..k : said'[i] = n} = {i \in 1..k : said[i] = n}
    BY <1>4
  <2>2. \A j \in 1..Len(c) : c[j].args = {i \in 1..k : said[i] = c[j].id}
    BY <1>1 DEF Says
  <2> QED BY <2>1, <2>2
<1>8. /\ \A i \in 1..k : said'[i] <= b
      /\ \A j \in 1..Len(c) : c[j].id \in 1..b /\ kinds'[c[j].id] = "toolUse"
      /\ \A i \in 1..b : kinds'[i] = "toolUse" => \E j \in 1..Len(c) : c[j].id = i
      /\ \A j \in 1..Len(c) : \A l \in 1..(j - 1) : c[l].id < c[j].id
  BY <1>1, <1>4, <1>5 DEF Says
<1>9. Says(heard.content, heard.calls, k, b)'
  <2> SUFFICES
         /\ \A i \in 1..k : said'[i] <= b
         /\ heard'.content = {i \in 1..k : kinds'[said'[i]] = "text"}
         /\ \A j \in 1..Len(heard'.calls) :
              heard'.calls[j].id \in 1..b /\ kinds'[heard'.calls[j].id] = "toolUse"
         /\ \A i \in 1..b : kinds'[i] = "toolUse" => \E j \in 1..Len(heard'.calls) : heard'.calls[j].id = i
         /\ \A j \in 1..Len(heard'.calls) :
              heard'.calls[j].args = {i \in 1..k : said'[i] = heard'.calls[j].id}
         /\ \A j \in 1..Len(heard'.calls) : \A l \in 1..(j - 1) :
              heard'.calls[l].id < heard'.calls[j].id
    BY DEF Says
  <2>1. /\ heard'.content = m
        /\ \A i \in 1..k : said'[i] <= b
        /\ \A i \in 1..b : kinds'[i] = "toolUse" => \E j \in 1..Len(c) : c[j].id = i
    BY <1>3, <1>8
  <2> QED BY <1>3, <1>6, <1>7, <1>8, <2>1
<1> QED BY <1>3, <1>9, HeardIsSaidNext

-----------------------------------------------------------------------------
(* Types.                                                                  *)

Kinds == {"text", "toolUse"}

LEMMA SeqGrows ==
  ASSUME NEW S, NEW T, NEW s \in Seq(S), S \subseteq T
  PROVE  s \in Seq(T)
  OBVIOUS

\* What the service has produced only grows.
LEMMA Grows ==
  ASSUME TypeInv, Service
  PROVE  /\ kinds' \in Seq(Kinds) /\ Len(kinds') <= MaxBlocks
         /\ said' \in Seq(DOMAIN kinds') /\ Len(said') <= MaxParts
         /\ Len(kinds) <= Len(kinds') /\ Len(said) <= Len(said')
         /\ \A i \in 1..Len(kinds) : kinds'[i] = kinds[i]
         /\ \A i \in 1..Len(said) : said'[i] = said[i]
<1>1. /\ kinds \in Seq(Kinds) /\ Len(kinds) <= MaxBlocks
      /\ said \in Seq(DOMAIN kinds) /\ Len(said) <= MaxParts
      /\ MaxBlocks \in Nat /\ MaxParts \in Nat
  BY StreamAssumption DEF TypeInv, TypeOK, Kinds
<1>2. CASE UNCHANGED <<kinds, said>>
  BY <1>1, <1>2
<1>3. ASSUME NEW k \in Kinds, StartBlock(k)
      PROVE  /\ kinds' \in Seq(Kinds) /\ Len(kinds') = Len(kinds) + 1 /\ Len(kinds') <= MaxBlocks
             /\ DOMAIN kinds \subseteq DOMAIN kinds' /\ said' = said
             /\ \A i \in 1..Len(kinds) : kinds'[i] = kinds[i]
             /\ kinds'[Len(kinds) + 1] = k
  <2>1. kinds' = Append(kinds, k) /\ Len(kinds) < MaxBlocks /\ said' = said
    BY <1>3 DEF StartBlock
  <2> HIDE DEF Kinds
  <2>2. /\ Len(kinds) \in Nat /\ DOMAIN kinds = 1..Len(kinds)
        /\ kinds' \in Seq(Kinds) /\ Len(kinds') = Len(kinds) + 1
        /\ \A i \in 1..Len(kinds) : kinds'[i] = kinds[i]
        /\ kinds'[Len(kinds) + 1] = k
    BY <1>1, <1>3, <2>1, SeqParts
  <2>3. DOMAIN kinds' = 1..Len(kinds')
    BY <1>3, <2>2, SeqParts
  <2> QED BY <1>1, <2>1, <2>2, <2>3
<1>4. ASSUME NEW k \in Kinds, StartBlock(k)
      PROVE  said' \in Seq(DOMAIN kinds')
  BY <1>1, <1>3, <1>4, SeqGrows
<1>5. ASSUME SendPart, said' = Append(said, Len(kinds))
      PROVE  /\ said' \in Seq(DOMAIN kinds') /\ Len(said') = Len(said) + 1 /\ Len(said') <= MaxParts
             /\ kinds' = kinds
             /\ \A i \in 1..Len(said) : said'[i] = said[i]
  <2>1. Len(said) < MaxParts /\ kinds' = kinds /\ kinds # <<>>
    BY <1>5 DEF SendPart, TypeInv, OfferRight
  <2>2. Len(kinds) \in DOMAIN kinds
    BY <1>1, <2>1
  <2> DEFINE D == DOMAIN kinds
  <2>3. said \in Seq(D) /\ Len(kinds) \in D
    BY <1>1, <2>2
  <2> HIDE DEF D
  <2>4. /\ said' \in Seq(D) /\ Len(said') = Len(said) + 1 /\ Len(said) \in Nat
        /\ \A i \in 1..Len(said) : said'[i] = said[i]
    BY <1>5, <2>3, SeqParts
  <2> QED BY <1>1, <2>1, <2>4 DEF D
<1>6. \/ UNCHANGED <<kinds, said>>
      \/ \E k \in Kinds : StartBlock(k)
      \/ SendPart /\ said' = Append(said, Len(kinds))
  BY DEF Service, StartMessage, SendPart, StopBlock, StopMessage, SendMetadata, Kinds
<1>7. Len(kinds) \in Nat /\ Len(said) \in Nat
  BY <1>1
<1>8. CASE \E k \in Kinds : StartBlock(k)
  <2>1. PICK k \in Kinds : StartBlock(k)
    BY <1>8
  <2> QED BY <1>1, <1>3, <1>4, <1>7, <2>1
<1> QED BY <1>1, <1>2, <1>5, <1>6, <1>7, <1>8

LEMMA ServiceTypes ==
  ASSUME TypeInv, Service
  PROVE  TypeOK'
<1>1. /\ open = TRUE /\ event = NoEvent
      /\ UNCHANGED <<open, err, done, currentToolID, toolInputParts>>
      /\ UNCHANGED <<at, chunk, heard, finish, ended>>
  BY DEF Service, StartMessage, StartBlock, SendPart, StopBlock, StopMessage, SendMetadata, Offer,
         TypeInv, TypeOK, tracked, caller
<1>2. /\ kinds' \in Seq({"text", "toolUse"}) /\ Len(kinds') <= MaxBlocks
      /\ said' \in Seq(DOMAIN kinds') /\ Len(said') <= MaxParts
  BY Grows DEF Kinds
<1>3. Len(kinds) \in Nat /\ Len(said) \in Nat /\ Len(kinds') \in Nat /\ Len(said') \in Nat
  BY <1>2 DEF TypeInv, TypeOK
<1>4. stage' \in {"start", "between", "block", "stopped", "over"}
  BY DEF Service, StartMessage, StartBlock, SendPart, StopBlock, StopMessage, SendMetadata, Offer
<1>5. event'.block \in 0..Len(kinds') /\ event'.part \in 0..Len(said')
  BY <1>3 DEF Service, StartMessage, StartBlock, SendPart, StopBlock, StopMessage, SendMetadata,
              Offer, Event, NoEvent
<1>6. ({open, err, done} \subseteq BOOLEAN)'
  BY <1>1, Zenon DEF TypeInv, TypeOK
<1>7. toolInputParts' \subseteq DOMAIN said'
  <2>1. DOMAIN said = 1..Len(said) /\ DOMAIN said' = 1..Len(said') /\ Len(said) <= Len(said')
    BY <1>2, Grows DEF TypeInv, TypeOK
  <2> QED BY <1>1, <1>3, <2>1 DEF TypeInv, TypeOK
<1>8. (currentToolID # 0 => /\ heard.calls # <<>>
                            /\ Last(heard.calls) = Call(currentToolID, toolInputParts))'
  BY <1>1 DEF TypeInv, TypeOK
<1>9. (at \in {"idle", "recv", "ended"} /\ (at = "ended" <=> ended # "none"))'
  BY <1>1 DEF TypeInv, TypeOK
<1> QED BY <1>2, <1>4, <1>5, <1>6, <1>7, <1>8, <1>9 DEF TypeOK

LEMMA ServiceOffers ==
  ASSUME TypeInv, Service
  PROVE  OfferRight'
<1>1. TypeOK'
  BY ServiceTypes
<1>2. Len(kinds) \in Nat /\ Len(said) \in Nat /\ Len(kinds') \in Nat /\ Len(said') \in Nat
  BY <1>1 DEF TypeInv, TypeOK
<1>3. event' \in [type : EventTypes, block : 0..Len(kinds'), part : 0..Len(said')]
  <2>1. \E t \in EventTypes, n \in Nat, m \in Nat : event' = Event(t, n, m)
    BY <1>2 DEF Service, StartMessage, StartBlock, SendPart, StopBlock, StopMessage, SendMetadata,
                Offer, NoEvent, EventTypes
  <2>2. event'.block \in 0..Len(kinds') /\ event'.part \in 0..Len(said')
    BY <1>1 DEF TypeOK
  <2> QED BY <2>1, <2>2 DEF Event
<1>4. (event.type = "delta" =>
         /\ stage = "block" /\ said # <<>>
         /\ event.part = Len(said) /\ event.block = Len(kinds) /\ said[Len(said)] = Len(kinds))'
  <2>1. SUFFICES ASSUME event'.type = "delta"
                 PROVE  /\ stage' = "block" /\ said' # <<>>
                        /\ event'.part = Len(said') /\ event'.block = Len(kinds')
                        /\ said'[Len(said')] = Len(kinds')
    OBVIOUS
  <2>2. /\ stage' = "block" /\ said' = Append(said, Len(kinds)) /\ kinds' = kinds
        /\ event' = Event("delta", Len(kinds), Len(said) + 1)
    BY <2>1 DEF Service, StartMessage, StartBlock, SendPart, StopBlock, StopMessage, SendMetadata,
                Offer, Event, NoEvent
  <2>3. said \in Seq(Nat) /\ Len(kinds) \in Nat
    BY <1>2 DEF TypeInv, TypeOK
  <2>4. /\ Len(said') = Len(said) + 1 /\ said'[Len(said) + 1] = Len(kinds) /\ said' # <<>>
    BY <2>2, <2>3
  <2> QED BY <2>2, <2>4 DEF Event
<1>5. (event.type = "blockStart" =>
         /\ stage = "block" /\ kinds # <<>>
         /\ event.block = Len(kinds) /\ \A i \in DOMAIN said : said[i] < Len(kinds))'
  <2>1. SUFFICES ASSUME event'.type = "blockStart"
                 PROVE  /\ stage' = "block" /\ kinds' # <<>> /\ event'.block = Len(kinds')
                        /\ \A i \in DOMAIN said' : said'[i] < Len(kinds')
    OBVIOUS
  <2>2. /\ stage' = "block" /\ said' = said
        /\ event' = Event("blockStart", Len(kinds) + 1, 0)
        /\ \E k \in Kinds : kinds' = Append(kinds, k)
    BY <2>1 DEF Service, StartMessage, StartBlock, SendPart, StopBlock, StopMessage, SendMetadata,
                Offer, Event, NoEvent, Kinds
  <2>3. kinds' # <<>> /\ Len(kinds') = Len(kinds) + 1
    BY <2>2 DEF TypeInv, TypeOK, Kinds
  <2>4. \A i \in DOMAIN said : said[i] \in 1..Len(kinds)
    BY <1>2 DEF TypeInv, TypeOK
  <2> QED BY <1>2, <2>2, <2>3, <2>4 DEF Event
<1>6. (stage = "block" => kinds # <<>>)'
  <2>1. Len(kinds') >= Len(kinds)
    BY Grows
  <2>2. kinds # <<>> => kinds' # <<>>
    BY <1>1, <1>2, <2>1 DEF TypeInv, TypeOK
  <2>3. ASSUME stage' = "block" PROVE stage = "block" \/ \E k \in Kinds : kinds' = Append(kinds, k)
    BY <2>3 DEF Service, StartMessage, StartBlock, SendPart, StopBlock, StopMessage, SendMetadata,
                Offer, Kinds
  <2>4. ASSUME NEW k \in Kinds, kinds' = Append(kinds, k) PROVE kinds' # <<>>
    BY <2>4 DEF TypeInv, TypeOK, Kinds
  <2> QED BY <2>2, <2>3, <2>4 DEF TypeInv, OfferRight
<1>7. (stage \in {"stopped", "over"} => event.type \notin {"blockStart", "delta"} /\ reason \in Reasons)'
  BY DEF Service, StartMessage, StartBlock, SendPart, StopBlock, StopMessage, SendMetadata, Offer,
         TypeInv, OfferRight, Event, NoEvent
<1>8. (event.type = "messageStop" => stage \in {"stopped", "over"})'
  BY DEF Service, StartMessage, StartBlock, SendPart, StopBlock, StopMessage, SendMetadata, Offer,
         Event, NoEvent
<1> QED BY <1>3, <1>4, <1>5, <1>6, <1>7, <1>8 DEF OfferRight

\* The caller hears a chunk of each kind as Merge, Track and finish tell; no
\* chunk, or one that says nothing, leaves its message alone.
LEMMA Hears ==
  ASSUME TypeInv, RecvEvent
  PROVE  /\ UNCHANGED <<service, open, err, done, ended>> /\ event' = NoEvent /\ at = "recv" /\ open = TRUE
         /\ at' \in {"idle", "recv"}
         /\ event.type = "blockStart" /\ Kind(event) = "toolUse" =>
              /\ heard' = [content |-> heard.content,
                           calls |-> Append(heard.calls, Call(event.block, {}))]
              /\ currentToolID' = event.block /\ toolInputParts' = {}
         /\ event.type = "delta" /\ Kind(event) = "text" =>
              /\ heard' = [content |-> heard.content \cup {event.part}, calls |-> heard.calls]
              /\ UNCHANGED tracked
         /\ event.type = "delta" /\ Kind(event) # "text" =>
              /\ heard' = Merge(heard, Chunk({}, <<Call(0, {event.part})>>, {}))
              /\ currentToolID' = currentToolID
              /\ Kind(event) = "toolUse" => toolInputParts' = toolInputParts \cup {event.part}
         /\ event.type = "blockStart" /\ Kind(event) # "toolUse" => heard' = heard /\ UNCHANGED tracked
         /\ event.type \notin {"blockStart", "delta"} =>
              /\ heard' = heard
              /\ UNCHANGED tracked \/ (currentToolID' = 0 /\ toolInputParts' = {})
         /\ finish' = IF event.type = "messageStop" THEN mapStopReason(reason) ELSE finish
<1>1. /\ UNCHANGED <<service, open, err, done, ended>> /\ event' = NoEvent /\ at = "recv" /\ open = TRUE
      /\ Track(event)
      /\ \/ processEvent(event) = {} /\ UNCHANGED <<at, chunk, heard, finish>>
         \/ \E c \in processEvent(event) :
              /\ at' = "idle"
              /\ heard' = Merge(heard, c)
              /\ finish' = IF c.finish = {} THEN finish ELSE CHOOSE r \in c.finish : TRUE
  BY DEF RecvEvent, TypeInv, TypeOK
<1>2. at' \in {"idle", "recv"}
  BY <1>1
<1>3. \A c : c.content = {} /\ c.calls = <<>> => Merge(heard, c) = heard
  BY DEF Merge, TypeInv, Messages
<1> DEFINE t == event.type
<1>4. CASE t = "blockStart" /\ Kind(event) = "toolUse"
  <2>1. processEvent(event) = {Chunk({}, <<Call(event.block, {})>>, {})}
    BY <1>4 DEF processEvent, handleContentBlockStart, Chunk, NoChunk
  <2>2. currentToolID' = event.block /\ toolInputParts' = {}
    BY <1>1, <1>4 DEF Track
  <2>3. Merge(heard, Chunk({}, <<Call(event.block, {})>>, {}))
          = [content |-> heard.content, calls |-> Append(heard.calls, Call(event.block, {}))]
    <3>1. event.block \in Nat /\ event.block # 0
      BY <1>4 DEF TypeInv, OfferRight, TypeOK
    <3>2. heard.calls \o <<Call(event.block, {})>> = Append(heard.calls, Call(event.block, {}))
      BY DEF TypeInv, Messages, Calls
    <3> QED BY <3>1, <3>2 DEF Merge, Chunk, Call, TypeInv, Messages
  <2> QED BY <1>1, <1>2, <1>4, <2>1, <2>2, <2>3 DEF Chunk
<1>5. CASE t = "blockStart" /\ Kind(event) # "toolUse"
  <2>1. processEvent(event) = {}
    BY <1>5 DEF processEvent, handleContentBlockStart
  <2>2. UNCHANGED tracked
    BY <1>1, <1>5 DEF Track
  <2> QED BY <1>1, <1>2, <1>5, <2>1, <2>2
<1>6. CASE t = "delta" /\ Kind(event) = "text"
  <2>1. processEvent(event) = {Chunk({event.part}, <<>>, {})}
    BY <1>6 DEF processEvent, handleContentBlockDelta
  <2>2. UNCHANGED tracked
    BY <1>1, <1>6 DEF Track
  <2>3. Merge(heard, Chunk({event.part}, <<>>, {}))
          = [content |-> heard.content \cup {event.part}, calls |-> heard.calls]
    BY DEF Merge, Chunk
  <2> QED BY <1>1, <1>2, <1>6, <2>1, <2>2, <2>3 DEF Chunk
<1>7. CASE t = "delta" /\ Kind(event) # "text"
  <2>1. processEvent(event) = {Chunk({}, <<Call(0, {event.part})>>, {})}
    BY <1>7 DEF processEvent, handleContentBlockDelta
  <2>2. /\ currentToolID' = currentToolID
        /\ Kind(event) = "toolUse" => toolInputParts' = toolInputParts \cup {event.part}
    BY <1>1, <1>7 DEF Track, tracked
  <2> QED BY <1>1, <1>2, <1>7, <2>1, <2>2 DEF Chunk
<1>8. CASE t = "messageStop"
  <2>1. processEvent(event) = {Chunk({}, <<>>, {mapStopReason(reason)})}
    BY <1>8 DEF processEvent, handleMessageStop
  <2>2. UNCHANGED tracked
    BY <1>1, <1>8 DEF Track
  <2>3. /\ heard' = Merge(heard, Chunk({}, <<>>, {mapStopReason(reason)}))
        /\ finish' = mapStopReason(reason)
    BY <1>1, <2>1 DEF Chunk
  <2>4. heard' = heard
    BY <1>3, <2>3 DEF Chunk
  <2> QED BY <1>1, <1>2, <1>8, <2>2, <2>3, <2>4
<1>9. CASE t \notin {"blockStart", "delta", "messageStop"}
  <2>1. processEvent(event) \in {{}, {UsageChunk}}
    BY <1>9 DEF processEvent, handleMetadata
  <2>2. UNCHANGED tracked \/ (currentToolID' = 0 /\ toolInputParts' = {})
    BY <1>1, <1>9 DEF Track
  <2>3. heard' = heard /\ finish' = finish
    BY <1>1, <1>3, <2>1 DEF UsageChunk
  <2> QED BY <1>1, <1>2, <1>9, <2>2, <2>3
<1> QED BY <1>4, <1>5, <1>6, <1>7, <1>8, <1>9

LEMMA SeqMade ==
  ASSUME NEW S, NEW n \in Nat, NEW s \in [1..n -> S]
  PROVE  s \in Seq(S) /\ Len(s) = n
  OBVIOUS

\* Merging a piece of input into the last call.
LEMMA Feeds ==
  ASSUME heard \in Messages, NEW p \in Nat
  PROVE  LET fed == Merge(heard, Chunk({}, <<Call(0, {p})>>, {})) IN
         /\ fed \in Messages /\ fed.content = heard.content
         /\ Len(fed.calls) = Len(heard.calls)
         /\ \A j \in 1..Len(heard.calls) :
              /\ fed.calls[j].id = heard.calls[j].id
              /\ fed.calls[j].args = IF j = Len(heard.calls) THEN heard.calls[j].args \cup {p}
                                     ELSE heard.calls[j].args
<1> DEFINE C   == [id : Nat, args : SUBSET Nat]
           c   == heard.calls
           new == [i \in DOMAIN c |-> IF i = Len(c) THEN [c[i] EXCEPT !.args = @ \cup {p}] ELSE c[i]]
<1>1. c \in Seq(C) /\ heard.content \in SUBSET Nat
  BY DEF Messages, Calls
<1>2. Merge(heard, Chunk({}, <<Call(0, {p})>>, {})) = [content |-> heard.content, calls |-> new]
  BY DEF Merge, Chunk, Call
<1> HIDE DEF C
<1>3. Len(c) \in Nat /\ DOMAIN c = 1..Len(c) /\ \A j \in 1..Len(c) : c[j] \in C
  BY <1>1
<1> HIDE DEF c
<1>4. \A j \in 1..Len(c) : /\ [c[j] EXCEPT !.args = @ \cup {p}] \in C
                          /\ [c[j] EXCEPT !.args = @ \cup {p}].id = c[j].id
                          /\ [c[j] EXCEPT !.args = @ \cup {p}].args = c[j].args \cup {p}
  BY <1>3 DEF C
<1>5. new \in [1..Len(c) -> C]
  BY <1>3, <1>4
<1>6. \A j \in 1..Len(c) :
        new[j].id = c[j].id /\ new[j].args = IF j = Len(c) THEN c[j].args \cup {p} ELSE c[j].args
  BY <1>3, <1>4
<1> HIDE DEF new
<1>7. new \in Seq(C) /\ Len(new) = Len(c)
  BY <1>3, <1>5, SeqMade
<1>8. [content |-> heard.content, calls |-> new] \in Messages
  BY <1>1, <1>7 DEF Messages, Calls, C
<1> DEFINE fed == Merge(heard, Chunk({}, <<Call(0, {p})>>, {}))
<1>9. fed.content = heard.content /\ fed.calls = new
  BY <1>2
<1>10. fed \in Messages
  BY <1>2, <1>8
<1> HIDE DEF fed
<1>11. /\ Len(fed.calls) = Len(c)
       /\ \A j \in 1..Len(c) :
            /\ fed.calls[j].id = c[j].id
            /\ fed.calls[j].args = IF j = Len(c) THEN c[j].args \cup {p} ELSE c[j].args
  BY <1>6, <1>7, <1>9
<1> QED BY <1>9, <1>10, <1>11 DEF c, fed

LEMMA RecvTypes ==
  ASSUME TypeInv, RecvEvent
  PROVE  TypeInv'
<1>1. /\ UNCHANGED <<kinds, said, stage, reason, open, err, done, ended>>
      /\ event' = NoEvent /\ at = "recv" /\ at' \in {"idle", "recv"}
  BY Hears DEF service
<1>2. /\ Len(kinds) \in Nat /\ Len(said) \in Nat /\ DOMAIN said = 1..Len(said)
      /\ event \in [type : EventTypes, block : 0..Len(kinds), part : 0..Len(said)]
      /\ heard \in Messages /\ toolInputParts \subseteq 1..Len(said)
      /\ currentToolID # 0 => /\ heard.calls # <<>>
                             /\ Last(heard.calls) = Call(currentToolID, toolInputParts)
  BY DEF TypeInv, TypeOK, OfferRight
<1>3. Len(heard.calls) \in Nat /\ heard.calls \in Calls /\ heard.content \in SUBSET Nat
  BY <1>2 DEF Messages, Calls
<1>4. event.type = "delta" => event.part \in 1..Len(said)
  BY <1>2 DEF TypeInv, OfferRight, TypeOK
<1>5. Kind(event) \in Kinds \/ event.type \notin {"blockStart", "delta"}
  BY <1>2 DEF TypeInv, OfferRight, TypeOK, Kind, Kinds
<1> DEFINE Tracked == currentToolID' # 0 => /\ heard'.calls # <<>>
                                            /\ Last(heard'.calls) = Call(currentToolID', toolInputParts')
<1>6. heard' \in Messages /\ Tracked /\ toolInputParts' \subseteq 1..Len(said)
  <2>1. CASE event.type = "blockStart" /\ Kind(event) = "toolUse"
    <3>1. /\ heard' = [content |-> heard.content,
                       calls |-> Append(heard.calls, Call(event.block, {}))]
          /\ currentToolID' = event.block /\ toolInputParts' = {}
      BY <2>1, Hears
    <3>2. Call(event.block, {}) \in [id : Nat, args : SUBSET Nat]
      BY <1>2 DEF Call
    <3> DEFINE C == [id : Nat, args : SUBSET Nat]
               new == Append(heard.calls, Call(event.block, {}))
    <3>3. heard.calls \in Seq(C) /\ Call(event.block, {}) \in C
      BY <1>3, <3>2 DEF Calls
    <3> HIDE DEF C
    <3>4. new \in Seq(C) /\ Len(new) = Len(heard.calls) + 1 /\ new[Len(new)] = Call(event.block, {})
      BY <3>3
    <3>5. new # <<>> /\ Last(new) = Call(event.block, {})
      BY <1>3, <3>4 DEF Last
    <3>6. heard'.calls = new /\ heard'.content = heard.content
      BY <3>1
    <3>7. heard' \in Messages
      BY <1>3, <3>1, <3>4 DEF Messages, Calls, C
    <3> QED BY <3>1, <3>5, <3>6, <3>7
  <2>2. CASE event.type = "delta" /\ Kind(event) = "text"
    <3>1. /\ heard' = [content |-> heard.content \cup {event.part}, calls |-> heard.calls]
          /\ UNCHANGED <<currentToolID, toolInputParts>>
      BY <2>2, Hears DEF tracked
    <3>2. heard' \in Messages
      BY <1>3, <1>4, <2>2, <3>1 DEF Messages
    <3> QED BY <1>2, <3>1, <3>2
  <2>3. CASE event.type = "delta" /\ Kind(event) = "toolUse"
    <3> DEFINE p == event.part
               c == heard.calls
               f == heard'.calls
    <3>1. /\ heard' = Merge(heard, Chunk({}, <<Call(0, {p})>>, {}))
          /\ currentToolID' = currentToolID /\ toolInputParts' = toolInputParts \cup {p}
          /\ p \in 1..Len(said) /\ p \in Nat
      BY <1>2, <1>4, <2>3, Hears
    <3>2. /\ heard' \in Messages /\ Len(f) = Len(c)
          /\ \A j \in 1..Len(c) :
               /\ f[j].id = c[j].id
               /\ f[j].args = IF j = Len(c) THEN c[j].args \cup {p} ELSE c[j].args
      BY <1>2, <3>1, Feeds
    <3> DEFINE C == [id : Nat, args : SUBSET Nat]
    <3>3. f \in Seq(C)
      BY <3>2 DEF Messages, Calls
    <3> HIDE DEF p, c, f, C
    <3>4. ASSUME currentToolID # 0 PROVE f # <<>> /\ Last(f) = Call(currentToolID, toolInputParts \cup {p})
      <4>1. c # <<>> /\ Last(c) = Call(currentToolID, toolInputParts) /\ Len(c) \in Nat
        BY <1>2, <1>3, <3>4 DEF c
      <4>2. Len(c) \in 1..Len(c)
        BY <1>3, <4>1 DEF c, Calls
      <4>3. c[Len(c)].id = currentToolID /\ c[Len(c)].args = toolInputParts
        BY <4>1 DEF Last, Call
      <4>4. f[Len(f)].id = currentToolID /\ f[Len(f)].args = toolInputParts \cup {p}
        BY <3>2, <4>2, <4>3
      <4>5. f[Len(f)] \in C /\ f # <<>>
        BY <3>2, <3>3, <4>2
      <4>6. f[Len(f)] = Call(currentToolID, toolInputParts \cup {p})
        BY <4>4, <4>5 DEF Call, C
      <4> QED BY <4>5, <4>6 DEF Last
    <3>5. toolInputParts' \subseteq 1..Len(said)
      BY <1>2, <3>1
    <3> QED BY <3>1, <3>2, <3>4, <3>5 DEF f
  <2>4. CASE event.type = "blockStart" /\ Kind(event) # "toolUse"
    BY <1>2, <2>4, Hears DEF tracked
  <2>5. CASE event.type \notin {"blockStart", "delta"}
    BY <1>2, <2>5, Hears DEF tracked
  <2> QED BY <1>5, <2>1, <2>2, <2>3, <2>4, <2>5 DEF Kinds
<1>7. ({open, err, done} \subseteq BOOLEAN)'
  BY <1>1, Zenon DEF TypeInv, TypeOK
<1>8. (at \in {"idle", "recv", "ended"} /\ (at = "ended" <=> ended # "none"))'
  BY <1>1 DEF TypeInv, TypeOK
<1>9. (kinds \in Seq({"text", "toolUse"}) /\ Len(kinds) <= MaxBlocks
       /\ said \in Seq(DOMAIN kinds) /\ Len(said) <= MaxParts
       /\ stage \in {"start", "between", "block", "stopped", "over"})'
  BY <1>1 DEF TypeInv, TypeOK
<1>10. event'.block \in 0..Len(kinds') /\ event'.part \in 0..Len(said')
  BY <1>1, <1>2 DEF NoEvent, Event
<1>11. toolInputParts' \subseteq DOMAIN said'
  BY <1>1, <1>2, <1>6
<1>12. TypeOK'
  BY <1>6, <1>7, <1>8, <1>9, <1>10, <1>11 DEF TypeOK
<1>13. OfferRight'
  BY <1>1, <1>2 DEF OfferRight, NoEvent, Event, EventTypes, TypeInv
<1> QED BY <1>6, <1>12, <1>13 DEF TypeInv

LEMMA TypesKept ==
  TypeInv /\ [Next]_vars => TypeInv'
<1> SUFFICES ASSUME TypeInv, [Next]_vars PROVE TypeInv'
  OBVIOUS
<1>1. CASE Service
  <2>1. heard' = heard
    BY <1>1 DEF Service, StartMessage, StartBlock, SendPart, StopBlock, StopMessage, SendMetadata,
                Offer, caller
  <2> QED BY <1>1, <2>1, ServiceTypes, ServiceOffers DEF TypeInv
<1>2. CASE RecvEvent
  BY <1>2, RecvTypes
<1>3. CASE HangUp \/ Close \/ ReaderStops \/ CallRecv \/ RecvEnd \/ UNCHANGED vars
  <2>1. /\ UNCHANGED <<kinds, said, stage, reason, currentToolID, toolInputParts, heard>>
        /\ event' = event \/ event' = NoEvent
    BY <1>3 DEF HangUp, Close, ReaderStops, CallRecv, RecvEnd, vars, service, sdk, tracked, caller
  <2>2. ({open, err, done} \subseteq BOOLEAN)'
    <3>1. /\ open' = open \/ open' = FALSE
          /\ err' = err \/ err' \in BOOLEAN
          /\ done' = done \/ done' = TRUE
      BY <1>3 DEF HangUp, Close, ReaderStops, CallRecv, RecvEnd, vars, sdk
    <3> QED BY <3>1, Zenon DEF TypeInv, TypeOK
  <2>3. (at \in {"idle", "recv", "ended"} /\ (at = "ended" <=> ended # "none"))'
    BY <1>3 DEF HangUp, Close, ReaderStops, CallRecv, RecvEnd, vars, caller, TypeInv, TypeOK
  <2>4. /\ Len(kinds) \in Nat /\ Len(said) \in Nat
    BY DEF TypeInv, TypeOK
  <2>5. event'.block \in 0..Len(kinds') /\ event'.part \in 0..Len(said')
    BY <2>1, <2>4 DEF NoEvent, Event, TypeInv, TypeOK
  <2>6. OfferRight'
    BY <2>1, <2>4 DEF OfferRight, NoEvent, Event, EventTypes, TypeInv
  <2>7. (kinds \in Seq({"text", "toolUse"}) /\ Len(kinds) <= MaxBlocks
         /\ said \in Seq(DOMAIN kinds) /\ Len(said) <= MaxParts
         /\ stage \in {"start", "between", "block", "stopped", "over"}
         /\ toolInputParts \subseteq DOMAIN said
         /\ heard \in Messages
         /\ (currentToolID # 0 => /\ heard.calls # <<>>
                                 /\ Last(heard.calls) = Call(currentToolID, toolInputParts)))'
    BY <2>1 DEF TypeInv, TypeOK
  <2> QED BY <2>2, <2>3, <2>5, <2>6, <2>7 DEF TypeInv, TypeOK
<1> QED BY <1>1, <1>2, <1>3 DEF Next, Recv

LEMMA TypesAtInit == Init => TypeInv
<1> SUFFICES ASSUME Init PROVE TypeInv
  OBVIOUS
<1>1. heard \in Messages
  BY DEF Init, Nothing, Messages, Calls
<1>2. kinds \in Seq({"text", "toolUse"}) /\ said \in Seq(DOMAIN kinds) /\ Len(kinds) = 0 /\ Len(said) = 0
  BY DEF Init
<1>3. {open, err, done} \subseteq BOOLEAN
  BY Zenon DEF Init
<1>4. OfferRight
  BY <1>2 DEF OfferRight, Init, NoEvent, Event, EventTypes
<1>5. TypeOK
  BY <1>2, <1>3, StreamAssumption DEF TypeOK, Init, NoEvent, Event
<1> QED BY <1>1, <1>4, <1>5 DEF TypeInv

LEMMA TypesHold == Spec => []TypeInv
BY TypesAtInit, TypesKept, PTL DEF Spec

\* Every variable holds a value of its type, whatever the length of the message;
\* the tool call that the handlers track is the last one the caller heard of, with
\* the input it heard (converseStream, handleContentBlockStart and -Delta).
THEOREM TypeCorrect == Spec => []TypeOK
BY TypesHold, PTL DEF TypeInv

-----------------------------------------------------------------------------
(* The caller's message.                                                   *)

\* StreamInv, of a pair that is named.
LEMMA StreamInvNext ==
  (\A k \in 0..Len(said), b \in 0..Len(kinds) :
     HeardUpTo(k, b) /\ (open => k = PartsHeard /\ b = BlocksHeard) => StreamInv)'
<1>1. ASSUME NEW k \in 0..Len(said), NEW b \in 0..Len(kinds), HeardUpTo(k, b),
             open => k = PartsHeard /\ b = BlocksHeard
      PROVE  StreamInv
  <2>1. HeardInOrder
    BY <1>1 DEF HeardInOrder
  <2>2. AllHeard
    BY <1>1 DEF AllHeard
  <2> QED BY <2>1, <2>2 DEF StreamInv
<1>2. \A k \in 0..Len(said), b \in 0..Len(kinds) :
        HeardUpTo(k, b) /\ (open => k = PartsHeard /\ b = BlocksHeard) => StreamInv
  BY <1>1
<1> QED BY <1>2, PTL

LEMMA TextBegunNext ==
  (\A content, calls : \A k, b \in Nat :
     /\ Says(content, calls, k, b) /\ kinds[b + 1] = "text" /\ \A i \in 1..k : said[i] \in Nat
     => Says(content, calls, k, b + 1))'
<1>1. \A content, calls : \A k, b \in Nat :
        /\ Says(content, calls, k, b) /\ kinds[b + 1] = "text" /\ \A i \in 1..k : said[i] \in Nat
        => Says(content, calls, k, b + 1)
  BY TextBegun
<1> QED BY <1>1, PTL

\* A step of the service: what was heard before is heard still; a part or a block
\* that is new is on offer, and a text block that is not announced says nothing.
LEMMA ServiceHeard ==
  ASSUME TypeInv, TypeInv', StreamInv, Service
  PROVE  StreamInv'
<1>1. /\ event = NoEvent /\ open = TRUE /\ heard' = heard /\ open' = open
  BY DEF Service, StartMessage, StartBlock, SendPart, StopBlock, StopMessage, SendMetadata, Offer, caller,
         TypeInv, TypeOK
<1>2. /\ Len(kinds) \in Nat /\ Len(said) \in Nat /\ Len(kinds') \in Nat /\ Len(said') \in Nat
      /\ Len(kinds) <= Len(kinds') /\ Len(said) <= Len(said')
      /\ \A i \in 1..Len(kinds) : kinds'[i] = kinds[i]
      /\ \A i \in 1..Len(said) : said'[i] = said[i]
  BY Grows DEF TypeInv, TypeOK
<1>3. PICK k \in 0..Len(said), b \in 0..Len(kinds) : k = Len(said) /\ b = Len(kinds)
  BY <1>2
<1>4. HeardUpTo(k, b)
  BY <1>1, <1>3 DEF StreamInv, AllHeard, PartsHeard, BlocksHeard, NoEvent, Event
<1>5. HeardUpTo(k, b)'
  BY <1>1, <1>2, <1>4, HeardOn
<1>6. k \in 0..Len(said') /\ b \in 0..Len(kinds')
  BY <1>2
<1>7. ASSUME PartsHeard' = Len(said), BlocksHeard' = Len(kinds) PROVE StreamInv'
  BY <1>3, <1>5, <1>6, <1>7, StreamInvNext
<1>8. ASSUME NEW k0 \in Kinds, StartBlock(k0) PROVE StreamInv'
  <2>1. kinds' = Append(kinds, k0) /\ said' = said
    BY <1>8 DEF StartBlock
  <2>2. Len(kinds') = b + 1 /\ kinds'[b + 1] = k0
    BY <1>3, <2>1 DEF TypeInv, TypeOK, Kinds
  <2>3. \/ event' = Event("blockStart", Len(kinds) + 1, 0)
        \/ k0 = "text" /\ event' = NoEvent
    BY <1>8 DEF StartBlock, Offer
  <2>4. CASE event' = Event("blockStart", Len(kinds) + 1, 0)
    <3>1. PartsHeard' = Len(said) /\ BlocksHeard' = Len(kinds)
      BY <1>2, <1>3, <2>1, <2>2, <2>4 DEF PartsHeard, BlocksHeard, Event
    <3> QED BY <1>7, <3>1
  <2>5. CASE k0 = "text" /\ event' = NoEvent
    <3>1. PartsHeard' = k /\ BlocksHeard' = b + 1
      BY <1>3, <2>1, <2>2, <2>5 DEF PartsHeard, BlocksHeard, Event, NoEvent
    <3>2. \A i \in 1..k : said'[i] \in Nat
      BY <1>2, <1>3, <2>1 DEF TypeInv, TypeOK
    <3>3. heard' \in Messages /\ k \in Nat /\ b \in Nat /\ b + 1 \in 0..Len(kinds')
      BY <1>2, <2>2 DEF TypeInv
    <3>4. Says(heard.content, heard.calls, k, b)'
      BY <1>5, <3>3, HeardIsSaidNext
    <3>5. Says(heard.content, heard.calls, k, b + 1)'
      BY <2>2, <2>5, <3>2, <3>3, <3>4, TextBegunNext
    <3>6. HeardUpTo(k, b + 1)'
      BY <3>3, <3>5, HeardIsSaidNext
    <3> QED BY <1>6, <3>1, <3>3, <3>6, StreamInvNext
  <2> QED BY <2>3, <2>4, <2>5
<1>9. ASSUME SendPart PROVE StreamInv'
  <2>1. kinds' = kinds
    BY <1>9 DEF SendPart
  <2>2. \/ said' = Append(said, Len(kinds)) /\ event' = Event("delta", Len(kinds), Len(said) + 1)
        \/ said' = said /\ event' = Event("otherDelta", 0, 0)
    BY <1>9 DEF SendPart, Offer
  <2>3. Len(Append(said, Len(kinds))) = Len(said) + 1
    BY DEF TypeInv, TypeOK
  <2>4. PartsHeard' = Len(said) /\ BlocksHeard' = Len(kinds)
    BY <1>2, <2>1, <2>2, <2>3 DEF PartsHeard, BlocksHeard, Event
  <2> QED BY <1>7, <2>4
<1>10. ASSUME StartMessage \/ StopBlock \/ StopMessage \/ SendMetadata PROVE StreamInv'
  <2>1. /\ UNCHANGED <<kinds, said>>
        /\ event'.type \in {"messageStart", "blockStop", "messageStop", "metadata", "metadataWithUsage"}
    BY <1>10 DEF StartMessage, StopBlock, StopMessage, SendMetadata, Offer, Event
  <2> QED BY <1>7, <2>1 DEF PartsHeard, BlocksHeard
<1> QED BY <1>8, <1>9, <1>10 DEF Service, Kinds

\* With nothing on offer, the caller has heard all that was said.
LEMMA WholeHeardNext ==
  (event = NoEvent /\ open = TRUE /\ AllHeard => HeardUpTo(Len(said), Len(kinds)))'
<1>1. event = NoEvent /\ open = TRUE /\ AllHeard => HeardUpTo(Len(said), Len(kinds))
  BY DEF AllHeard, PartsHeard, BlocksHeard, NoEvent, Event
<1> QED BY <1>1, PTL

\* A step of Recv: the caller hears what was on offer, and so all that was said.
LEMMA RecvHeard ==
  ASSUME TypeInv, TypeInv', StreamInv, RecvEvent
  PROVE  HeardUpTo(Len(said), Len(kinds))' /\ StreamInv'
<1>1. UNCHANGED <<kinds, said, stage, reason, open>> /\ open = TRUE /\ event' = NoEvent
  BY Hears DEF service
<1>2. /\ Len(kinds) \in Nat /\ Len(said) \in Nat
      /\ event \in [type : EventTypes, block : 0..Len(kinds), part : 0..Len(said)]
      /\ heard \in Messages /\ heard' \in Messages
      /\ \A i \in 1..Len(said) : said[i] \in 1..Len(kinds)
      /\ \A i \in 1..Len(kinds) : kinds[i] \in Kinds
  BY SMTT(30) DEF TypeInv, TypeOK, OfferRight, Kinds
<1>3. heard.calls \in Calls /\ heard.content \in SUBSET Nat
  BY <1>2 DEF Messages, Calls
<1> DEFINE K == Len(said)
           B == Len(kinds)
           c == heard.calls
           m == heard.content
<1>4. Says(m, c, PartsHeard, BlocksHeard)
  BY <1>1, <1>2, HeardIsSaid DEF StreamInv, AllHeard
<1>5. Says(heard'.content, heard'.calls, K, B)
  <2>1. CASE event.type = "blockStart"
    <3>1. /\ B - 1 \in Nat /\ B \in 1..B /\ event.block = B
          /\ PartsHeard = K /\ BlocksHeard = B - 1
      BY <1>2, <2>1 DEF TypeInv, TypeOK, OfferRight, PartsHeard, BlocksHeard
    <3>2. Says(m, c, K, B - 1) /\ Kind(event) = kinds[B] /\ (B - 1) + 1 = B
      BY <1>4, <3>1 DEF Kind
    <3>3. kinds[B] \in Kinds /\ \A i \in 1..K : said[i] \in Nat
      BY <1>2, <3>1
    <3>4. CASE kinds[B] = "toolUse"
      <4>1. heard' = [content |-> m, calls |-> Append(c, Call(B, {}))]
        BY <2>1, <3>1, <3>2, <3>4, Hears
      <4>2. Says(m, Append(c, Call(B, {})), K, B)
        BY <1>2, <1>3, <3>1, <3>2, <3>3, <3>4, CallBegun
      <4> QED BY <4>1, <4>2
    <3>5. CASE kinds[B] = "text"
      <4>1. heard' = heard
        BY <2>1, <3>2, <3>5, Hears
      <4>2. Says(m, c, K, B)
        BY <1>2, <3>1, <3>2, <3>3, <3>5, TextBegun
      <4> QED BY <4>1, <4>2
    <3> QED BY <3>3, <3>4, <3>5 DEF Kinds
  <2>2. CASE event.type = "delta"
    <3>1. /\ K - 1 \in Nat /\ (K - 1) + 1 = K /\ said[K] = B /\ B \in 1..B /\ B \in Nat \ {0}
          /\ event.part = K /\ event.block = B
          /\ PartsHeard = K - 1 /\ BlocksHeard = B
      BY <1>2, <2>2 DEF TypeInv, TypeOK, OfferRight, PartsHeard, BlocksHeard
    <3>2. Says(m, c, K - 1, B) /\ Kind(event) = kinds[B] /\ kinds[B] \in Kinds
      BY <1>2, <1>4, <3>1 DEF Kind
    <3>3. CASE kinds[B] = "text"
      <4>1. heard' = [content |-> m \cup {K}, calls |-> c]
        BY <2>2, <3>1, <3>2, <3>3, Hears
      <4>2. Says(m \cup {K}, c, K, B)
        BY <3>1, <3>2, <3>3, TextHeard
      <4> QED BY <4>1, <4>2
    <3>4. CASE kinds[B] = "toolUse"
      <4>1. heard' = Merge(heard, Chunk({}, <<Call(0, {K})>>, {}))
        BY <2>2, <3>1, <3>2, <3>4, Hears
      <4>2. /\ heard'.content = m /\ Len(heard'.calls) = Len(c)
            /\ \A j \in 1..Len(c) :
                 /\ heard'.calls[j].id = c[j].id
                 /\ heard'.calls[j].args = IF j = Len(c) THEN c[j].args \cup {K} ELSE c[j].args
        BY <1>2, <4>1, Feeds
      <4>3. said[(K - 1) + 1] = B /\ \A j \in 1..Len(c) :
              /\ heard'.calls[j].id = c[j].id
              /\ heard'.calls[j].args = IF j = Len(c) THEN c[j].args \cup {(K - 1) + 1} ELSE c[j].args
        BY <3>1, <4>2
      <4>4. ASSUME NEW fed, fed = heard'.calls PROVE Says(m, fed, (K - 1) + 1, B)
        <5>1. Len(fed) = Len(c) /\ \A j \in 1..Len(c) :
                /\ fed[j].id = c[j].id
                /\ fed[j].args = IF j = Len(c) THEN c[j].args \cup {(K - 1) + 1} ELSE c[j].args
          BY <4>2, <4>3, <4>4
        <5> HIDE DEF K, B, c, m
        <5> QED BY <1>3, <3>1, <3>2, <3>4, <4>3, <5>1, InputHeard DEF c
      <4>5. Says(m, heard'.calls, K, B)
        BY <3>1, <4>4
      <4> QED BY <4>2, <4>5
    <3> QED BY <3>2, <3>3, <3>4 DEF Kinds
  <2>3. CASE event.type \notin {"blockStart", "delta"}
    BY <1>4, <2>3, Hears DEF PartsHeard, BlocksHeard
  <2> QED BY <2>1, <2>2, <2>3
<1>6. PICK k \in 0..Len(said), b \in 0..Len(kinds) : k = Len(said) /\ b = Len(kinds)
  BY <1>2
<1>7. Says(heard.content, heard.calls, k, b)'
  BY <1>1, <1>5, <1>6 DEF Says
<1>8. HeardUpTo(k, b)'
  BY <1>2, <1>7, HeardIsSaidNext
<1>9. k \in 0..Len(said') /\ b \in 0..Len(kinds') /\ k = PartsHeard' /\ b = BlocksHeard'
  BY <1>1, <1>6 DEF PartsHeard, BlocksHeard, NoEvent, Event
<1>10. StreamInv'
  BY <1>8, <1>9, StreamInvNext
<1>11. AllHeard'
  BY <1>10 DEF StreamInv
<1>12. HeardUpTo(Len(said), Len(kinds))'
  BY <1>1, <1>11, WholeHeardNext
<1> QED BY <1>10, <1>12

LEMMA StreamKept ==
  TypeInv /\ TypeInv' /\ StreamInv /\ [Next]_vars => StreamInv'
<1> SUFFICES ASSUME TypeInv, TypeInv', StreamInv, [Next]_vars PROVE StreamInv'
  OBVIOUS
<1>1. CASE Service
  BY <1>1, ServiceHeard
<1>2. CASE RecvEvent
  BY <1>2, RecvHeard
<1>3. CASE HangUp \/ ReaderStops
  <2>1. UNCHANGED <<kinds, said, heard>> /\ open' = FALSE
    BY <1>3 DEF HangUp, ReaderStops, service, caller
  <2>2. PICK k \in 0..Len(said), b \in 0..Len(kinds) : HeardUpTo(k, b)
    BY DEF StreamInv, HeardInOrder
  <2>3. HeardUpTo(k, b)'
    BY <2>1, <2>2, HeardOn
  <2> QED BY <2>1, <2>3, StreamInvNext
<1>4. CASE Close \/ CallRecv \/ RecvEnd \/ UNCHANGED vars
  <2>1. UNCHANGED <<kinds, said, heard, event, open>>
    BY <1>4 DEF Close, CallRecv, RecvEnd, vars, service, sdk, caller
  <2> QED BY <2>1 DEF StreamInv, AllHeard, HeardInOrder, HeardUpTo, PartsHeard, BlocksHeard
<1> QED BY <1>1, <1>2, <1>3, <1>4 DEF Next, Recv

LEMMA StreamAtInit == Init => StreamInv
<1> SUFFICES ASSUME Init PROVE StreamInv
  OBVIOUS
<1>1. Len(kinds) = 0 /\ Len(said) = 0 /\ PartsHeard = 0 /\ BlocksHeard = 0
  BY DEF Init, PartsHeard, BlocksHeard, NoEvent, Event
<1>2. HeardUpTo(0, 0)
  <2>1. heard.calls = <<>> /\ heard.content = {} /\ 1..0 = {}
    BY DEF Init, Nothing
  <2> QED BY <2>1 DEF HeardUpTo
<1> QED BY <1>1, <1>2 DEF StreamInv, AllHeard, HeardInOrder

LEMMA StreamHolds == Spec => []StreamInv
BY StreamAtInit, StreamKept, TypesHold, PTL DEF Spec

\* The caller's message is at any time what the service said up to some part, with
\* nothing missing before it, every piece of input with the right tool call, for a
\* message of any length that is cut short anywhere (Recv, processEvent and the
\* handlers of stream.go).
THEOREM InOrder == Spec => []HeardInOrder
BY StreamHolds, PTL DEF StreamInv

-----------------------------------------------------------------------------
(* The finish reason.                                                      *)

\* After its stop reason the service says nothing more.
FinishInv == FinishMeansWhole /\ (finish # "none" => stage \in {"stopped", "over"})

LEMMA WholeNext ==
  (\A k, b : k = Len(said) /\ b = Len(kinds) /\ HeardUpTo(k, b) => HeardUpTo(Len(said), Len(kinds)))'
<1>1. \A k, b : k = Len(said) /\ b = Len(kinds) /\ HeardUpTo(k, b) => HeardUpTo(Len(said), Len(kinds))
  OBVIOUS
<1> QED BY <1>1, PTL

LEMMA FinishNext ==
  (/\ HeardUpTo(Len(said), Len(kinds))
   /\ (finish = "tool_calls") <=> (reason = "tool_use")
   /\ finish # "none" => stage \in {"stopped", "over"}
   => FinishInv)'
<1>1. /\ HeardUpTo(Len(said), Len(kinds))
      /\ (finish = "tool_calls") <=> (reason = "tool_use")
      /\ finish # "none" => stage \in {"stopped", "over"}
      => FinishInv
  BY DEF FinishInv, FinishMeansWhole
<1> QED BY <1>1, PTL

LEMMA FinishKept ==
  TypeInv /\ TypeInv' /\ StreamInv /\ FinishInv /\ [Next]_vars => FinishInv'
<1> SUFFICES ASSUME TypeInv, TypeInv', StreamInv, FinishInv, [Next]_vars, finish' # "none"
             PROVE  FinishInv'
  BY DEF FinishInv, FinishMeansWhole
<1>1. CASE RecvEvent
  <2>1. HeardUpTo(Len(said), Len(kinds))'
    BY <1>1, RecvHeard
  <2>2. /\ UNCHANGED <<stage, reason>>
        /\ finish' = IF event.type = "messageStop" THEN mapStopReason(reason) ELSE finish
    BY <1>1, Hears DEF service
  <2>3. CASE event.type = "messageStop"
    <3>1. stage \in {"stopped", "over"} /\ reason \in Reasons
      BY <2>3 DEF TypeInv, OfferRight
    <3>2. reason # "tool_calls"
      BY <3>1, StreamAssumption
    <3>3. mapStopReason(reason) = "tool_calls" <=> reason = "tool_use"
      BY <3>2 DEF mapStopReason
    <3> QED BY <2>1, <2>2, <2>3, <3>1, <3>3, FinishNext
  <2>4. CASE event.type # "messageStop"
    BY <2>1, <2>2, <2>4, FinishNext DEF FinishInv, FinishMeansWhole
  <2> QED BY <2>3, <2>4
<1>2. CASE ~RecvEvent
  <2>1. heard' = heard /\ finish' = finish
    BY <1>2 DEF Next, Service, StartMessage, StartBlock, SendPart, StopBlock, StopMessage, SendMetadata,
                Offer, HangUp, Close, ReaderStops, CallRecv, Recv, RecvEnd, vars, caller
  <2>2. /\ stage \in {"stopped", "over"} /\ HeardUpTo(Len(said), Len(kinds))
        /\ (finish = "tool_calls") <=> (reason = "tool_use")
    BY <2>1 DEF FinishInv, FinishMeansWhole
  <2>3. UNCHANGED <<kinds, said, reason>> /\ stage' \in {"stopped", "over"}
    BY <1>2, <2>2 DEF Next, Service, StartMessage, StartBlock, SendPart, StopBlock, StopMessage,
                SendMetadata, Offer, HangUp, Close, ReaderStops, CallRecv, Recv, RecvEnd, vars, service
  <2>4. Len(said) \in Nat /\ Len(kinds) \in Nat
    BY DEF TypeInv, TypeOK
  <2>5. PICK k \in 0..Len(said), b \in 0..Len(kinds) : k = Len(said) /\ b = Len(kinds)
    BY <2>4
  <2>6. HeardUpTo(k, b)'
    BY <2>1, <2>2, <2>3, <2>5, HeardOn
  <2>7. HeardUpTo(Len(said), Len(kinds))'
    BY <2>3, <2>5, <2>6, WholeNext
  <2> QED BY <2>1, <2>2, <2>3, <2>7, FinishNext
<1> QED BY <1>1, <1>2

\* A finish reason comes with the whole message, and says "tool_calls" exactly when
\* the model waits for its tools (handleMessageStop, mapStopReason).
THEOREM FinishComesLast == Spec => []FinishMeansWhole
<1>1. Init => FinishInv
  BY DEF Init, FinishInv, FinishMeansWhole
<1>2. Spec => []FinishInv
  BY <1>1, FinishKept, TypesHold, StreamHolds, PTL DEF Spec
<1> QED BY <1>2, PTL DEF FinishInv

-----------------------------------------------------------------------------
(* The message that is not streamed.                                       *)

Block     == [type : {"text", "toolUse"}, id : Nat, value : SUBSET Nat]
BlockList == Seq(Block)

\* convertConverseOutput takes one block after the other.
LEMMA OutputRuns ==
  ASSUME NEW blocks \in BlockList
  PROVE  \E run : /\ \A k \in 0..Len(blocks) : run[k] \in Messages
                  /\ run[0] = Nothing
                  /\ \A k \in 1..Len(blocks) : run[k] = NextBlock(run[k - 1], blocks[k])
                  /\ convertConverseOutput(blocks) = run[Len(blocks)]
<1> DEFINE n == Len(blocks)
           step == [p \in (1..n) \X Messages |-> NextBlock(p[2], blocks[p[1]])]
<1>1. n \in Nat /\ DOMAIN blocks = 1..n
  BY DEF BlockList
<1>2. Nothing \in Messages
  BY DEF Nothing, Messages, Calls
<1>3. ASSUME NEW k \in 1..n, NEW m \in Messages PROVE NextBlock(m, blocks[k]) \in Messages
  <2>1. blocks[k] \in [type : {"text", "toolUse"}, id : Nat, value : SUBSET Nat]
    <3>1. blocks[k] \in Block
      BY DEF BlockList
    <3> QED BY <3>1 DEF Block
  <2>2. Call(blocks[k].id, documentToJSON(blocks[k].value)) \in [id : Nat, args : SUBSET Nat]
    BY <2>1 DEF Call, documentToJSON, Braces
  <2>3. Append(m.calls, Call(blocks[k].id, documentToJSON(blocks[k].value))) \in Calls
    BY <2>2 DEF Messages, Calls
  <2> QED BY <2>1, <2>3 DEF NextBlock, Messages
<1> HIDE DEF n
<1>4. step \in [(1..n) \X Messages -> Messages]
  BY <1>3
<1>5. \A k \in 1..n : \A m \in Messages : step[<<k, m>>] = NextBlock(m, blocks[k])
  OBVIOUS
<1> HIDE DEF step
<1>6. PICK f : Folds(Messages, Nothing, step, n, f)
  BY <1>1, <1>2, <1>4, FoldExists
<1>7. f = [s \in SUBSET (1..n) |->
             IF s = {} THEN Nothing ELSE NextBlock(f[s \ {Max(s)}], blocks[Max(s)])]
  <2>1. ASSUME NEW s \in SUBSET (1..n), s # {}
        PROVE  f[s] = NextBlock(f[s \ {Max(s)}], blocks[Max(s)])
    <3>1. Max(s) \in 1..n /\ s \ {Max(s)} \in SUBSET (1..n)
      BY <1>1, <2>1, MaxIsLast
    <3>2. f[s \ {Max(s)}] \in Messages /\ f[s] = step[<<Max(s), f[s \ {Max(s)}]>>]
      BY <1>6, <2>1, <3>1 DEF Folds
    <3> QED BY <1>5, <3>1, <3>2
  <2>2. f \in [SUBSET (1..n) -> Messages] /\ f[{}] = Nothing
    BY <1>6 DEF Folds
  <2> QED BY <2>1, <2>2
<1> DEFINE g == CHOOSE g : g = [s \in SUBSET (1..n) |->
                  IF s = {} THEN Nothing ELSE NextBlock(g[s \ {Max(s)}], blocks[Max(s)])]
<1>8. g = [s \in SUBSET (1..n) |->
             IF s = {} THEN Nothing ELSE NextBlock(g[s \ {Max(s)}], blocks[Max(s)])]
  BY <1>7
<1>9. convertConverseOutput(blocks) = g[1..n]
  BY <1>1 DEF convertConverseOutput, FoldLeft, MapThenFoldSet
<1> HIDE DEF g
<1>10. Iterates(Messages, Nothing, step, n, g)
  <2>1. ASSUME NEW s \in SUBSET (1..n), s # {}, g[s \ {Max(s)}] \in Messages
        PROVE  g[s] = step[<<Max(s), g[s \ {Max(s)}]>>]
    <3>1. Max(s) \in 1..n
      BY <1>1, <2>1, MaxIsLast
    <3> QED BY <1>5, <1>8, <2>1, <3>1
  <2>2. g[{}] = Nothing
    BY <1>8
  <2> QED BY <2>1, <2>2 DEF Iterates
<1>11. RunsAlong(Messages, step, n, g)
  BY <1>1, <1>2, <1>4, <1>10, FoldRuns
<1>12. g[{}] = Nothing
  BY <1>8
<1> DEFINE run == [k \in 0..n |-> g[1..k]]
<1>13. /\ \A k \in 0..n : run[k] \in Messages
       /\ run[0] = Nothing /\ run[n] = g[1..n]
  <2>1. 1..0 = {} /\ 0 \in 0..n /\ n \in 0..n
    BY <1>1
  <2>2. run[0] = g[1..0] /\ run[n] = g[1..n]
    BY <2>1
  <2> QED BY <1>11, <1>12, <2>1, <2>2 DEF RunsAlong
<1>14. ASSUME NEW k \in 1..n PROVE run[k] = NextBlock(run[k - 1], blocks[k])
  <2>1. k - 1 \in 0..n /\ k \in 0..n
    BY <1>1
  <2> QED BY <1>5, <1>11, <2>1 DEF RunsAlong
<1> HIDE DEF run
<1> QED BY <1>9, <1>13, <1>14 DEF n

\* Every tool call of the first b blocks once, in their order.
Numbered(calls, b) ==
  /\ \A j \in 1..Len(calls) : calls[j].id \in 1..b /\ kinds[calls[j].id] = "toolUse"
  /\ \A i \in 1..b : kinds[i] = "toolUse" => \E j \in 1..Len(calls) : calls[j].id = i
  /\ \A j \in 1..Len(calls) : \A l \in 1..(j - 1) : calls[l].id < calls[j].id

LEMMA NumbersFollow ==
  ASSUME NEW c \in Calls, NEW d \in Calls, NEW b \in Nat, Numbered(c, b), Numbered(d, b)
  PROVE  Len(c) <= Len(d) /\ \A j \in 1..Len(c) : c[j].id = d[j].id
<1>1. Len(c) \in Nat /\ Len(d) \in Nat
  BY CallTypes
<1>2. /\ \A j \in 1..Len(c) : c[j].id \in Nat
      /\ \A j \in 1..Len(d) : d[j].id \in Nat
  BY CallTypes
<1> DEFINE S == {k \in 0..Len(c) : k <= Len(d) /\ \A j \in 1..k : c[j].id = d[j].id}
<1>3. 0 \in S
  BY <1>1
<1>4. ASSUME NEW k \in 0..Len(c), k \in S, k < Len(c) PROVE k + 1 \in S
  <2>1. k \in Nat /\ k + 1 \in 1..Len(c) /\ k <= Len(d) /\ \A j \in 1..k : c[j].id = d[j].id
    BY <1>1, <1>4
  <2>2. PICK m \in 1..Len(d) : d[m].id = c[k + 1].id
    BY <2>1 DEF Numbered
  <2>3. m > k
    <3> SUFFICES ASSUME m \in 1..k PROVE FALSE
      BY <1>1, <2>1
    <3>1. c[m].id = c[k + 1].id /\ m \in 1..((k + 1) - 1)
      BY <2>1, <2>2
    <3> QED BY <1>2, <2>1, <3>1 DEF Numbered
  <2>4. k + 1 \in 1..Len(d)
    BY <1>1, <2>1, <2>3
  <2>5. PICK l \in 1..Len(c) : c[l].id = d[k + 1].id
    BY <2>4 DEF Numbered
  <2>6. l > k
    <3> SUFFICES ASSUME l \in 1..k PROVE FALSE
      BY <1>1, <2>1
    <3>1. d[l].id = d[k + 1].id /\ l \in 1..((k + 1) - 1)
      BY <2>1, <2>5
    <3> QED BY <1>1, <1>2, <2>4, <3>1 DEF Numbered
  <2>7. d[k + 1].id <= d[m].id
    <3>1. CASE m = k + 1
      BY <1>2, <2>4, <3>1
    <3>2. CASE k + 1 \in 1..(m - 1)
      BY <1>2, <2>4, <3>2 DEF Numbered
    <3> QED BY <1>1, <2>1, <2>3, <3>1, <3>2
  <2>8. c[k + 1].id <= c[l].id
    <3>1. CASE l = k + 1
      BY <1>2, <2>1, <3>1
    <3>2. CASE k + 1 \in 1..(l - 1)
      BY <1>2, <2>1, <3>2 DEF Numbered
    <3> QED BY <1>1, <2>1, <2>6, <3>1, <3>2
  <2>9. c[k + 1].id = d[k + 1].id
    BY <1>2, <2>1, <2>2, <2>4, <2>5, <2>7, <2>8
  <2>10. \A j \in 1..(k + 1) : j \in 1..k \/ j = k + 1
    BY <2>1
  <2> QED BY <1>1, <2>1, <2>4, <2>9, <2>10
<1>5. Len(c) \in S
  <2>1. Len(c) \in 0..Len(c)
    BY <1>1
  <2> HIDE DEF S
  <2> QED BY <1>1, <1>3, <1>4, <2>1, CountUp
<1> QED BY <1>5

\* What the loop has made of the first b blocks.
OutputUpTo(m, b) ==
  /\ Numbered(m.calls, b)
  /\ \A j \in 1..Len(m.calls) : m.calls[j].args = documentToJSON(Spoken[m.calls[j].id].value)
  /\ \/ m.content = {} /\ \A i \in 1..b : kinds[i] # "text"
     \/ \E i \in 1..b : kinds[i] = "text" /\ m.content = Spoken[i].value

LEMMA SpokenBlocks ==
  ASSUME kinds \in Seq(Kinds), said \in Seq(DOMAIN kinds)
  PROVE  /\ Spoken \in BlockList /\ Len(Spoken) = Len(kinds)
         /\ \A b \in 1..Len(kinds) :
              /\ Spoken[b].value = {i \in 1..Len(said) : said[i] = b}
              /\ kinds[b] = "text" => Spoken[b].type = "text"
              /\ kinds[b] # "text" => Spoken[b].type = "toolUse" /\ Spoken[b].id = b
<1>1. Len(kinds) \in Nat /\ DOMAIN kinds = 1..Len(kinds) /\ \A b \in 1..Len(kinds) : kinds[b] \in Kinds
  OBVIOUS
<1>2. DOMAIN said = 1..Len(said) /\ Len(said) \in Nat
  OBVIOUS
<1>3. ASSUME NEW b \in 1..Len(kinds)
      PROVE  /\ Spoken[b] \in Block
             /\ Spoken[b].value = {i \in 1..Len(said) : said[i] = b}
             /\ kinds[b] = "text" => Spoken[b].type = "text"
             /\ kinds[b] # "text" => Spoken[b].type = "toolUse" /\ Spoken[b].id = b
  <2> DEFINE v == {i \in 1..Len(said) : said[i] = b}
  <2>1. v \in SUBSET Nat /\ b \in Nat
    BY <1>1
  <2>2. Spoken[b] = IF kinds[b] = "text" THEN Text(v) ELSE ToolUse(b, v)
    BY <1>1, <1>2 DEF Spoken
  <2> HIDE DEF v
  <2>3. Spoken[b].value = v
    BY <2>2 DEF Text, ToolUse
  <2> QED BY <2>1, <2>2, <2>3 DEF Text, ToolUse, Block, v
<1>4. Spoken \in [1..Len(kinds) -> Block]
  <2>1. Spoken = [b \in 1..Len(kinds) |-> Spoken[b]]
    BY <1>1 DEF Spoken
  <2> HIDE DEF Block
  <2> QED BY <1>3, <2>1
<1>5. Spoken \in Seq(Block) /\ Len(Spoken) = Len(kinds)
  <2> HIDE DEF Block
  <2> QED BY <1>1, <1>4
<1> QED BY <1>3, <1>5 DEF BlockList

\* One more block is taken.
LEMMA BlockTaken ==
  ASSUME kinds \in Seq(Kinds), said \in Seq(DOMAIN kinds),
         NEW m \in Messages, NEW b \in 1..Len(kinds), OutputUpTo(m, b - 1)
  PROVE  OutputUpTo(NextBlock(m, Spoken[b]), b)
<1>1. /\ Len(kinds) \in Nat /\ b \in Nat /\ b - 1 \in Nat /\ kinds[b] \in Kinds
      /\ \A i : i \in 1..b <=> (i \in 1..(b - 1) \/ i = b)
  OBVIOUS
<1>2. /\ kinds[b] = "text" => Spoken[b].type = "text"
      /\ kinds[b] # "text" => Spoken[b].type = "toolUse" /\ Spoken[b].id = b
  BY SpokenBlocks
<1>3. m.calls \in Calls /\ m = [content |-> m.content, calls |-> m.calls]
  BY DEF Messages
<1> DEFINE n == Len(m.calls)
<1>4. n \in Nat /\ \A j \in 1..n : m.calls[j].id \in Nat
  BY <1>3, CallTypes
<1>5. CASE kinds[b] = "text"
  <2>1. NextBlock(m, Spoken[b]) = [content |-> Spoken[b].value, calls |-> m.calls]
    BY <1>2, <1>3, <1>5 DEF NextBlock
  <2>2. Numbered(m.calls, b)
    BY <1>1, <1>5 DEF OutputUpTo, Numbered
  <2> QED BY <1>1, <1>5, <2>1, <2>2 DEF OutputUpTo
<1>6. CASE kinds[b] = "toolUse"
  <2> DEFINE c == Call(b, documentToJSON(Spoken[b].value))
             d == Append(m.calls, c)
  <2>1. NextBlock(m, Spoken[b]) = [content |-> m.content, calls |-> d]
    BY <1>2, <1>3, <1>6 DEF NextBlock
  <2>2. c.id = b /\ c.args = documentToJSON(Spoken[b].value)
    BY DEF Call
  <2>3. /\ Len(d) = n + 1 /\ d[n + 1] = c
        /\ \A j \in 1..n : d[j] = m.calls[j]
    <3> HIDE DEF c
    <3> QED BY <1>3 DEF Calls
  <2> HIDE DEF c, d
  <2>4. \A j : j \in 1..(n + 1) <=> (j \in 1..n \/ j = n + 1)
    BY <1>4
  <2>5. \A j \in 1..n : m.calls[j].id \in 1..(b - 1) /\ kinds[m.calls[j].id] = "toolUse"
    BY DEF OutputUpTo, Numbered
  <2>6. Numbered(d, b)
    <3>1. \A j \in 1..(n + 1) : d[j].id \in 1..b /\ kinds[d[j].id] = "toolUse"
      BY <1>1, <1>6, <2>2, <2>3, <2>4, <2>5
    <3>2. \A i \in 1..b : kinds[i] = "toolUse" => \E j \in 1..(n + 1) : d[j].id = i
      <4>1. \A i \in 1..(b - 1) : kinds[i] = "toolUse" => \E j \in 1..n : m.calls[j].id = i
        BY DEF OutputUpTo, Numbered
      <4> QED BY <1>1, <2>2, <2>3, <2>4, <4>1
    <3>3. \A j \in 1..(n + 1) : \A l \in 1..(j - 1) : d[l].id < d[j].id
      <4>1. ASSUME NEW j \in 1..n, NEW l \in 1..(j - 1) PROVE d[l].id < d[j].id
        <5>1. l \in 1..n
          BY <1>4
        <5> QED BY <2>3, <4>1, <5>1 DEF OutputUpTo, Numbered
      <4>2. ASSUME NEW l \in 1..((n + 1) - 1) PROVE d[l].id < d[n + 1].id
        <5>1. l \in 1..n
          BY <1>4
        <5>2. d[l].id \in 1..(b - 1)
          BY <2>3, <2>5, <5>1
        <5> QED BY <1>1, <2>2, <2>3, <5>2
      <4> QED BY <2>4, <4>1, <4>2
    <3> QED BY <2>3, <3>1, <3>2, <3>3 DEF Numbered
  <2>7. \A j \in 1..(n + 1) : d[j].args = documentToJSON(Spoken[d[j].id].value)
    BY <2>2, <2>3, <2>4 DEF OutputUpTo
  <2>8. kinds[b] # "text"
    BY <1>6
  <2> QED BY <1>1, <2>1, <2>3, <2>6, <2>7, <2>8 DEF OutputUpTo
<1> QED BY <1>1, <1>5, <1>6 DEF Kinds

\* The message that is not streamed has every call, in order.
LEMMA OutputIsWhole ==
  ASSUME kinds \in Seq(Kinds), said \in Seq(DOMAIN kinds)
  PROVE  convertConverseOutput(Spoken) \in Messages /\ OutputUpTo(convertConverseOutput(Spoken), Len(kinds))
<1> DEFINE n == Len(kinds)
<1>1. Spoken \in BlockList /\ Len(Spoken) = n /\ n \in Nat
  BY SpokenBlocks
<1>2. PICK run : /\ \A k \in 0..n : run[k] \in Messages
                 /\ run[0] = Nothing
                 /\ \A k \in 1..n : run[k] = NextBlock(run[k - 1], Spoken[k])
                 /\ convertConverseOutput(Spoken) = run[n]
  BY <1>1, OutputRuns
<1> DEFINE S == {k \in 0..n : OutputUpTo(run[k], k)}
<1>3. 0 \in S
  <2>1. 0 \in 0..n /\ run[0].content = {} /\ run[0].calls = <<>> /\ Len(<<>>) = 0
    BY <1>1, <1>2 DEF Nothing
  <2> QED BY <2>1 DEF OutputUpTo, Numbered
<1>4. ASSUME NEW k \in 0..n, k \in S, k < n PROVE k + 1 \in S
  <2>1. k + 1 \in 1..n /\ k + 1 \in 0..n /\ (k + 1) - 1 = k
    BY <1>1, <1>4
  <2>2. run[k] \in Messages /\ OutputUpTo(run[k], k)
    BY <1>2, <1>4
  <2>3. run[k + 1] = NextBlock(run[k], Spoken[k + 1])
    BY <1>2, <2>1
  <2>4. OutputUpTo(run[k + 1], k + 1)
    BY <2>1, <2>2, <2>3, BlockTaken
  <2> QED BY <2>1, <2>4
<1>5. n \in S /\ n \in 0..n
  <2>1. n \in 0..n
    BY <1>1
  <2> HIDE DEF S
  <2> QED BY <1>1, <1>3, <1>4, <2>1, CountUp
<1> QED BY <1>2, <1>5

\* A text is the only one.
LEMMA OneAtMost ==
  ASSUME NEW n \in Nat, NEW S \in SUBSET (1..n), Cardinality(S) <= 1, NEW x \in S, NEW y \in S
  PROVE  x = y
<1> SUFFICES ASSUME x # y PROVE FALSE
  OBVIOUS
<1>1. IsFiniteSet(S)
  <2>1. IsFiniteSet(1..n) /\ S \subseteq 1..n
    BY FS_Interval, 1 \in Int
  <2> QED BY <2>1, FS_Subset
<1>2. Cardinality({x, y}) <= Cardinality(S) /\ IsFiniteSet({x}) /\ Cardinality({x}) = 1
  <2>1. {x, y} \in SUBSET S
    OBVIOUS
  <2> QED BY <1>1, <2>1, FS_Subset, FS_Singleton
<1>3. Cardinality({x, y}) = 2
  <2>1. {x, y} = {x} \cup {y} /\ y \notin {x}
    OBVIOUS
  <2> QED BY <1>2, <2>1, FS_AddElement
<1>4. Cardinality(S) \in Nat
  BY <1>1, FS_CardinalityType
<1> QED BY <1>2, <1>3, <1>4

\* Streamed or not, the next turn sends the same blocks back.
LEMMA AgreesWhenWhole ==
  ASSUME TypeInv, HeardUpTo(Len(said), Len(kinds)),
         Cardinality({b \in DOMAIN kinds : kinds[b] = "text"}) <= 1
  PROVE  convertAssistantMessage(WholeInputs, heard)
           = convertAssistantMessage(WholeInputs, convertConverseOutput(Spoken))
<1> DEFINE n == Len(kinds)
           o == convertConverseOutput(Spoken)
           Input(b) == {i \in 1..Len(said) : said[i] = b}
<1>1. /\ kinds \in Seq(Kinds) /\ said \in Seq(DOMAIN kinds) /\ heard \in Messages
      /\ n \in Nat /\ DOMAIN kinds = 1..n /\ Len(said) \in Nat
  BY DEF TypeInv, TypeOK, Kinds
<1>2. o \in Messages /\ OutputUpTo(o, n)
  BY <1>1, OutputIsWhole
<1>3. Says(heard.content, heard.calls, Len(said), n)
  BY <1>1, HeardIsSaid
<1>4. \A b \in 1..n : Spoken[b].value = Input(b)
  BY <1>1, SpokenBlocks
<1>5. heard.calls \in Calls /\ o.calls \in Calls
  BY <1>1, <1>2 DEF Messages
<1> HIDE DEF o
<1>6. Numbered(heard.calls, n) /\ Numbered(o.calls, n)
  BY <1>2, <1>3 DEF Says, Numbered, OutputUpTo
<1>7. Len(heard.calls) = Len(o.calls) /\ \A j \in 1..Len(o.calls) : heard.calls[j].id = o.calls[j].id
  <2>1. Len(heard.calls) \in Nat /\ Len(o.calls) \in Nat
    BY <1>5, CallTypes
  <2>2. Len(heard.calls) <= Len(o.calls) /\ Len(o.calls) <= Len(heard.calls)
    BY <1>1, <1>5, <1>6, NumbersFollow
  <2>3. \A j \in 1..Len(heard.calls) : heard.calls[j].id = o.calls[j].id
    BY <1>1, <1>5, <1>6, NumbersFollow
  <2> QED BY <2>1, <2>2, <2>3
<1>8. heard.content = o.content
  <2>1. heard.content = {i \in 1..Len(said) : kinds[said[i]] = "text"}
    BY <1>3 DEF Says
  <2>2. CASE o.content = {} /\ \A i \in 1..n : kinds[i] # "text"
    <3>1. \A i \in 1..Len(said) : said[i] \in 1..n
      BY <1>1
    <3> QED BY <2>1, <2>2, <3>1
  <2>3. CASE \E i \in 1..n : kinds[i] = "text" /\ o.content = Spoken[i].value
    <3>1. PICK b \in 1..n : kinds[b] = "text" /\ o.content = Spoken[b].value
      BY <2>3
    <3>2. \A c \in 1..n : kinds[c] = "text" => c = b
      <4> DEFINE T == {c \in DOMAIN kinds : kinds[c] = "text"}
      <4>1. T \in SUBSET (1..n) /\ Cardinality(T) <= 1 /\ b \in T
        BY <1>1, <3>1
      <4> HIDE DEF T
      <4>2. \A c \in T : c = b
        BY <1>1, <4>1, OneAtMost
      <4> QED BY <1>1, <4>2 DEF T
    <3>3. \A i \in 1..Len(said) : said[i] \in 1..n
      BY <1>1
    <3>4. heard.content = Input(b)
      BY <2>1, <3>1, <3>2, <3>3
    <3> QED BY <1>4, <3>1, <3>4
  <2> QED BY <1>2, <2>2, <2>3 DEF OutputUpTo
<1>9. ASSUME NEW j \in 1..Len(o.calls)
      PROVE  jsonToLazyDocument(WholeInputs, heard.calls[j].args)
               = jsonToLazyDocument(WholeInputs, o.calls[j].args)
  <2>1. heard.calls[j].id = o.calls[j].id /\ j \in 1..Len(heard.calls)
    BY <1>7
  <2>2. o.calls[j].id \in 1..n
    BY <1>6 DEF Numbered
  <2>3. heard.calls[j].args = Input(o.calls[j].id)
    BY <1>3, <2>1 DEF Says
  <2>4. o.calls[j].args = documentToJSON(Input(o.calls[j].id))
    BY <1>2, <1>4, <2>2 DEF OutputUpTo
  <2>5. {} \notin WholeInputs
    BY DEF WholeInputs
  <2> HIDE DEF Input
  <2> QED BY <2>3, <2>4, <2>5 DEF jsonToLazyDocument, documentToJSON
<1>10. DOMAIN heard.calls = DOMAIN o.calls /\ DOMAIN o.calls = 1..Len(o.calls)
  BY <1>5, <1>7, CallTypes
<1>11. [i \in DOMAIN heard.calls |->
          ToolUse(heard.calls[i].id, jsonToLazyDocument(WholeInputs, heard.calls[i].args))]
         = [i \in DOMAIN o.calls |->
              ToolUse(o.calls[i].id, jsonToLazyDocument(WholeInputs, o.calls[i].args))]
  BY <1>7, <1>9, <1>10
<1> QED BY <1>8, <1>11 DEF convertAssistantMessage, o

\* A message with one text at most comes to the same in the next turn, whether it
\* was streamed or not: the stream has said all of it when the finish reason
\* comes, and both ways number the calls in the order of their blocks.
THEOREM StreamedIsSame == Spec => []StreamAgrees
<1>1. TypeInv /\ FinishMeansWhole => StreamAgrees
  BY AgreesWhenWhole DEF FinishMeansWhole, StreamAgrees
<1> QED BY <1>1, TypesHold, FinishComesLast, PTL

-----------------------------------------------------------------------------
(* Requests.                                                               *)

Content == [type : {"text", "toolUse", "toolResult"}, id : CallIds \cup {0}, value : SUBSET Nat]
Sent    == [role : {"user", "assistant"}, blocks : Seq(Content)]
Inputs  == [error : BOOLEAN, system : Seq(SUBSET Nat), messages : Seq(Sent)]

\* What becomes of a message that is no system message.
Converted(whole, m) ==
  CASE m.role = "user"      -> [role |-> "user", blocks |-> <<Text(m.content)>>]
    [] m.role = "assistant" -> [role |-> "assistant", blocks |-> convertAssistantMessage(whole, m)]
    [] m.role = "tool"      -> [role |-> "user", blocks |-> <<convertToolResultMessage(m)>>]

LEMMA MessageTypes ==
  ASSUME NEW m \in Message
  PROVE  /\ m.content \in SUBSET Nat /\ m.answers \in CallIds \cup {0}
         /\ Len(m.calls) \in Nat /\ DOMAIN m.calls = 1..Len(m.calls)
         /\ \A i \in 1..Len(m.calls) : m.calls[i].id \in CallIds /\ m.calls[i].args \in SUBSET Nat
<1> DEFINE C == [id : CallIds, args : SUBSET Nat]
<1>1. m.content \in SUBSET Nat /\ m.answers \in CallIds \cup {0} /\ m.calls \in Seq(C)
  BY DEF Message
<1>2. \A c \in C : c.id \in CallIds /\ c.args \in SUBSET Nat
  OBVIOUS
<1> HIDE DEF C
<1> QED BY <1>1, <1>2

\* The blocks of a message of the assistant: one for each call, and a text.
LEMMA AssistantBlocks ==
  ASSUME NEW m \in Message, NEW whole
  PROVE  /\ convertAssistantMessage(whole, m) \in Seq(Content)
         /\ \A i \in 1..Len(m.calls) : \E j \in DOMAIN convertAssistantMessage(whole, m) :
              /\ convertAssistantMessage(whole, m)[j].type = "toolUse"
              /\ convertAssistantMessage(whole, m)[j].id = m.calls[i].id
         /\ \A j \in DOMAIN convertAssistantMessage(whole, m) :
              convertAssistantMessage(whole, m)[j].type \in {"text", "toolUse"}
<1> DEFINE n     == Len(m.calls)
           Use(i) == ToolUse(m.calls[i].id, jsonToLazyDocument(whole, m.calls[i].args))
           text  == IF m.content # {} THEN <<Text(m.content)>> ELSE <<>>
           uses  == [i \in DOMAIN m.calls |-> Use(i)]
           out   == IF text \o uses = <<>> THEN <<Text({})>> ELSE text \o uses
           Shown == {c \in Content : c.type \in {"text", "toolUse"}}
<1>1. n \in Nat /\ DOMAIN m.calls = 1..n /\ m.content \in SUBSET Nat
  BY MessageTypes
<1>2. ASSUME NEW i \in 1..n
      PROVE  Use(i) \in Shown /\ Use(i).type = "toolUse" /\ Use(i).id = m.calls[i].id
  <2>1. m.calls[i].id \in CallIds /\ jsonToLazyDocument(whole, m.calls[i].args) \in SUBSET Nat
    BY MessageTypes DEF jsonToLazyDocument, Braces
  <2> QED BY <2>1 DEF ToolUse, Content
<1>3. \A v \in SUBSET Nat : Text(v) \in Shown
  BY DEF Text, Content
<1> HIDE DEF Use, Shown
<1>4. uses \in Seq(Shown) /\ Len(uses) = n /\ \A i \in 1..n : uses[i] = Use(i)
  BY <1>1, <1>2
<1>5. text \in Seq(Shown) /\ Len(text) \in Nat
  BY <1>1, <1>3
<1> HIDE DEF uses, text
<1>6. text \o uses \in Seq(Shown) /\ Len(text \o uses) = Len(text) + n
  BY <1>4, <1>5
<1>7. \A i \in 1..n : (text \o uses)[Len(text) + i] = Use(i)
  BY <1>1, <1>4, <1>5
<1>8. out \in Seq(Shown)
  <2>1. Text({}) \in Shown
    BY <1>3
  <2> QED BY <1>6, <2>1
<1>9. ASSUME NEW i \in 1..n
      PROVE  \E j \in DOMAIN out : out[j].type = "toolUse" /\ out[j].id = m.calls[i].id
  <2>1. Len(text) + i \in 1..Len(text \o uses)
    BY <1>1, <1>5, <1>6
  <2>2. text \o uses # <<>> /\ DOMAIN (text \o uses) = 1..Len(text \o uses)
    BY <1>6, <2>1
  <2>3. out = text \o uses
    BY <2>2
  <2> QED BY <1>2, <1>7, <2>1, <2>2, <2>3
<1>10. convertAssistantMessage(whole, m) = out
  BY DEF convertAssistantMessage, text, uses, Use
<1> HIDE DEF out
<1>11. \A c \in Shown : c \in Content /\ c.type \in {"text", "toolUse"}
  BY DEF Shown
<1>12. out \in Seq(Content) /\ \A j \in DOMAIN out : out[j] \in Shown
  BY <1>8, <1>11
<1> QED BY <1>9, <1>10, <1>11, <1>12

LEMMA ConvertedTypes ==
  ASSUME NEW m \in Message, NEW whole, m.role \in {"user", "assistant", "tool"}
  PROVE  Converted(whole, m) \in Sent
<1>1. Text(m.content) \in Content /\ convertToolResultMessage(m) \in Content
  BY MessageTypes DEF Text, ToolResult, convertToolResultMessage, Content
<1>2. convertAssistantMessage(whole, m) \in Seq(Content)
  BY AssistantBlocks
<1>3. <<Text(m.content)>> \in Seq(Content) /\ <<convertToolResultMessage(m)>> \in Seq(Content)
  BY <1>1
<1> QED BY <1>2, <1>3 DEF Converted, Sent

LEMMA NextMessageIs ==
  ASSUME NEW in \in Inputs, NEW m \in Message, NEW whole, m.role \in Roles
  PROVE  /\ NextMessage(whole, in, m) \in Inputs
         /\ NextMessage(whole, in, m).error = in.error
         /\ NextMessage(whole, in, m).messages =
              IF m.role = "system" THEN in.messages ELSE Append(in.messages, Converted(whole, m))
<1>1. in = [error |-> in.error, system |-> in.system, messages |-> in.messages]
      /\ in.error \in BOOLEAN /\ in.system \in Seq(SUBSET Nat) /\ in.messages \in Seq(Sent)
  BY DEF Inputs
<1> DEFINE Said(e) == [error |-> in.error, system |-> e, messages |-> in.messages]
           With(e) == [error |-> in.error, system |-> in.system, messages |-> e]
<1>2. ASSUME NEW e PROVE [in EXCEPT !.system = e] = Said(e) /\ [in EXCEPT !.messages = e] = With(e)
  <2>1. PICK x, y, z : in = [error |-> x, system |-> y, messages |-> z]
    BY <1>1
  <2>2. in.error = x /\ in.system = y /\ in.messages = z
    BY <2>1
  <2>3. /\ [in EXCEPT !.system = e] = [error |-> x, system |-> e, messages |-> z]
        /\ [in EXCEPT !.messages = e] = [error |-> x, system |-> y, messages |-> e]
    BY ONLY <2>1
  <2> QED BY ONLY <2>2, <2>3
<1>3. CASE m.role = "system"
  <2>1. NextMessage(whole, in, m)
          = [error |-> in.error, system |-> Append(in.system, m.content), messages |-> in.messages]
    <3>1. NextMessage(whole, in, m) = [in EXCEPT !.system = Append(in.system, m.content)]
      BY <1>3 DEF NextMessage
    <3> QED BY <1>2, <3>1
  <2>2. Append(in.system, m.content) \in Seq(SUBSET Nat)
    BY <1>1, MessageTypes
  <2> QED BY <1>1, <1>3, <2>1, <2>2 DEF Inputs
<1>4. CASE m.role # "system"
  <2>1. NextMessage(whole, in, m)
          = [error |-> in.error, system |-> in.system,
             messages |-> Append(in.messages, Converted(whole, m))]
    <3>1. NextMessage(whole, in, m) = [in EXCEPT !.messages = Append(in.messages, Converted(whole, m))]
      BY <1>4 DEF NextMessage, Converted, Roles
    <3> QED BY <1>2, <3>1
  <2>2. Converted(whole, m) \in Sent
    BY <1>4, ConvertedTypes DEF Roles
  <2>3. Append(in.messages, Converted(whole, m)) \in Seq(Sent)
    BY <1>1, <2>2
  <2> QED BY <1>1, <1>4, <2>1, <2>3 DEF Inputs
<1> QED BY <1>3, <1>4

\* convertMessages takes one message after the other.
LEMMA RequestRuns ==
  ASSUME NEW h \in Seq(Message), NEW whole, \A i \in DOMAIN h : h[i].role \in Roles
  PROVE  \E run : /\ \A k \in 0..Len(h) : run[k] \in Inputs
                  /\ run[0] = NoMessages(FALSE)
                  /\ \A k \in 1..Len(h) : run[k] = NextMessage(whole, run[k - 1], h[k])
                  /\ convertMessages(whole, h) = run[Len(h)]
<1> DEFINE n    == Len(h)
           none == NoMessages(FALSE)
           step == [p \in (1..n) \X Inputs |-> NextMessage(whole, p[2], h[p[1]])]
<1>1. n \in Nat /\ DOMAIN h = 1..n
  OBVIOUS
<1>2. none \in Inputs
  BY DEF NoMessages, Inputs
<1>3. ASSUME NEW k \in 1..n, NEW in \in Inputs PROVE NextMessage(whole, in, h[k]) \in Inputs
  <2>1. h[k] \in Message /\ h[k].role \in Roles
    OBVIOUS
  <2> QED BY <2>1, NextMessageIs
<1> HIDE DEF n, none
<1>4. step \in [(1..n) \X Inputs -> Inputs]
  BY <1>3
<1>5. \A k \in 1..n : \A in \in Inputs : step[<<k, in>>] = NextMessage(whole, in, h[k])
  OBVIOUS
<1> HIDE DEF step
<1>6. PICK f : Folds(Inputs, none, step, n, f)
  BY <1>1, <1>2, <1>4, FoldExists
<1>7. f = [s \in SUBSET (1..n) |->
             IF s = {} THEN none ELSE NextMessage(whole, f[s \ {Max(s)}], h[Max(s)])]
  <2>1. ASSUME NEW s \in SUBSET (1..n), s # {}
        PROVE  f[s] = NextMessage(whole, f[s \ {Max(s)}], h[Max(s)])
    <3>1. Max(s) \in 1..n /\ s \ {Max(s)} \in SUBSET (1..n)
      BY <1>1, <2>1, MaxIsLast
    <3>2. f[s \ {Max(s)}] \in Inputs /\ f[s] = step[<<Max(s), f[s \ {Max(s)}]>>]
      BY <1>6, <2>1, <3>1 DEF Folds
    <3> QED BY <1>5, <3>1, <3>2
  <2>2. f \in [SUBSET (1..n) -> Inputs] /\ f[{}] = none
    BY <1>6 DEF Folds
  <2> QED BY <2>1, <2>2
<1> DEFINE g == CHOOSE g : g = [s \in SUBSET (1..n) |->
                  IF s = {} THEN none ELSE NextMessage(whole, g[s \ {Max(s)}], h[Max(s)])]
<1>8. g = [s \in SUBSET (1..n) |->
             IF s = {} THEN none ELSE NextMessage(whole, g[s \ {Max(s)}], h[Max(s)])]
  BY <1>7
<1>9. convertMessages(whole, h) = g[1..n]
  BY <1>1 DEF convertMessages, FoldLeft, MapThenFoldSet, none
<1> HIDE DEF g
<1>10. Iterates(Inputs, none, step, n, g)
  <2>1. ASSUME NEW s \in SUBSET (1..n), s # {}, g[s \ {Max(s)}] \in Inputs
        PROVE  g[s] = step[<<Max(s), g[s \ {Max(s)}]>>]
    <3>1. Max(s) \in 1..n
      BY <1>1, <2>1, MaxIsLast
    <3> QED BY <1>5, <1>8, <2>1, <3>1
  <2>2. g[{}] = none
    BY <1>8
  <2> QED BY <2>1, <2>2 DEF Iterates
<1>11. RunsAlong(Inputs, step, n, g)
  BY <1>1, <1>2, <1>4, <1>10, FoldRuns
<1> DEFINE run == [k \in 0..n |-> g[1..k]]
<1>12. /\ \A k \in 0..n : run[k] \in Inputs
       /\ run[0] = none /\ run[n] = g[1..n]
  <2>1. 1..0 = {} /\ 0 \in 0..n /\ n \in 0..n
    BY <1>1
  <2>2. run[0] = g[1..0] /\ run[n] = g[1..n]
    BY <2>1
  <2> QED BY <1>10, <1>11, <2>1, <2>2 DEF RunsAlong, Iterates
<1>13. ASSUME NEW k \in 1..n PROVE run[k] = NextMessage(whole, run[k - 1], h[k])
  <2>1. k - 1 \in 0..n /\ k \in 0..n
    BY <1>1
  <2> QED BY <1>5, <1>11, <2>1 DEF RunsAlong
<1> HIDE DEF run
<1> QED BY <1>9, <1>12, <1>13 DEF n, none

\* The messages of a request are those of the conversation, in order, without
\* the system messages: place says where.
Placed(whole, h, msgs, k, place) ==
  /\ place \in [1..Len(msgs) -> 1..k]
  /\ \A j \in 1..Len(msgs) :
       h[place[j]].role # "system" /\ msgs[j] = Converted(whole, h[place[j]])
  /\ \A i \in 1..k : h[i].role # "system" => \E j \in 1..Len(msgs) : place[j] = i
  /\ \A j \in 1..Len(msgs) : \A l \in 1..(j - 1) : place[l] < place[j]

LEMMA MessagePlaced ==
  ASSUME NEW h \in Seq(Message), NEW whole, NEW k \in 1..Len(h), h[k].role \in Roles,
         NEW in \in Inputs, NEW place, Placed(whole, h, in.messages, k - 1, place)
  PROVE  \E at2 : Placed(whole, h, NextMessage(whole, in, h[k]).messages, k, at2)
<1> DEFINE msgs == in.messages
           n    == Len(msgs)
           new  == NextMessage(whole, in, h[k]).messages
<1>1. /\ h[k] \in Message /\ k \in Nat /\ k - 1 \in Nat
      /\ \A i : i \in 1..k <=> (i \in 1..(k - 1) \/ i = k)
  OBVIOUS
<1>2. msgs \in Seq(Sent) /\ n \in Nat
  <2>1. msgs \in Seq(Sent)
    BY DEF Inputs
  <2> QED BY <2>1
<1>3. new = IF h[k].role = "system" THEN msgs ELSE Append(msgs, Converted(whole, h[k]))
  BY <1>1, NextMessageIs
<1> HIDE DEF new, msgs
<1>4. CASE h[k].role = "system"
  <2>1. place \in [1..n -> 1..k]
    BY <1>1 DEF Placed, msgs
  <2>2. Placed(whole, h, new, k, place)
    BY <1>1, <1>3, <1>4, <2>1 DEF Placed, msgs
  <2> QED BY <2>2 DEF new
<1>5. CASE h[k].role # "system"
  <2>1. /\ Len(new) = n + 1 /\ new[n + 1] = Converted(whole, h[k])
        /\ \A j \in 1..n : new[j] = msgs[j]
    <3>1. Converted(whole, h[k]) \in Sent
      BY <1>1, <1>5, ConvertedTypes DEF Roles
    <3> QED BY <1>2, <1>3, <1>5, <3>1
  <2> DEFINE p == [j \in 1..(n + 1) |-> IF j = n + 1 THEN k ELSE place[j]]
  <2>2. \A j : j \in 1..(n + 1) <=> (j \in 1..n \/ j = n + 1)
    BY <1>2
  <2>3. place \in [1..n -> 1..(k - 1)]
    BY DEF Placed, msgs
  <2>4. p[n + 1] = k /\ \A j \in 1..n : p[j] = place[j] /\ place[j] \in 1..(k - 1)
    BY <1>2, <2>3
  <2>5. p \in [1..(n + 1) -> 1..k]
    BY <1>1, <2>2, <2>3
  <2> HIDE DEF p
  <2>6. \A j \in 1..(n + 1) : h[p[j]].role # "system" /\ new[j] = Converted(whole, h[p[j]])
    BY <1>5, <2>1, <2>2, <2>4 DEF Placed, msgs
  <2>7. \A i \in 1..k : h[i].role # "system" => \E j \in 1..(n + 1) : p[j] = i
    <3>1. \A i \in 1..(k - 1) : h[i].role # "system" => \E j \in 1..n : place[j] = i
      BY DEF Placed, msgs
    <3> QED BY <1>1, <2>2, <2>4, <3>1
  <2>8. \A j \in 1..(n + 1) : \A l \in 1..(j - 1) : p[l] < p[j]
    <3>1. ASSUME NEW j \in 1..n, NEW l \in 1..(j - 1) PROVE p[l] < p[j]
      <4>1. l \in 1..n
        BY <1>2
      <4>2. place[l] < place[j]
        BY DEF Placed, msgs
      <4> QED BY <2>4, <4>1, <4>2
    <3>2. ASSUME NEW l \in 1..((n + 1) - 1) PROVE p[l] < p[n + 1]
      <4>1. l \in 1..n
        BY <1>2
      <4> QED BY <1>1, <2>4, <4>1
    <3> QED BY <2>2, <3>1, <3>2
  <2>9. Placed(whole, h, new, k, p)
    BY <2>1, <2>5, <2>6, <2>7, <2>8 DEF Placed
  <2> QED BY <2>9 DEF new
<1> QED BY <1>4, <1>5

LEMMA AllPlaced ==
  ASSUME NEW h \in Seq(Message), NEW whole, \A i \in DOMAIN h : h[i].role \in Roles
  PROVE  /\ convertMessages(whole, h) \in Inputs /\ ~convertMessages(whole, h).error
         /\ \E place : Placed(whole, h, convertMessages(whole, h).messages, Len(h), place)
<1> DEFINE n == Len(h)
<1>1. n \in Nat /\ DOMAIN h = 1..n /\ \A i \in 1..n : h[i] \in Message
  OBVIOUS
<1>2. PICK run : /\ \A k \in 0..n : run[k] \in Inputs
                 /\ run[0] = NoMessages(FALSE)
                 /\ \A k \in 1..n : run[k] = NextMessage(whole, run[k - 1], h[k])
                 /\ convertMessages(whole, h) = run[n]
  BY RequestRuns
<1> DEFINE S == {k \in 0..n : ~run[k].error /\ \E place : Placed(whole, h, run[k].messages, k, place)}
<1>3. 0 \in S
  <2>1. ~run[0].error /\ run[0].messages = <<>> /\ Len(<<>>) = 0 /\ 1..0 = {}
    BY <1>2 DEF NoMessages
  <2>2. Placed(whole, h, run[0].messages, 0, [j \in 1..0 |-> j])
    BY <2>1 DEF Placed
  <2>3. 0 \in 0..n
    BY <1>1
  <2> QED BY <2>1, <2>2, <2>3
<1>4. ASSUME NEW k \in 0..n, k \in S, k < n PROVE k + 1 \in S
  <2>1. k + 1 \in 1..n /\ k + 1 \in 0..n /\ (k + 1) - 1 = k
    BY <1>1, <1>4
  <2>2. run[k + 1] = NextMessage(whole, run[k], h[k + 1]) /\ run[k] \in Inputs
    BY <1>2, <2>1
  <2>3. ~run[k].error /\ \E place : Placed(whole, h, run[k].messages, k, place)
    BY <1>4
  <2>4. h[k + 1] \in Message /\ h[k + 1].role \in Roles
    BY <1>1, <2>1
  <2>5. ~run[k + 1].error
    BY <2>2, <2>3, <2>4, NextMessageIs
  <2>6. \E place : Placed(whole, h, run[k + 1].messages, k + 1, place)
    BY <2>1, <2>2, <2>3, <2>4, MessagePlaced
  <2> QED BY <2>1, <2>5, <2>6
<1>5. n \in S /\ n \in 0..n
  <2>1. n \in 0..n
    BY <1>1
  <2> HIDE DEF S
  <2> QED BY <1>1, <1>3, <1>4, <2>1, CountUp
<1> QED BY <1>2, <1>5

LEMMA ConvertedBlocks ==
  ASSUME NEW m \in Message, NEW whole, m.role \in {"user", "assistant", "tool"}
  PROVE  /\ BlocksOf(Converted(whole, m), "toolResult")
              = IF m.role = "tool" THEN {convertToolResultMessage(m)} ELSE {}
         /\ m.role = "assistant" =>
              /\ Converted(whole, m).role = "assistant"
              /\ \A i \in 1..Len(m.calls) : \E u \in BlocksOf(Converted(whole, m), "toolUse") :
                   u.id = m.calls[i].id
         /\ m.role = "tool" => Converted(whole, m).role = "user"
<1> DEFINE c == Converted(whole, m)
           b == c.blocks
<1>1. CASE m.role = "user"
  <2>1. c = [role |-> "user", blocks |-> <<Text(m.content)>>]
    BY <1>1 DEF Converted
  <2>2. Range(b) = {Text(m.content)}
    BY <2>1 DEF Range
  <2> QED BY <1>1, <2>2 DEF BlocksOf, Text
<1>2. CASE m.role = "assistant"
  <2>1. c = [role |-> "assistant", blocks |-> convertAssistantMessage(whole, m)]
    BY <1>2 DEF Converted
  <2>2. b = convertAssistantMessage(whole, m) /\ c.role = "assistant"
    BY <2>1
  <2> HIDE DEF c
  <2>3. \A j \in DOMAIN b : b[j].type \in {"text", "toolUse"}
    BY <2>2, AssistantBlocks
  <2>4. \A i \in 1..Len(m.calls) : \E j \in DOMAIN b : b[j].type = "toolUse" /\ b[j].id = m.calls[i].id
    BY <2>2, AssistantBlocks
  <2>5. BlocksOf(c, "toolResult") = {}
    BY <2>3 DEF BlocksOf, Range
  <2>6. \A i \in 1..Len(m.calls) : \E u \in BlocksOf(c, "toolUse") : u.id = m.calls[i].id
    BY <2>4 DEF BlocksOf, Range
  <2> QED BY <1>2, <2>2, <2>5, <2>6 DEF c
<1>3. CASE m.role = "tool"
  <2>1. c = [role |-> "user", blocks |-> <<convertToolResultMessage(m)>>]
    BY <1>3 DEF Converted
  <2>2. Range(b) = {convertToolResultMessage(m)}
    BY <2>1 DEF Range
  <2>3. convertToolResultMessage(m).type = "toolResult"
    BY DEF convertToolResultMessage, ToolResult
  <2> QED BY <1>3, <2>1, <2>2, <2>3 DEF BlocksOf
<1> QED BY <1>1, <1>2, <1>3

RolesKnown(h) == \A i \in DOMAIN h : h[i].role \in Roles

\* What the results of a request answer.
ResultsAt(h, msgs, place) ==
  /\ place \in [DOMAIN msgs -> 1..Len(h)]
  /\ \A j \in DOMAIN msgs : \A r \in BlocksOf(msgs[j], "toolResult") :
       h[place[j]].role = "tool" /\ r.id = h[place[j]].answers /\ msgs[j].role = "user"
  /\ \A c : ResultsOf(msgs, c) = {j \in DOMAIN msgs : place[j] \in Answering(h, c)}

\* The results in a request stand where the answers of the conversation stood.
LEMMA ResultsPlaced ==
  ASSUME NEW h \in Seq(Message), NEW whole, NEW msgs, NEW place,
         msgs \in Seq(Sent), RolesKnown(h),
         Placed(whole, h, msgs, Len(h), place)
  PROVE  ResultsAt(h, msgs, place)
<1>1. DOMAIN h = 1..Len(h) /\ DOMAIN msgs = 1..Len(msgs) /\ \A i \in 1..Len(h) : h[i] \in Message
  OBVIOUS
<1>2. place \in [DOMAIN msgs -> 1..Len(h)]
  BY <1>1 DEF Placed
<1>3. ASSUME NEW j \in DOMAIN msgs
      PROVE  /\ BlocksOf(msgs[j], "toolResult")
                  = IF h[place[j]].role = "tool"
                    THEN {convertToolResultMessage(h[place[j]])} ELSE {}
             /\ h[place[j]].role = "tool" => msgs[j].role = "user"
  <2>1. place[j] \in 1..Len(h) /\ h[place[j]] \in Message /\ h[place[j]].role \in Roles
    BY <1>1, <1>2 DEF RolesKnown
  <2>2. h[place[j]].role # "system" /\ msgs[j] = Converted(whole, h[place[j]])
    BY <1>1 DEF Placed
  <2>3. h[place[j]].role \in {"user", "assistant", "tool"}
    BY <2>1, <2>2 DEF Roles
  <2> DEFINE m == h[place[j]]
  <2> HIDE DEF m
  <2>4. /\ BlocksOf(Converted(whole, m), "toolResult")
             = IF m.role = "tool" THEN {convertToolResultMessage(m)} ELSE {}
        /\ m.role = "tool" => Converted(whole, m).role = "user"
    <3>1. m \in Message /\ m.role \in {"user", "assistant", "tool"}
      BY <2>1, <2>3 DEF m
    <3> QED BY ONLY <3>1, ConvertedBlocks
  <2> QED BY <2>2, <2>4 DEF m
<1>4. \A m : convertToolResultMessage(m).id = m.answers
  BY DEF convertToolResultMessage, ToolResult
<1>5. ASSUME NEW c PROVE ResultsOf(msgs, c) = {j \in DOMAIN msgs : place[j] \in Answering(h, c)}
  BY <1>1, <1>2, <1>3, <1>4 DEF ResultsOf, Answering
<1> QED BY <1>2, <1>3, <1>4, <1>5 DEF ResultsAt

\* As many results as answers.
LEMMA AsManyResults ==
  ASSUME NEW h \in Seq(Message), NEW whole, NEW msgs, NEW place, NEW c,
         msgs \in Seq(Sent), RolesKnown(h),
         Placed(whole, h, msgs, Len(h), place)
  PROVE  Cardinality(ResultsOf(msgs, c)) = Cardinality(Answering(h, c))
<1> DEFINE R == ResultsOf(msgs, c)
           A == Answering(h, c)
           p == [j \in R |-> place[j]]
<1>1. /\ DOMAIN h = 1..Len(h) /\ DOMAIN msgs = 1..Len(msgs)
      /\ Len(h) \in Nat /\ Len(msgs) \in Nat
  OBVIOUS
<1>2. R = {j \in DOMAIN msgs : place[j] \in A} /\ place \in [DOMAIN msgs -> 1..Len(h)]
  BY ResultsPlaced DEF ResultsAt
<1>3. IsFiniteSet(R)
  <2>1. IsFiniteSet(1..Len(msgs))
    BY <1>1, FS_Interval, 1 \in Int, Len(msgs) \in Int
  <2> QED BY <1>1, <1>2, <2>1, FS_Subset
<1>4. A \subseteq 1..Len(h) /\ \A i \in A : h[i].role # "system"
  BY <1>1 DEF Answering
<1> HIDE DEF A, R
<1>5. p \in [R -> A]
  BY <1>2
<1>6. ASSUME NEW j \in R, NEW l \in R, p[j] = p[l] PROVE j = l
  <2>1. place[j] = place[l] /\ j \in 1..Len(msgs) /\ l \in 1..Len(msgs) /\ place[j] \in 1..Len(h)
    BY <1>1, <1>2, <1>6
  <2>2. \A x \in 1..Len(msgs) : \A y \in 1..(x - 1) : place[y] < place[x]
    BY DEF Placed
  <2>3. ~(j < l)
    <3>1. j < l => j \in 1..(l - 1)
      BY <1>1, <2>1
    <3> QED BY <2>1, <2>2, <3>1
  <2>4. ~(l < j)
    <3>1. l < j => l \in 1..(j - 1)
      BY <1>1, <2>1
    <3> QED BY <2>1, <2>2, <3>1
  <2> QED BY <1>1, <2>1, <2>3, <2>4
<1>7. ASSUME NEW i \in A PROVE \E j \in R : p[j] = i
  <2>1. PICK j \in 1..Len(msgs) : place[j] = i
    BY <1>4 DEF Placed
  <2>2. j \in R
    BY <1>1, <1>2, <2>1
  <2> QED BY <2>1, <2>2
<1>8. p \in Bijection(R, A)
  <2> HIDE DEF p
  <2>1. p \in Injection(R, A)
    BY <1>5, <1>6 DEF Injection, IsInjective
  <2>2. p \in Surjection(R, A)
    BY <1>5, <1>7 DEF Surjection
  <2> QED BY <2>1, <2>2 DEF Bijection
<1>9. Cardinality(A) = Cardinality(R)
  <2>1. ExistsBijection(R, A)
    BY <1>8 DEF ExistsBijection
  <2> QED BY <1>3, <2>1, FS_Bijection
<1> QED BY <1>9 DEF A, R

\* A result follows the tool use it answers.
LEMMA ResultFollows ==
  ASSUME NEW h \in Seq(Message), NEW whole, NEW msgs, NEW place,
         msgs \in Seq(Sent), RolesKnown(h),
         Placed(whole, h, msgs, Len(h), place), AskedFirst(h),
         NEW j \in DOMAIN msgs, NEW r \in BlocksOf(msgs[j], "toolResult")
  PROVE  \E l \in 1..(j - 1) : \E u \in BlocksOf(msgs[l], "toolUse") :
           u.id = r.id /\ msgs[l].role = "assistant"
<1>1. /\ DOMAIN h = 1..Len(h) /\ DOMAIN msgs = 1..Len(msgs)
      /\ Len(h) \in Nat /\ Len(msgs) \in Nat
      /\ \A i \in 1..Len(h) : h[i] \in Message
  OBVIOUS
<1>2. /\ h[place[j]].role = "tool" /\ r.id = h[place[j]].answers
      /\ place \in [DOMAIN msgs -> 1..Len(h)]
  BY ResultsPlaced DEF ResultsAt
<1>3. place[j] \in 1..Len(h)
  BY <1>2
<1>4. PICK i \in 1..(place[j] - 1) :
        h[i].role = "assistant" /\ \E c \in DOMAIN h[i].calls : h[i].calls[c].id = r.id
  <2>1. Asked(h, place[j], h[place[j]].answers)
    BY <1>1, <1>2, <1>3 DEF AskedFirst
  <2> QED BY <1>2, <2>1 DEF Asked
<1>5. i \in 1..Len(h) /\ i < place[j]
  BY <1>1, <1>3
<1>6. PICK l \in 1..Len(msgs) : place[l] = i
  BY <1>4, <1>5 DEF Placed
<1>7. l \in 1..(j - 1)
  <2>1. ~(j < l)
    <3>1. j < l => j \in 1..(l - 1)
      BY <1>1
    <3>2. j < l => place[j] < place[l]
      BY <3>1 DEF Placed
    <3> QED BY <1>3, <1>5, <1>6, <3>2
  <2>2. j # l
    BY <1>3, <1>5, <1>6
  <2> QED BY <1>1, <2>1, <2>2
<1>8. msgs[l] = Converted(whole, h[i]) /\ h[i] \in Message
  BY <1>1, <1>5, <1>6 DEF Placed
<1>9. PICK c \in 1..Len(h[i].calls) : h[i].calls[c].id = r.id
  BY <1>4, <1>8, MessageTypes
<1>10. \E u \in BlocksOf(msgs[l], "toolUse") : u.id = r.id /\ msgs[l].role = "assistant"
  BY <1>4, <1>8, <1>9, ConvertedBlocks, SMTT(30)
<1> QED BY <1>7, <1>10

LEMMA ConversationsArePaired == ResultsArePaired
<1> SUFFICES ASSUME NEW h \in Histories, NEW whole \in Wholes, AskedFirst(h)
             PROVE  LET in == buildConverseInput(whole, 0, Request(h, {}, Unforced, {})) IN
      /\ in.error <=> \E i \in DOMAIN h : h[i].role \notin Roles
      /\ \A i \in DOMAIN in.messages : \A r \in BlocksOf(in.messages[i], "toolResult") :
           /\ in.messages[i].role = "user"
           /\ \E j \in 1..(i - 1) : \E u \in BlocksOf(in.messages[j], "toolUse") :
                u.id = r.id /\ in.messages[j].role = "assistant"
      /\ ~in.error => \A c \in CallIds :
           Cardinality(ResultsOf(in.messages, c)) = Cardinality(Answering(h, c))
  BY DEF ResultsArePaired
<1> DEFINE in   == buildConverseInput(whole, 0, Request(h, {}, Unforced, {}))
           made == convertMessages(whole, h)
           bad  == \E i \in DOMAIN h : h[i].role \notin Roles
<1>1. in.error = made.error /\ in.messages = made.messages
  BY DEF buildConverseInput, Request
<1>2. h \in Seq(Message)
  BY ConvertAssumption
<1> HIDE DEF in
<1>3. CASE bad
  <2>1. PICK e \in BOOLEAN : e /\ made = NoMessages(e)
    BY <1>3 DEF convertMessages
  <2>2. (NoMessages(e).error <=> e) /\ NoMessages(e).messages = <<>>
    BY DEF NoMessages
  <2> HIDE DEF made
  <2>3. made.error /\ made.messages = <<>>
    BY <2>1, <2>2
  <2> HIDE DEF bad
  <2>4. in.error <=> bad
    BY <1>1, <1>3, <2>3
  <2>5. DOMAIN <<>> = {}
    OBVIOUS
  <2>6. \A x \in DOMAIN in.messages : FALSE
    BY <1>1, <2>3, <2>5
  <2>7. in.error
    BY <1>3, <2>4
  <2> QED BY <2>4, <2>6, <2>7 DEF bad, in
<1>4. CASE ~bad
  <2> RolesKnown(h)
    BY <1>4 DEF RolesKnown
  <2>1. made \in Inputs /\ ~made.error
    BY <1>2, <1>4, AllPlaced
  <2>2. PICK place : Placed(whole, h, made.messages, Len(h), place)
    BY <1>2, <1>4, AllPlaced
  <2> HIDE DEF made
  <2>3. made.messages \in Seq(Sent)
    BY <2>1 DEF Inputs
  <2>4. \A i \in DOMAIN made.messages : \A r \in BlocksOf(made.messages[i], "toolResult") :
           /\ made.messages[i].role = "user"
           /\ \E j \in 1..(i - 1) : \E u \in BlocksOf(made.messages[j], "toolUse") :
                u.id = r.id /\ made.messages[j].role = "assistant"
    BY <1>2, <1>4, <2>2, <2>3, ResultsPlaced, ResultFollows DEF ResultsAt
  <2>5. \A c \in CallIds : Cardinality(ResultsOf(made.messages, c)) = Cardinality(Answering(h, c))
    BY <1>2, <1>4, <2>2, <2>3, AsManyResults
  <2>6. in.error <=> bad
    BY <1>1, <1>4, <2>1
  <2> HIDE DEF bad
  <2> QED BY <1>1, <2>4, <2>5, <2>6 DEF bad, in
<1> QED BY <1>3, <1>4

LEMMA ChoicesStayForced == ForcedToolsStayForced
<1> SUFFICES ASSUME NEW tools \in SUBSET Tools, NEW choice \in ToolChoices
             PROVE  LET cfg     == buildConverseInput({}, 0, Request(<<>>, tools, choice, {})).tools
                        offered == {t.name : t \in {u \in tools : u.type = "function"}}
                        answers == {{}} \cup {{t.name} : t \in Tools}
                    IN /\ cfg.tools = offered
                       /\ \A answer \in answers : Allows(cfg, answer) =>
                            /\ choice.kind = "required" /\ offered # {} => answer # {}
                            /\ choice.kind = "function" /\ choice.name \in offered
                                 => answer = {choice.name}
  BY DEF ForcedToolsStayForced
<1> DEFINE usable  == {u \in tools : u.type = "function"}
           offered == {t.name : t \in usable}
           cfg     == buildConverseInput({}, 0, Request(<<>>, tools, choice, {})).tools
<1>1. cfg = buildToolConfig(tools, choice)
  BY DEF buildConverseInput, Request
<1>2. cfg.tools = offered
  BY <1>1 DEF buildToolConfig
<1>3. offered # {} => cfg.choice = convertToolChoice(choice)
  <2>1. offered # {} => usable # {}
    OBVIOUS
  <2> QED BY <1>1, <2>1 DEF buildToolConfig
<1> HIDE DEF cfg, usable
<1>4. ASSUME NEW answer, Allows(cfg, answer), choice.kind = "required", offered # {}
      PROVE  answer # {}
  <2>1. cfg.choice.kind = "any"
    BY <1>3, <1>4 DEF convertToolChoice
  <2> QED BY <1>4, <2>1 DEF Allows
<1>5. ASSUME NEW answer, Allows(cfg, answer), choice.kind = "function", choice.name \in offered
      PROVE  answer = {choice.name}
  <2>1. cfg.choice.kind = "tool" /\ cfg.choice.name = choice.name
    BY <1>3, <1>5 DEF convertToolChoice
  <2> QED BY <1>5, <2>1 DEF Allows
<1> QED BY <1>2, <1>4, <1>5 DEF cfg, usable

LEMMA LimitsStayNear == LimitsAreClamped
<1> SUFFICES ASSUME NEW max \in LargestInt32s, NEW n \in TokenLimits
             PROVE  LET in    == buildConverseInput({}, max, Request(<<>>, {}, Unforced, {n}))
                        Int32 == (-max - 1)..max
                    IN /\ in.config.MaxTokens \subseteq Int32
                       /\ \A v \in in.config.MaxTokens, w \in Int32 : Distance(n, v) <= Distance(n, w)
  BY DEF LimitsAreClamped
<1> DEFINE in == buildConverseInput({}, max, Request(<<>>, {}, Unforced, {n}))
<1>1. max \in Nat /\ n \in Int
  BY ConvertAssumption
<1>2. in.config.MaxTokens = {safeIntToInt32(n, max)}
  BY DEF buildConverseInput, Request, buildInferenceConfig
<1> HIDE DEF in
<1>3. safeIntToInt32(n, max) \in (-max - 1)..max
  BY <1>1 DEF safeIntToInt32
<1>4. \A w \in (-max - 1)..max : Distance(n, safeIntToInt32(n, max)) <= Distance(n, w)
  BY <1>1 DEF safeIntToInt32, Distance
<1> QED BY <1>2, <1>3, <1>4 DEF in

\* A request means what the caller meant: the loop over the messages leaves the
\* order of those that are no system messages, and answers stay answers to calls
\* that stand before them; a choice that forces a tool is still one; a limit is
\* the nearest that can be sent.
THEOREM RequestsKeepMeaning == Spec => []RequestKeepsMeaning
<1>1. RequestKeepsMeaning
  BY ConversationsArePaired, ChoicesStayForced, LimitsStayNear DEF RequestKeepsMeaning
<1> QED BY <1>1, PTL
=============================================================================
