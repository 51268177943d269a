------------------------ MODULE ProviderAdaptersProofs ------------------------
(***************************************************************************)
(* Proofs about the adapters of a connected account: for every mailbox and *)
(* calendar, and any number of calls, edits, answers and faults. Whatever  *)
(* the calls, the owner and the faults do, a draft is delivered at most    *)
(* once, an answer is true, a change leaves alone what it does not name,   *)
(* a search for a meeting time suggests what is free, and conversations    *)
(* are told of as they are.                                                *)
(***************************************************************************)
EXTENDS ProviderAdapters, FiniteSetTheorems, WellFoundedInduction, TLAPS

-----------------------------------------------------------------------------
(* The mailbox                                                             *)

\* What an item is, without a bound on the edits.
Texts == [Fields -> Int]
Message(x) ==
  \E m \in Mails, p \in Places, v \in Texts : x = [mail |-> m, place |-> p, content |-> v]

BoxInv ==
  /\ box = [i \in Ids |-> box[i]]
  /\ \A i \in Ids : Message(box[i]) \/ box[i] = NoItem \/ box[i] = Gone
LogInv == log \in Seq(Mails) /\ unwritten \subseteq Mails

\* No mail is in the mailbox under two ids.
OneCopy == \A i, j \in Ids : Exists(i) /\ Exists(j) /\ box[i].mail = box[j].mail => i = j

\* What was delivered is no draft any more.
SentIsNoDraft == \A n \in DOMAIN log : \A i \in Ids : IsDraft(i) => box[i].mail # log[n]

\* A mail that nobody has written is neither there nor delivered.
UnwrittenIsNew ==
  \A m \in unwritten :
    /\ \A i \in Ids : Exists(i) => box[i].mail # m
    /\ \A n \in DOMAIN log : log[n] # m

\* The calls, without a bound on the edits.
EditCalls == [op : {"update"}, id : Ids, give : SUBSET Fields, edit : Int, read : Texts]
Calling(x) == x = Idle \/ x \in EditCalls \/ x \in Sends \/ x \in Bulks
CallInv ==
  /\ call = [c \in Calls |-> call[c]]
  /\ \A c \in Calls : Calling(call[c])
  /\ edits \in Int /\ provider \in {"GOOGLE", "MICROSOFT"}

MailInv ==
  /\ BoxInv /\ LogInv
  /\ OneCopy /\ SentIsNoDraft /\ UnwrittenIsNew
  /\ DraftLeavesOnce

-----------------------------------------------------------------------------
(* Ids and what they stand for                                             *)

LEMMA NewMessage ==
  ASSUME NEW m \in Mails, NEW p \in Places, NEW v \in Texts
  PROVE  Message([mail |-> m, place |-> p, content |-> v])
  BY DEF Message

LEMMA MessageMail == ASSUME NEW x, Message(x) PROVE x.mail \in Mails
  BY DEF Message

LEMMA PlacedMessage ==
  ASSUME NEW x, Message(x), NEW p \in Places
  PROVE  /\ Message([x EXCEPT !.place = p])
         /\ [x EXCEPT !.place = p].mail = x.mail
         /\ [x EXCEPT !.place = p].place = p
<1>2. PICK m \in Mails, q \in Places, v \in Texts : x = [mail |-> m, place |-> q, content |-> v]
  BY DEF Message
<1>3. [x EXCEPT !.place = p] = [mail |-> m, place |-> p, content |-> v]
  BY <1>2
<1>4. Message([mail |-> m, place |-> p, content |-> v])
  BY NewMessage
<1> QED BY <1>2, <1>3, <1>4

LEMMA MessageExists ==
  ASSUME NEW i \in Ids, BoxInv
  PROVE  Exists(i) <=> Message(box[i])
  BY DEF BoxInv, Exists, Message, NoItem, Gone, Places

LEMMA DraftExists == ASSUME NEW i \in Ids, IsDraft(i) PROVE Exists(i)
  BY DEF IsDraft, Exists, Places

LEMMA FreeIdIsFree == Room => FreeId \in Ids /\ box[FreeId] = NoItem
  BY DEF Room, FreeId

LEMMA CallsByTheirOp ==
  ASSUME CallInv, NEW c \in Calls
  PROVE  /\ call[c].op = "send" => call[c] \in Sends
         /\ call[c].op \in BulkOps => call[c] \in Bulks
         /\ call[c].op = "update" => call[c] \in EditCalls
<1>1. Calling(call[c])
  BY DEF CallInv
<1>2. Idle.op = "idle"
  BY DEF Idle
<1>3. \A x \in EditCalls : x.op = "update"
  BY DEF EditCalls
<1>4. \A x \in Sends : x.op = "send"
  BY DEF Sends
<1>5. \A x \in Bulks : x.op \in BulkOps
  BY DEF Bulks
<1>. QED BY <1>1, <1>2, <1>3, <1>4, <1>5 DEF Calling, BulkOps

-----------------------------------------------------------------------------
(* Steps that deliver nothing, and under which messages stay or leave and   *)
(* none becomes a draft                                                     *)

Keeps ==
  /\ UNCHANGED <<log, unwritten>>
  /\ BoxInv'
  /\ \A i \in Ids :
       Exists(i)' => /\ Exists(i) /\ box'[i].mail = box[i].mail
                     /\ IsDraft(i)' => IsDraft(i)

LEMMA KeepsMailInv == ASSUME MailInv, Keeps PROVE MailInv'
<1>1. \A i \in Ids : IsDraft(i)' => IsDraft(i) /\ box'[i].mail = box[i].mail
  BY DEF Keeps, IsDraft, Exists, Places
<1>2. OneCopy'
  BY DEF MailInv, Keeps, OneCopy
<1>3. SentIsNoDraft'
  BY <1>1 DEF MailInv, Keeps, SentIsNoDraft
<1>4. UnwrittenIsNew'
  BY DEF MailInv, Keeps, UnwrittenIsNew
<1>5. LogInv' /\ DraftLeavesOnce'
  BY DEF MailInv, Keeps, LogInv, DraftLeavesOnce
<1> QED BY <1>2, <1>3, <1>4, <1>5 DEF MailInv, Keeps

LEMMA StillKeeps == ASSUME BoxInv, UNCHANGED <<box, log, unwritten>> PROVE Keeps
  BY DEF Keeps, BoxInv, Exists, IsDraft

\* A message stands for the same mail as before, and is no draft unless it was one.
LEMMA ReplacedKeeps ==
  ASSUME NEW i \in Ids, NEW x, BoxInv, Exists(i),
         box' = [box EXCEPT ![i] = x], UNCHANGED <<log, unwritten>>,
         \/ Message(x) /\ x.mail = box[i].mail /\ (x.place = "drafts" => IsDraft(i))
         \/ x = Gone
  PROVE  Keeps
<1>1. box'[i] = x /\ \A j \in Ids \ {i} : box'[j] = box[j]
  BY DEF BoxInv
<1>2. BoxInv'
  BY <1>1 DEF BoxInv
<1>3. ASSUME NEW j \in Ids, Exists(j)'
      PROVE  Exists(j) /\ box'[j].mail = box[j].mail /\ (IsDraft(j)' => IsDraft(j))
  BY <1>1, <1>3 DEF Exists, IsDraft, Gone, Places
<1> QED BY <1>2, <1>3 DEF Keeps

\* An edit gives a message other contents.
LEMMA EditedKeeps ==
  ASSUME NEW i \in Ids, NEW v \in Texts, BoxInv, IsDraft(i),
         box' = [box EXCEPT ![i].content = v], UNCHANGED <<log, unwritten>>
  PROVE  Keeps
<1>1. Exists(i) /\ Message(box[i])
  BY DraftExists, MessageExists
<1>2. PICK m \in Mails, p \in Places, w \in Texts :
        box[i] = [mail |-> m, place |-> p, content |-> w]
  BY <1>1 DEF Message
<1> DEFINE x == [box[i] EXCEPT !.content = v]
<1>3. x = [mail |-> m, place |-> p, content |-> v]
  BY <1>2
<1>4. Message(x) /\ x.mail = box[i].mail
  BY <1>2, <1>3 DEF Message
<1>5. box' = [box EXCEPT ![i] = x]
  OBVIOUS
<1> HIDE DEF x
<1> QED BY <1>1, <1>4, <1>5, ReplacedKeeps

-----------------------------------------------------------------------------
(* The initial states                                                      *)

LEMMA InitMailInv == ASSUME Init PROVE MailInv
<1> DEFINE i0 == CHOOSE k \in Ids : TRUE
           j0 == CHOOSE k \in Ids \ {i0} : TRUE
<1>1. PICK m \in Mails, n \in Mails, received \in BOOLEAN :
        /\ m # n
        /\ box = [k \in Ids |->
             IF k = i0 THEN [mail |-> m, place |-> "drafts", content |-> Blank]
             ELSE IF k = j0 /\ received THEN [mail |-> n, place |-> "inbox", content |-> Blank]
             ELSE NoItem]
        /\ unwritten = IF received THEN Mails \ {m, n} ELSE Mails \ {m}
  BY DEF Init
<1>2. log = <<>>
  BY DEF Init
<1> HIDE DEF i0, j0
<1>3. \A k \in Ids : \/ k = i0 /\ box[k] = [mail |-> m, place |-> "drafts", content |-> Blank]
                     \/ /\ k # i0 /\ k = j0 /\ received
                        /\ box[k] = [mail |-> n, place |-> "inbox", content |-> Blank]
                     \/ box[k] = NoItem
  BY <1>1
<1>4. BoxInv
  <2>1. box = [k \in Ids |-> box[k]]
    BY <1>1
  <2>2. Blank \in Texts
    BY DEF Blank, Texts, None
  <2>3. /\ Message([mail |-> m, place |-> "drafts", content |-> Blank])
        /\ Message([mail |-> n, place |-> "inbox", content |-> Blank])
    BY <2>2, NewMessage DEF Places
  <2> QED BY <1>3, <2>1, <2>3 DEF BoxInv
<1>5. \A k \in Ids : Exists(k) => \/ k = i0 /\ box[k].mail = m
                                  \/ k = j0 /\ received /\ box[k].mail = n
  BY <1>3 DEF Exists, Places, NoItem
<1>6. OneCopy /\ UnwrittenIsNew
  BY <1>1, <1>2, <1>5 DEF OneCopy, UnwrittenIsNew
<1>7. LogInv /\ SentIsNoDraft /\ DraftLeavesOnce
  BY <1>1, <1>2 DEF LogInv, SentIsNoDraft, DraftLeavesOnce
<1> QED BY <1>4, <1>6, <1>7 DEF MailInv

-----------------------------------------------------------------------------
(* The steps that make, send and move a message                            *)

\* The message that Gmail's adapter builds.
LEMMA BuiltIsText ==
  ASSUME NEW v \in Texts, NEW replyTo \in Int
  PROVE  /\ BuildRawEmail(v, replyTo) \in Texts
         /\ \A f \in Written : BuildRawEmail(v, replyTo)[f] = v[f]
<1>1. v \in [Fields -> Int] /\ None \in Int
  BY DEF Texts, None
<1>. DEFINE w == [v EXCEPT !["attachments"] = None]
<1>2. w \in [Fields -> Int] /\ \A f \in Fields \ {"attachments"} : w[f] = v[f]
  BY <1>1
<1>. HIDE DEF w
<1>3. /\ [w EXCEPT !["thread"] = replyTo] \in [Fields -> Int]
      /\ \A f \in Fields \ {"thread"} : [w EXCEPT !["thread"] = replyTo][f] = w[f]
  BY <1>2
<1>4. BuildRawEmail(v, replyTo) = [w EXCEPT !["thread"] = replyTo]
  BY DEF BuildRawEmail, w
<1>5. \A f \in Written : f \in Fields \ {"attachments"} /\ f \in Fields \ {"thread"}
  BY DEF Written, Given, Fields
<1>. QED BY <1>2, <1>3, <1>4, <1>5 DEF Texts

LEMMA CreateMailInv == ASSUME MailInv, CallInv, CreateDraft PROVE MailInv'
<1> DEFINE i == FreeId
<1>1. i \in Ids /\ box[i] = NoItem /\ ~Exists(i)
  BY FreeIdIsFree DEF CreateDraft, Exists, NoItem, Places
<1>2. PICK m \in unwritten, replyTo \in {None, edits'} :
        /\ box' = [box EXCEPT ![i] =
                     [mail |-> m, place |-> "drafts", content |-> NewDraft(edits', replyTo)]]
        /\ unwritten' = unwritten \ {m}
  BY DEF CreateDraft
<1>3. UNCHANGED log /\ m \in Mails
  BY DEF CreateDraft, MailInv, LogInv
<1> HIDE DEF i
<1>4a. NewDraft(edits', replyTo) \in Texts
  <2>1. edits' \in Int /\ None \in Int /\ replyTo \in Int
    BY DEF CreateDraft, CallInv, None
  <2>2. /\ [f \in Fields |-> edits'] \in Texts
        /\ [f \in Fields |-> IF f \in Written THEN edits' ELSE None] \in Texts
    BY <2>1 DEF Texts
  <2>. QED BY <2>1, <2>2, BuiltIsText DEF NewDraft, GmailNewDraft, GraphNewDraft
<1>a. Message([mail |-> m, place |-> "drafts", content |-> NewDraft(edits', replyTo)])
  BY <1>3, <1>4a, NewMessage DEF Places
<1>4. /\ box'[i] = [mail |-> m, place |-> "drafts", content |-> NewDraft(edits', replyTo)]
      /\ \A j \in Ids \ {i} : box'[j] = box[j]
  BY <1>1, <1>2 DEF MailInv, BoxInv
<1>5. BoxInv'
  BY <1>2, <1>a, <1>4 DEF MailInv, BoxInv
<1>6. \A j \in Ids \ {i} : Exists(j)' => Exists(j) /\ box[j].mail # m
  BY <1>4 DEF Exists, MailInv, UnwrittenIsNew
<1>7. OneCopy'
  BY <1>4, <1>6 DEF MailInv, OneCopy
<1>8. SentIsNoDraft'
  BY <1>3, <1>4 DEF MailInv, SentIsNoDraft, UnwrittenIsNew, IsDraft
<1>9. UnwrittenIsNew'
  BY <1>2, <1>3, <1>4, <1>6 DEF MailInv, UnwrittenIsNew
<1>10. LogInv' /\ DraftLeavesOnce'
  BY <1>2, <1>3 DEF MailInv, LogInv, DraftLeavesOnce
<1> QED BY <1>5, <1>7, <1>8, <1>9, <1>10 DEF MailInv

\* A message goes to another place, under a new id.
LEMMA MovedBox ==
  ASSUME NEW i \in Ids, NEW x, MailInv, Exists(i), Room,
         Message(x), x.mail = box[i].mail, x.place # "drafts",
         box' = [[box EXCEPT ![i] = Gone] EXCEPT ![FreeId] = x]
  PROVE  /\ BoxInv' /\ OneCopy'
         /\ \A j \in Ids : Exists(j)' => \E k \in Ids : Exists(k) /\ box'[j].mail = box[k].mail
         /\ \A j \in Ids : IsDraft(j)' => j # i /\ IsDraft(j) /\ box'[j] = box[j]
<1> DEFINE n == FreeId
<1>1. n \in Ids /\ box[n] = NoItem /\ ~Exists(n) /\ n # i
  BY FreeIdIsFree DEF Exists, NoItem, Places
<1> HIDE DEF n
<1>2. /\ box'[n] = x /\ box'[i] = Gone
      /\ \A j \in Ids : j # i /\ j # n => box'[j] = box[j]
      /\ box' = [j \in Ids |-> box'[j]]
  BY <1>1 DEF MailInv, BoxInv, n
<1>3. BoxInv'
  BY <1>2 DEF MailInv, BoxInv
<1>4. Gone.place \notin Places
  BY DEF Gone, Places
<1>5. ASSUME NEW j \in Ids, j # n, Exists(j)'
      PROVE  j # i /\ Exists(j) /\ box'[j] = box[j]
  BY <1>2, <1>4, <1>5 DEF Exists
<1>6. ASSUME NEW j \in Ids, NEW k \in Ids, Exists(j)', Exists(k)', box'[j].mail = box'[k].mail
      PROVE  j = k
  <2>1. CASE j # n /\ k # n
    BY <1>5, <1>6, <2>1 DEF MailInv, OneCopy
  <2>2. CASE j = n /\ k # n
    BY <1>2, <1>5, <1>6, <2>2 DEF MailInv, OneCopy
  <2>3. CASE j # n /\ k = n
    BY <1>2, <1>5, <1>6, <2>3 DEF MailInv, OneCopy
  <2> QED BY <2>1, <2>2, <2>3
<1>7. OneCopy'
  BY <1>6 DEF OneCopy
<1>8. ASSUME NEW j \in Ids, Exists(j)'
      PROVE  \E k \in Ids : Exists(k) /\ box'[j].mail = box[k].mail
  <2>1. CASE j = n
    BY <1>2, <2>1
  <2>2. CASE j # n
    BY <1>5, <1>8, <2>2
  <2>. QED BY <2>1, <2>2
<1>9. \A j \in Ids : IsDraft(j)' => j # i /\ IsDraft(j) /\ box'[j] = box[j]
  BY <1>2, <1>5 DEF IsDraft, Exists, Places
<1> QED BY <1>3, <1>7, <1>8, <1>9

LEMMA AppendedLast ==
  ASSUME NEW seq \in Seq(Mails), NEW m \in Mails
  PROVE  \A n \in DOMAIN Append(seq, m) :
           \/ n \in DOMAIN seq /\ Append(seq, m)[n] = seq[n]
           \/ n = Len(seq) + 1 /\ Append(seq, m)[n] = m
  OBVIOUS

LEMMA SendMailInv ==
  ASSUME MailInv, CallInv, NEW c \in Drafting, SendDraft(c)
  PROVE  MailInv'
<1> DEFINE i == call[c].id
           m == box[i].mail
<1>1. /\ IsDraft(i) /\ Room /\ box' = Sent(i)
      /\ log' = Append(log, m) /\ UNCHANGED unwritten
  BY DEF SendDraft
<1>2. i \in Ids /\ Exists(i)
  <2>1. call[c] \in Sends
    BY CallsByTheirOp DEF SendDraft, Calls
  <2>. QED BY <1>1, <2>1, DraftExists DEF Sends
<1> HIDE DEF i
<1>a. Message(box[i])
  BY <1>2, MessageExists DEF MailInv
<1>3. /\ BoxInv' /\ OneCopy'
      /\ \A j \in Ids : Exists(j)' => \E k \in Ids : Exists(k) /\ box'[j].mail = box[k].mail
      /\ \A j \in Ids : IsDraft(j)' => j # i /\ IsDraft(j) /\ box'[j] = box[j]
  <2> DEFINE x == [box[i] EXCEPT !.place = "sent"]
  <2>1. box' = [[box EXCEPT ![i] = Gone] EXCEPT ![FreeId] = x]
    BY <1>1 DEF Sent
  <2>2. Message(x) /\ x.mail = box[i].mail /\ x.place = "sent"
    BY <1>a, PlacedMessage DEF Places
  <2> HIDE DEF x
  <2> QED BY <1>1, <1>2, <2>1, <2>2, MovedBox
<1>4. m \in Mails
  BY <1>a, MessageMail
<1> HIDE DEF m
<1>5. \A n \in DOMAIN log' :
        \/ n \in DOMAIN log /\ log'[n] = log[n]
        \/ n = Len(log) + 1 /\ log'[n] = m
  <2>1. log \in Seq(Mails) /\ log' = Append(log, m)
    BY <1>1 DEF MailInv, LogInv, m
  <2> QED BY <1>4, <2>1, AppendedLast
<1>6. \A n \in DOMAIN log : log[n] # m
  BY <1>1, <1>2 DEF MailInv, SentIsNoDraft, m
<1>7. LogInv' /\ DraftLeavesOnce'
  BY <1>1, <1>4, <1>5, <1>6 DEF MailInv, LogInv, DraftLeavesOnce
<1>8. SentIsNoDraft'
  <2>1. \A j \in Ids : IsDraft(j)' => box'[j].mail # m
    BY <1>2, <1>3, DraftExists DEF MailInv, OneCopy, m
  <2> QED BY <1>3, <1>5, <2>1 DEF MailInv, SentIsNoDraft
<1>9. UnwrittenIsNew'
  <2>1. \A n \in unwritten : n # m
    BY <1>2 DEF MailInv, UnwrittenIsNew, m
  <2> QED BY <1>1, <1>3, <1>5, <2>1 DEF MailInv, UnwrittenIsNew
<1> QED BY <1>3, <1>7, <1>8, <1>9 DEF MailInv

LEMMA MoveMailInv ==
  ASSUME MailInv, NEW c \in Batches, NEW i \in Ids, Move(c, i)
  PROVE  MailInv'
<1> DEFINE x == [box[i] EXCEPT !.place = call[c].op]
<1>1. call[c].op \in Places /\ call[c].op # "drafts"
  BY DEF Move, Running, BulkOps, Places
<1>2. /\ Exists(i) /\ Room /\ UNCHANGED <<log, unwritten>>
      /\ box' = [[box EXCEPT ![i] = Gone] EXCEPT ![FreeId] = x]
  BY DEF Move
<1>3. Message(x) /\ x.mail = box[i].mail /\ x.place # "drafts"
  BY <1>1, <1>2, MessageExists, PlacedMessage DEF MailInv
<1> HIDE DEF x
<1>4. /\ BoxInv' /\ OneCopy'
      /\ \A j \in Ids : Exists(j)' => \E k \in Ids : Exists(k) /\ box'[j].mail = box[k].mail
      /\ \A j \in Ids : IsDraft(j)' => j # i /\ IsDraft(j) /\ box'[j] = box[j]
  BY <1>2, <1>3, MovedBox
<1>5. SentIsNoDraft'
  BY <1>2, <1>4 DEF MailInv, SentIsNoDraft
<1>6. UnwrittenIsNew'
  <2>1. ASSUME NEW m \in unwritten, NEW j \in Ids, Exists(j)' PROVE box'[j].mail # m
    BY <1>4, <2>1 DEF MailInv, UnwrittenIsNew
  <2> QED BY <1>2, <2>1 DEF MailInv, UnwrittenIsNew
<1>7. LogInv' /\ DraftLeavesOnce'
  BY <1>2 DEF MailInv, LogInv, DraftLeavesOnce
<1> QED BY <1>4, <1>5, <1>6, <1>7 DEF MailInv

\* A label takes a message to another place, or leaves it where it is.
LEMMA LabelledStays ==
  ASSUME NEW i \in Ids, NEW op, BoxInv, Exists(i)
  PROVE  LET x == Labelled(op, box[i]) IN
         Message(x) /\ x.mail = box[i].mail /\ (x.place = "drafts" => IsDraft(i))
<1>1. PICK m \in Mails, q \in Places, v \in Texts :
        box[i] = [mail |-> m, place |-> q, content |-> v]
  BY MessageExists DEF Message
<1>2. \A q2 \in Places : [box[i] EXCEPT !.place = q2] = [mail |-> m, place |-> q2, content |-> v]
  BY <1>1
<1>3. Labelled(op, box[i]) \in {box[i], [box[i] EXCEPT !.place = "archive"],
                                [box[i] EXCEPT !.place = "trash"]}
  BY DEF Labelled
<1>4. "archive" \in Places /\ "trash" \in Places
  BY DEF Places
<1> QED BY <1>1, <1>2, <1>3, <1>4 DEF Message, IsDraft

LEMMA LabelMailInv ==
  ASSUME MailInv, NEW c \in Batches, ApplyLabels(c)
  PROVE  MailInv'
<1> DEFINE ids == {i \in call[c].ids : Exists(i)}
           op == call[c].op
<1>1. /\ box' = [i \in Ids |-> IF i \in ids THEN Labelled(op, box[i]) ELSE box[i]]
      /\ UNCHANGED <<log, unwritten>>
  BY DEF ApplyLabels
<1>2. \A i \in ids : Exists(i)
  OBVIOUS
<1> HIDE DEF ids, op
<1>3. ASSUME NEW i \in Ids
      PROVE  /\ Message(box'[i]) \/ box'[i] = NoItem \/ box'[i] = Gone
             /\ Exists(i)' => /\ Exists(i) /\ box'[i].mail = box[i].mail
                              /\ IsDraft(i)' => IsDraft(i)
  <2>1. CASE i \in ids
    BY <1>1, <1>2, <2>1, LabelledStays DEF MailInv, IsDraft
  <2>2. CASE i \notin ids
    BY <1>1, <2>2 DEF MailInv, BoxInv, Exists, IsDraft
  <2> QED BY <2>1, <2>2
<1>4. BoxInv'
  BY <1>1, <1>3 DEF BoxInv
<1> QED BY <1>1, <1>3, <1>4, KeepsMailInv DEF Keeps

LEMMA TrashMailInv ==
  ASSUME MailInv, NEW c \in Batches, NEW i \in Ids, TrashOne(c, i)
  PROVE  MailInv'
<1>1. box' = [box EXCEPT ![i] = Labelled("trash", box[i])] /\ UNCHANGED <<log, unwritten>>
  BY DEF TrashOne
<1>2. Exists(i)
  BY DEF TrashOne
<1> QED BY <1>1, <1>2, LabelledStays, ReplacedKeeps, KeepsMailInv DEF MailInv

-----------------------------------------------------------------------------
(* The calls                                                               *)

LEMMA InitCallInv == Init => CallInv
  BY DEF Init, CallInv, Calling

\* One call goes on.
LEMMA CallGoesOn ==
  ASSUME CallInv, NEW c \in Calls, NEW x, Calling(x), call' = [call EXCEPT ![c] = x],
         edits' \in Int, UNCHANGED provider
  PROVE  /\ CallInv'
         /\ call'[c] = x
         /\ \A d \in Calls : d # c => call'[d] = call[d]
  BY DEF CallInv

LEMMA OthersLeaveCalls ==
  ASSUME CallInv, UNCHANGED <<call, provider>>, edits' \in Int
  PROVE  CallInv'
  BY DEF CallInv

\* What the mailbox holds, and what an update makes of it.
LEMMA ContentIsText ==
  ASSUME BoxInv, NEW i \in Ids, Exists(i)
  PROVE  box[i].mail \in Mails /\ box[i].place \in Places /\ box[i].content \in Texts
<1>1. PICK m \in Mails, p \in Places, v \in Texts :
        box[i] = [mail |-> m, place |-> p, content |-> v]
  BY MessageExists DEF Message
<1>. QED BY <1>1

LEMMA OneFieldElse ==
  ASSUME NEW S, NEW T, NEW h \in [S -> T], NEW a, NEW x \in T
  PROVE  /\ [h EXCEPT ![a] = x] \in [S -> T]
         /\ \A b \in S \ {a} : [h EXCEPT ![a] = x][b] = h[b]
  OBVIOUS

LEMMA RewrittenIsText ==
  ASSUME CallInv, NEW c \in Calls, call[c].op = "update"
  PROVE  /\ Rewritten(c) \in Texts
         /\ \A f \in Written \ call[c].give :
              Rewritten(c)[f] = call[c].read[f] /\ call[c].read[f] \in Int
<1>1. call[c] \in EditCalls
  BY CallsByTheirOp
<1>2. /\ call[c].read \in [Fields -> Int] /\ call[c].edit \in Int
  BY <1>1 DEF EditCalls, Texts
<1>. DEFINE m == Merge(call[c].read, call[c].give, call[c].edit)
<1>3. /\ m \in [Fields -> Int]
      /\ \A f \in Fields \ call[c].give : m[f] = call[c].read[f]
  BY <1>2 DEF Merge
<1>. HIDE DEF m
<1>4. /\ BuildRawEmail(m, None) \in Texts
      /\ \A f \in Written : BuildRawEmail(m, None)[f] = m[f]
  <2>1. m \in Texts /\ None \in Int
    BY <1>3 DEF Texts, None
  <2>. QED BY <2>1, BuiltIsText
<1>5. Written \subseteq Fields
  BY DEF Written, Given, Fields
<1>6. Rewritten(c) = BuildRawEmail(m, None)
  BY DEF Rewritten, m
<1>. QED BY <1>2, <1>3, <1>4, <1>5, <1>6

\* Of the numbers up to one, some are the least and the greatest.
LEMMA LeastNumber ==
  ASSUME NEW S \in SUBSET Nat, S # {}
  PROVE  \E n \in S : \A k \in S : n <= k
<1>1. PICK n \in S : \A k \in S : ~(<<k, n>> \in OpToRel(<, Nat))
  BY NatLessThanWellFounded, WFMin
<1>2. \A k \in S : ~(k < n)
  BY <1>1 DEF OpToRel
<1>. QED BY <1>2

LEMMA GreatestNumber ==
  ASSUME NEW top \in Nat, NEW S \in SUBSET (1..top), S # {}
  PROVE  \E n \in S : \A k \in S : k <= n
<1>. DEFINE T == {top - n : n \in S}
<1>1. T \in SUBSET Nat /\ T # {}
  <2>1. \A n \in S : top - n \in Nat
    OBVIOUS
  <2>. QED BY <2>1
<1>. HIDE DEF T
<1>2. PICK t \in T : \A k \in T : t <= k
  BY <1>1, LeastNumber
<1>3. PICK n \in S : t = top - n
  BY <1>2 DEF T
<1>4. ASSUME NEW k \in S PROVE k <= n
  <2>1. t <= top - k
    BY <1>2 DEF T
  <2>. QED BY <1>3, <2>1
<1>. QED BY <1>4

LEMMA NewestIsSent ==
  ASSUME LogInv, InSentItems # {}
  PROVE  /\ Newest \in InSentItems
         /\ \A k \in InSentItems : k <= Newest
<1>1. InSentItems \in SUBSET (1..Len(log)) /\ Len(log) \in Nat
  BY DEF InSentItems, LogInv
<1>. QED BY <1>1, GreatestNumber DEF Newest

LEMMA SentMessageIsMail ==
  ASSUME BoxInv, LogInv, NEW c \in Calls, call[c] \in Sends
  PROVE  SentMessage(c) \in Mails \union {NoMail}
<1>1. call[c].at \in Ids
  BY DEF Sends
<1>2. GmailSentMessage(c) \in Mails \union {NoMail}
  BY <1>1, ContentIsText DEF GmailSentMessage
<1>3. InSentItems # {} => log[Newest] \in Mails
  BY NewestIsSent DEF InSentItems, LogInv
<1>. QED BY <1>2, <1>3 DEF SentMessage, GraphSentMessage

LEMMA DraftCallInv ==
  ASSUME BoxInv, LogInv, CallInv, NEW c \in Drafting, Draft(c)
  PROVE  CallInv'
<1>. c \in Calls
  BY DEF Calls
<1>a. edits' \in Int /\ UNCHANGED provider
  BY DEF Draft, CallInv, GmailReadsDraft, BeginSend, GmailWritesDraft, UpdateFails, SendDraft,
         SendUnknownDraft, LookForSent, MarkExecuted, SendFails
<1>1. ASSUME NEW i \in Ids, GmailReadsDraft(c, i) PROVE CallInv'
  <2>1. PICK give \in SUBSET Given :
          call' = [call EXCEPT ![c] = [op |-> "update", id |-> i, give |-> give,
                     edit |-> edits', read |-> NormalizeDraft(box[i].content)]]
    BY <1>1 DEF GmailReadsDraft
  <2>2. box[i].content \in [Fields -> Int]
    BY <1>1, DraftExists, ContentIsText DEF GmailReadsDraft, Texts
  <2>3. NormalizeDraft(box[i].content) \in Texts
    <3>1. None \in Int
      BY DEF None
    <3>. QED BY <2>2, <3>1, OneFieldElse DEF NormalizeDraft, Texts
  <2>4. Calling([op |-> "update", id |-> i, give |-> give, edit |-> edits',
                 read |-> NormalizeDraft(box[i].content)])
    BY <1>a, <2>3 DEF Calling, EditCalls, Fields
  <2>. QED BY <1>a, <2>1, <2>4, CallGoesOn
<1>2. ASSUME NEW i \in Ids, BeginSend(c, i) PROVE CallInv'
  <2>1. Calling(NewSend(i))
    BY DEF Calling, NewSend, Sends
  <2>. QED BY <1>2, <1>a, <2>1, CallGoesOn DEF BeginSend
<1>3. CASE GmailWritesDraft(c) \/ UpdateFails(c)
  <2>1. Calling(Idle)
    BY DEF Calling
  <2>. QED BY <1>3, <1>a, <2>1, CallGoesOn DEF GmailWritesDraft, UpdateFails
<1>4. CASE SendDraft(c)
  <2>1. /\ call[c] \in Sends
        /\ \A d \in Calls : call[d].op = "send" => call[d] \in Sends
    BY <1>4, CallsByTheirOp DEF SendDraft
  <2>2. /\ box[call[c].id].mail \in Mails
        /\ FreeId \in Ids
    BY <1>4, <2>1, DraftExists, ContentIsText, FreeIdIsFree DEF SendDraft, Sends
  <2>3. call' = [d \in Calls |->
          IF d = c THEN [call[c] EXCEPT !.pc = "looking", !.mail = box[call[c].id].mail,
                                        !.at = FreeId]
          ELSE IF call[d].op = "send" THEN [call[d] EXCEPT !.missed = TRUE] ELSE call[d]]
    BY <1>4 DEF SendDraft
  <2>4. [call[c] EXCEPT !.pc = "looking", !.mail = box[call[c].id].mail, !.at = FreeId] \in Sends
    BY <2>1, <2>2 DEF Sends
  <2>5. \A d \in Calls : call[d].op = "send" => [call[d] EXCEPT !.missed = TRUE] \in Sends
    BY <2>1 DEF Sends
  <2>. QED BY <1>a, <2>3, <2>4, <2>5 DEF CallInv, Calling
<1>5. CASE SendUnknownDraft(c) \/ MarkExecuted(c) \/ SendFails(c)
  <2>1. call[c] \in Sends
    BY <1>5, CallsByTheirOp DEF SendUnknownDraft, MarkExecuted, SendFails
  <2>2. PICK p \in {"failed", "ok"} : call' = [call EXCEPT ![c].pc = p]
    BY <1>5 DEF SendUnknownDraft, MarkExecuted, SendFails
  <2>3. [call[c] EXCEPT !.pc = p] \in Sends
    BY <2>1 DEF Sends
  <2>4. call' = [call EXCEPT ![c] = [call[c] EXCEPT !.pc = p]]
    BY <2>2
  <2>. QED BY <1>a, <2>3, <2>4, CallGoesOn DEF Calling
<1>6. CASE LookForSent(c)
  <2>1. call[c] \in Sends
    BY <1>6, CallsByTheirOp DEF LookForSent
  <2>2. PICK p \in {"failed", "marking"} :
          call' = [call EXCEPT ![c].answer = SentMessage(c), ![c].pc = p]
    BY <1>6 DEF LookForSent
  <2>3. SentMessage(c) \in Mails \union {NoMail}
    BY <1>6, <2>1, SentMessageIsMail
  <2>4. [call[c] EXCEPT !.answer = SentMessage(c), !.pc = p] \in Sends
    BY <2>1, <2>3 DEF Sends
  <2>5. call' = [call EXCEPT ![c] = [call[c] EXCEPT !.answer = SentMessage(c), !.pc = p]]
    BY <2>2
  <2>. QED BY <1>a, <2>4, <2>5, CallGoesOn DEF Calling
<1>. QED BY <1>1, <1>2, <1>3, <1>4, <1>5, <1>6 DEF Draft

\* What a list or a search shows is there, and is told from a draft.
LEMMA ShownExists ==
  ASSUME NEW v \in Listing \union Found(Mails)
  PROVE  /\ v.id \in Ids /\ Exists(v.id)
         /\ ~v.isDraft => ~IsDraft(v.id)
<1>1. v \in GmailMessages \/ v \in GraphMessages
  BY DEF Listing, Found, GmailThreads, GraphThreads, GmailMatches, GraphMatches
<1>2. CASE v \in GmailMessages
  BY <1>2 DEF GmailMessages, GmailMessage
<1>3. CASE v \in GraphMessages
  BY <1>3 DEF GraphMessages, GraphMessage
<1>. QED BY <1>1, <1>2, <1>3

\* What a call for many messages begins with: some that are there and are no drafts.
LEMMA BulkBegins ==
  ASSUME BoxInv, NEW c \in Calls, NEW op \in BulkOps, BeginBulk(c, op)
  PROVE  \E ids \in SUBSET Ids :
           LET mails_of == {box[i].mail : i \in ids} IN
           /\ \A i \in ids : Exists(i) /\ ~IsDraft(i)
           /\ mails_of \in SUBSET Mails
           /\ call' = [call EXCEPT ![c] = [op |-> op, pc |-> "running", ids |-> ids,
                                           todo |-> ids, mails |-> mails_of]]
<1>1. PICK shown \in SUBSET {v \in Listing \union Found(Mails) : ~v.isDraft /\ ~v.isTrash} :
        LET ids == {v.id : v \in shown} IN
        call' = [call EXCEPT ![c] = [op |-> op, pc |-> "running", ids |-> ids, todo |-> ids,
                                     mails |-> {box[i].mail : i \in ids}]]
  BY DEF BeginBulk
<1>. DEFINE ids == {v.id : v \in shown}
<1>2. \A i \in ids : i \in Ids /\ Exists(i) /\ ~IsDraft(i)
  BY ShownExists
<1>3. \A i \in ids : box[i].mail \in Mails
  BY <1>2, ContentIsText
<1>. QED BY <1>1, <1>2, <1>3

\* How a call for many messages goes on after a request.
LEMMA AnsweredIsBulk ==
  ASSUME NEW c \in Calls, call[c] \in Bulks, NEW i
  PROVE  /\ Answered(c, i) \in Bulks
         /\ Answered(c, i).op = call[c].op /\ Answered(c, i).ids = call[c].ids
         /\ Answered(c, i).mails = call[c].mails
         /\ Answered(c, i).todo = call[c].todo \ {i}
         /\ \/ Answered(c, i).pc = call[c].pc
            \/ call[c].pc = "running" /\ call[c].todo = {i} /\ Answered(c, i).pc = "ok"
  BY DEF Answered, Bulks

LEMMA ChangedIsBulk ==
  ASSUME NEW c \in Calls, call[c] \in Bulks, NEW p \in {"running", "ok", "failed"},
         NEW rest \in SUBSET Ids
  PROVE  [call[c] EXCEPT !.pc = p, !.todo = rest] \in Bulks
  BY DEF Bulks

LEMMA ChangedFields ==
  ASSUME NEW c \in Calls, call[c] \in Bulks, NEW p, NEW rest
  PROVE  /\ [call[c] EXCEPT !.pc = p, !.todo = rest].op = call[c].op
         /\ [call[c] EXCEPT !.pc = p, !.todo = rest].ids = call[c].ids
         /\ [call[c] EXCEPT !.pc = p, !.todo = rest].mails = call[c].mails
         /\ [call[c] EXCEPT !.pc = p, !.todo = rest].pc = p
         /\ [call[c] EXCEPT !.pc = p, !.todo = rest].todo = rest
  BY DEF Bulks

LEMMA BulkCallInv ==
  ASSUME BoxInv, CallInv, NEW c \in Batches, Bulk(c)
  PROVE  CallInv'
<1>. c \in Calls
  BY DEF Calls
<1>a. edits' \in Int /\ UNCHANGED provider
  BY DEF Bulk, CallInv, BeginBulk, RepeatBulk, ApplyLabels, BulkFails, TrashOne, TrashFails,
         SetReadStatus, Move, NoSuchMessage
<1>1. ASSUME NEW op \in BulkOps, BeginBulk(c, op) PROVE CallInv'
  <2>1. PICK ids \in SUBSET Ids, m \in SUBSET Mails :
          call' = [call EXCEPT ![c] = [op |-> op, pc |-> "running", ids |-> ids, todo |-> ids,
                                       mails |-> m]]
    BY <1>1, BulkBegins
  <2>2. [op |-> op, pc |-> "running", ids |-> ids, todo |-> ids, mails |-> m] \in Bulks
    BY DEF Bulks
  <2>. QED BY <1>a, <2>1, <2>2, CallGoesOn DEF Calling
<1>2. CASE RepeatBulk(c) \/ ApplyLabels(c) \/ BulkFails(c)
  <2>1. call[c] \in Bulks
    BY <1>2, CallsByTheirOp DEF RepeatBulk, ApplyLabels, BulkFails, Running
  <2>2. PICK p \in {"running", "ok", "failed"}, rest \in SUBSET Ids :
          call' = [call EXCEPT ![c] = [call[c] EXCEPT !.pc = p, !.todo = rest]]
    <3>1. call[c].ids \in SUBSET Ids
      BY <2>1 DEF Bulks
    <3>2. CASE RepeatBulk(c)
      <4>1. call' = [call EXCEPT ![c] = [call[c] EXCEPT !.pc = "running", !.todo = call[c].ids]]
        BY <3>2 DEF RepeatBulk
      <4>. QED BY <3>1, <4>1
    <3>3. CASE ApplyLabels(c)
      <4>1. call' = [call EXCEPT ![c] = [call[c] EXCEPT !.pc = "ok", !.todo = {}]]
        BY <3>3 DEF ApplyLabels
      <4>. QED BY <4>1
    <3>4. CASE BulkFails(c)
      <4>1. call' = [call EXCEPT ![c] = [call[c] EXCEPT !.pc = "failed", !.todo = {}]]
        BY <3>4 DEF BulkFails, Stopped
      <4>. QED BY <4>1
    <3>. QED BY <1>2, <3>2, <3>3, <3>4
  <2>. QED BY <1>a, <2>1, <2>2, ChangedIsBulk, CallGoesOn DEF Calling
<1>3. ASSUME NEW i \in Ids, TrashOne(c, i) \/ SetReadStatus(c, i) PROVE CallInv'
  <2>1. call[c] \in Bulks
    BY <1>3, CallsByTheirOp DEF TrashOne, SetReadStatus, Running, BulkOps
  <2>2. call' = [call EXCEPT ![c] = Answered(c, i)]
    BY <1>3 DEF TrashOne, SetReadStatus
  <2>. QED BY <1>a, <2>1, <2>2, AnsweredIsBulk, CallGoesOn DEF Calling
<1>4. ASSUME NEW i \in Ids, TrashFails(c, i) \/ NoSuchMessage(c, i) PROVE CallInv'
  <2>1. call[c] \in Bulks
    BY <1>4, CallsByTheirOp DEF TrashFails, NoSuchMessage, Running, BulkOps
  <2>2. PICK rest \in SUBSET Ids :
          call' = [call EXCEPT ![c] = [call[c] EXCEPT !.pc = "failed", !.todo = rest]]
    <3>1. CASE TrashFails(c, i)
      <4>1. call' = [call EXCEPT ![c] = [call[c] EXCEPT !.pc = "failed", !.todo = call[c].todo \ {i}]]
        BY <3>1 DEF TrashFails, Refused
      <4>2. call[c].todo \ {i} \in SUBSET Ids
        BY <2>1 DEF Bulks
      <4>. QED BY <4>1, <4>2
    <3>2. CASE NoSuchMessage(c, i)
      <4>1. call' = [call EXCEPT ![c] = [call[c] EXCEPT !.pc = "failed", !.todo = {}]]
        BY <3>2 DEF NoSuchMessage, Stopped
      <4>. QED BY <4>1
    <3>. QED BY <1>4, <3>1, <3>2
  <2>. QED BY <1>a, <2>1, <2>2, ChangedIsBulk, CallGoesOn DEF Calling
<1>5. ASSUME NEW i \in Ids, Move(c, i) PROVE CallInv'
  <2>1. call[c] \in Bulks /\ \A d \in Calls : call[d].op = "send" => call[d] \in Sends
    BY <1>5, CallsByTheirOp DEF Move, Running
  <2>2. call' = [d \in Calls |->
          IF d = c THEN Answered(c, i)
          ELSE IF call[d].op = "send" /\ call[d].at = i THEN [call[d] EXCEPT !.missed = TRUE]
          ELSE call[d]]
    BY <1>5 DEF Move
  <2>3. Answered(c, i) \in Bulks
    BY <2>1, AnsweredIsBulk
  <2>4. \A d \in Calls : call[d].op = "send" => [call[d] EXCEPT !.missed = TRUE] \in Sends
    BY <2>1 DEF Sends
  <2>. QED BY <1>a, <2>2, <2>3, <2>4 DEF CallInv, Calling
<1>. QED BY <1>1, <1>2, <1>3, <1>4, <1>5 DEF Bulk

-----------------------------------------------------------------------------
(* Every step of the mailbox                                               *)

LEMMA DraftMailInv ==
  ASSUME MailInv, CallInv, NEW c \in Drafting, Draft(c)
  PROVE  MailInv'
<1>1. CASE SendDraft(c)
  BY <1>1, SendMailInv
<1>2. CASE GmailWritesDraft(c)
  <2>1. UNCHANGED <<log, unwritten>> /\ \/ UNCHANGED box
                                        \/ /\ IsDraft(call[c].id)
                                           /\ box' = [box EXCEPT ![call[c].id].content = Rewritten(c)]
    BY <1>2 DEF GmailWritesDraft
  <2>2. call[c].id \in Ids /\ Rewritten(c) \in Texts
    BY <1>2, CallsByTheirOp, RewrittenIsText DEF GmailWritesDraft, EditCalls, Calls
  <2>3. CASE UNCHANGED box
    BY <2>1, <2>3, StillKeeps, KeepsMailInv DEF MailInv
  <2>. QED BY <2>1, <2>2, <2>3, EditedKeeps, KeepsMailInv DEF MailInv
<1>3. CASE \/ \E i \in Ids : GmailReadsDraft(c, i) \/ BeginSend(c, i)
           \/ UpdateFails(c) \/ SendUnknownDraft(c) \/ LookForSent(c) \/ MarkExecuted(c)
           \/ SendFails(c)
  <2>1. UNCHANGED <<box, log, unwritten>>
    BY <1>3 DEF GmailReadsDraft, BeginSend, UpdateFails, SendUnknownDraft, LookForSent,
                MarkExecuted, SendFails
  <2> QED BY <2>1, StillKeeps, KeepsMailInv DEF MailInv
<1> QED BY <1>1, <1>2, <1>3 DEF Draft

LEMMA BulkMailInv ==
  ASSUME MailInv, NEW c \in Batches, Bulk(c)
  PROVE  MailInv'
<1>1. CASE ApplyLabels(c)
  BY <1>1, LabelMailInv
<1>2. ASSUME NEW i \in Ids, TrashOne(c, i) PROVE MailInv'
  BY <1>2, TrashMailInv
<1>3. ASSUME NEW i \in Ids, Move(c, i) PROVE MailInv'
  BY <1>3, MoveMailInv
<1>4. CASE \/ \E op \in BulkOps : BeginBulk(c, op)
           \/ RepeatBulk(c) \/ BulkFails(c)
           \/ \E i \in Ids : TrashFails(c, i) \/ SetReadStatus(c, i) \/ NoSuchMessage(c, i)
  <2>1. UNCHANGED <<box, log, unwritten>>
    BY <1>4 DEF BeginBulk, RepeatBulk, BulkFails, TrashFails, SetReadStatus, NoSuchMessage
  <2> QED BY <2>1, StillKeeps, KeepsMailInv DEF MailInv
<1> QED BY <1>1, <1>2, <1>3, <1>4 DEF Bulk

\* An edit gives one field of a draft another value.
LEMMA OneFieldEdited ==
  ASSUME BoxInv, NEW i \in Ids, IsDraft(i), NEW f, NEW e \in Int,
         box' = [box EXCEPT ![i].content[f] = e]
  PROVE  \E v \in Texts : box' = [box EXCEPT ![i].content = v]
<1>1. box[i].content \in [Fields -> Int]
  BY DraftExists, ContentIsText DEF Texts
<1>. DEFINE v == [box[i].content EXCEPT ![f] = e]
<1>2. v \in Texts
  BY <1>1, OneFieldElse DEF Texts
<1>3. box' = [box EXCEPT ![i].content = v]
  OBVIOUS
<1>. QED BY <1>2, <1>3

LEMMA OwnerMailInv ==
  ASSUME MailInv, CallInv, NEW i \in Ids, OwnerEdits(i) \/ DeleteDraft(i) \/ GraphPatchesDraft(i)
  PROVE  /\ MailInv' /\ CallInv' /\ IsDraft(i)
         /\ UNCHANGED <<provider, call, log, had>>
         /\ \/ box' = [box EXCEPT ![i] = Gone]
            \/ \E v \in Texts : box' = [box EXCEPT ![i].content = v]
<1>1. edits' \in Int
  BY DEF OwnerEdits, DeleteDraft, GraphPatchesDraft, CallInv
<1>2. IsDraft(i) /\ UNCHANGED <<provider, call, log, had, unwritten>> /\ Exists(i)
  BY DraftExists DEF OwnerEdits, DeleteDraft, GraphPatchesDraft
<1>3. \/ box' = [box EXCEPT ![i] = Gone]
      \/ \E v \in Texts : box' = [box EXCEPT ![i].content = v]
  <2>1. CASE DeleteDraft(i)
    BY <2>1 DEF DeleteDraft
  <2>2. CASE OwnerEdits(i)
    <3>1. PICK f : box' = [box EXCEPT ![i].content[f] = edits']
      BY <2>2 DEF OwnerEdits
    <3>. QED BY <1>1, <1>2, <3>1, OneFieldEdited DEF MailInv
  <2>3. CASE GraphPatchesDraft(i)
    <3>1. PICK give : box' = [box EXCEPT ![i].content = Merge(box[i].content, give, edits')]
      BY <2>3 DEF GraphPatchesDraft
    <3>2. box[i].content \in Texts
      BY <1>2, ContentIsText DEF MailInv
    <3>3. Merge(box[i].content, give, edits') \in Texts
      BY <1>1, <3>2 DEF Merge, Texts
    <3>. QED BY <3>1, <3>3
  <2>. QED BY <2>1, <2>2, <2>3
<1>4. CASE box' = [box EXCEPT ![i] = Gone]
  BY <1>1, <1>2, <1>4, ReplacedKeeps, KeepsMailInv, OthersLeaveCalls DEF MailInv
<1>5. ASSUME NEW v \in Texts, box' = [box EXCEPT ![i].content = v] PROVE MailInv'
  BY <1>2, <1>5, EditedKeeps, KeepsMailInv DEF MailInv
<1>. QED BY <1>1, <1>2, <1>3, <1>4, <1>5, OthersLeaveCalls

-----------------------------------------------------------------------------
(* What an answer says of the mailbox                                      *)

\* An id that was given stands for one mail for good, until its message leaves it.
There(i) == Exists(i) \/ box[i] = Gone
Stands(i, m) == box[i] = Gone \/ (Exists(i) /\ box[i].mail = m)

\* A call for many messages: each of its mails has had its due, or stands under an id that
\* is still to be asked for; and a repetition of the call finds all its mails again.
BulkDue(c) ==
  LET b == call[c] IN
  b.op \in BulkOps =>
    /\ b.todo \subseteq b.ids
    /\ \A i \in b.ids : There(i) /\ ~IsDraft(i) /\ (provider = "GOOGLE" => Exists(i))
    /\ \A m \in b.mails : \E i \in b.ids : Stands(i, m)
    /\ b.pc = "running" => \A m \in b.mails : b.op \in had[m] \/ \E i \in b.todo : Stands(i, m)
    /\ b.pc = "ok" => \A m \in b.mails : b.op \in had[m]

\* A sending that looks for its message: the id that it was given stands for its mail, and
\* while nothing has come in between, the mail is the last one delivered.
SendDue(c) ==
  LET s == call[c] IN
  s.op = "send" =>
    /\ s.pc = "sending" => s.answer = NoMail
    /\ s.answer # NoMail => s.answer = s.mail \/ (provider = "MICROSOFT" /\ s.missed)
    /\ s.pc = "looking" =>
         /\ There(s.at) /\ ~IsDraft(s.at)
         /\ Exists(s.at) => box[s.at].mail = s.mail
         /\ provider = "MICROSOFT" /\ ~s.missed =>
              /\ log # <<>> /\ log[Len(log)] = s.mail
              /\ Exists(s.at) /\ box[s.at].place = "sent"

Due(c) == BulkDue(c) /\ SendDue(c)

\* What a step does to an id, and to what mails have had.
BoxGoesOn ==
  \A i \in Ids :
    /\ box[i] = Gone => box'[i] = Gone
    /\ Exists(i) => \/ box'[i] = Gone /\ (IsDraft(i) \/ provider = "MICROSOFT")
                    \/ Exists(i)' /\ box'[i].mail = box[i].mail /\ (IsDraft(i)' => IsDraft(i))
HadGrows == \A m \in Mails : had[m] \subseteq had'[m]
GoesOn == BoxGoesOn /\ HadGrows /\ UNCHANGED provider

\* What a step does to the calls of others.
Leaves(d) ==
  \/ /\ call'[d] = call[d]
     /\ provider = "MICROSOFT" /\ call[d].op = "send" /\ call[d].pc = "looking" =>
          log' = log /\ box'[call[d].at] = box[call[d].at]
  \/ call[d].op = "send" /\ call'[d] = [call[d] EXCEPT !.missed = TRUE]

LEMMA GoneIsGone == ASSUME NEW i \in Ids, box[i] = Gone PROVE ~Exists(i) /\ ~IsDraft(i)
  BY DEF Exists, IsDraft, Gone, Places

LEMMA StillThere ==
  ASSUME GoesOn, NEW i \in Ids
  PROVE  /\ There(i) => There(i)'
         /\ There(i) /\ ~IsDraft(i) => ~IsDraft(i)'
         /\ provider = "GOOGLE" /\ Exists(i) /\ ~IsDraft(i) => Exists(i)'
         /\ There(i) /\ Exists(i)' => Exists(i) /\ box'[i].mail = box[i].mail
         /\ \A m : Stands(i, m) => Stands(i, m)'
<1>1. box'[i] = Gone => ~Exists(i)' /\ ~IsDraft(i)'
  BY DEF Exists, IsDraft, Gone, Places
<1>2. provider = "GOOGLE" => provider # "MICROSOFT"
  OBVIOUS
<1>. QED BY <1>1, <1>2 DEF GoesOn, BoxGoesOn, There, Stands

LEMMA BulkStays ==
  ASSUME CallInv, NEW c \in Calls, BulkDue(c), GoesOn,
         call'[c] = call[c] \/ (call[c].op \notin BulkOps /\ call'[c].op \notin BulkOps)
  PROVE  BulkDue(c)'
<1>1. CASE call'[c] = call[c] /\ call[c].op \in BulkOps
  <2>1. call[c].ids \subseteq Ids /\ call[c].mails \subseteq Mails
    BY <1>1, CallsByTheirOp DEF Bulks
  <2>2. call[c].todo \subseteq call[c].ids
    BY <1>1 DEF BulkDue
  <2>3. ASSUME NEW i \in call[c].ids
        PROVE  There(i)' /\ ~IsDraft(i)' /\ (provider = "GOOGLE" => Exists(i)')
    BY <1>1, <2>1, StillThere DEF BulkDue
  <2>4. \A i \in call[c].ids : \A m : Stands(i, m) => Stands(i, m)'
    BY <2>1, StillThere
  <2>5. \A m \in call[c].mails : had[m] \subseteq had'[m]
    BY <2>1 DEF GoesOn, HadGrows
  <2>6. provider' = provider
    BY DEF GoesOn
  <2>. QED BY <1>1, <2>2, <2>3, <2>4, <2>5, <2>6 DEF BulkDue
<1>2. CASE call'[c].op \notin BulkOps
  BY <1>2 DEF BulkDue
<1>. QED BY <1>1, <1>2

LEMMA SendStays ==
  ASSUME CallInv, NEW c \in Calls, SendDue(c), GoesOn, Leaves(c)
  PROVE  SendDue(c)'
<1>1. CASE call'[c].op # "send"
  BY <1>1 DEF SendDue
<1>2. CASE call'[c].op = "send"
  <2>1. call[c] \in Sends
    BY <1>2, CallsByTheirOp DEF Leaves
  <2>2. /\ call'[c].op = call[c].op /\ call'[c].pc = call[c].pc /\ call'[c].at = call[c].at
        /\ call'[c].mail = call[c].mail /\ call'[c].answer = call[c].answer
        /\ call[c].missed => call'[c].missed
    BY <2>1 DEF Leaves, Sends
  <2>3. /\ call[c].answer # NoMail =>
             call[c].answer = call[c].mail \/ (provider = "MICROSOFT" /\ call[c].missed)
        /\ call[c].pc = "sending" => call[c].answer = NoMail
        /\ provider' = provider
    BY <1>2, <2>2 DEF SendDue, GoesOn
  <2>4. ASSUME call[c].pc = "looking"
        PROVE  LET i == call[c].at IN
               There(i)' /\ ~IsDraft(i)' /\ (Exists(i)' => box'[i].mail = call[c].mail)
    <3>1. call[c].at \in Ids
      BY <2>1 DEF Sends
    <3>. QED BY <1>2, <2>2, <2>4, <3>1, StillThere DEF SendDue
  <2>5. ASSUME call[c].pc = "looking", provider = "MICROSOFT", ~call'[c].missed
        PROVE  LET i == call[c].at IN
               /\ log' # <<>> /\ log'[Len(log')] = call[c].mail
               /\ Exists(i)' /\ box'[i].place = "sent"
    <3>1. log' = log /\ box'[call[c].at] = box[call[c].at]
      BY <1>2, <2>1, <2>2, <2>5 DEF Leaves, Sends
    <3>2. Exists(call[c].at)' <=> Exists(call[c].at)
      BY <2>2, <3>1 DEF Exists
    <3>. QED BY <1>2, <2>2, <2>5, <3>1, <3>2 DEF SendDue
  <2>. QED BY <1>2, <2>2, <2>3, <2>4, <2>5 DEF SendDue
<1>. QED BY <1>1, <1>2

LEMMA OthersStayDue ==
  ASSUME CallInv, NEW c \in Calls, Due(c), GoesOn, Leaves(c)
  PROVE  Due(c)'
<1>1. call'[c] = call[c] \/ (call[c].op \notin BulkOps /\ call'[c].op \notin BulkOps)
  <2>1. CASE call[c].op = "send" /\ call'[c] = [call[c] EXCEPT !.missed = TRUE]
    <3>1. call[c] \in Sends
      BY <2>1, CallsByTheirOp
    <3>2. call'[c].op = "send"
      BY <2>1, <3>1 DEF Sends
    <3>. QED BY <2>1, <3>2 DEF BulkOps
  <2>2. CASE call'[c] = call[c]
    BY <2>2
  <2>. QED BY <2>1, <2>2 DEF Leaves
<1>. QED BY <1>1, BulkStays, SendStays DEF Due

-----------------------------------------------------------------------------
(* What the steps do to the mailbox and to other calls                     *)

LEMMA StillGoesOn == BoxInv /\ UNCHANGED <<box, had, provider>> => GoesOn
  BY DEF GoesOn, BoxGoesOn, HadGrows, Exists, IsDraft

LEMMA ReplacedGoesOn ==
  ASSUME NEW i \in Ids, NEW x, BoxInv, Exists(i) \/ box[i] = NoItem,
         box' = [box EXCEPT ![i] = x], HadGrows, UNCHANGED provider,
         Exists(i) =>
           \/ x.place \in Places /\ x.mail = box[i].mail /\ (x.place = "drafts" => IsDraft(i))
           \/ x = Gone /\ (IsDraft(i) \/ provider = "MICROSOFT")
  PROVE  GoesOn /\ \A j \in Ids \ {i} : box'[j] = box[j]
<1>1. box'[i] = x /\ \A j \in Ids \ {i} : box'[j] = box[j]
  BY DEF BoxInv
<1>2. box[i] # Gone
  BY GoneIsGone DEF NoItem, Gone
<1>3. BoxGoesOn
  BY <1>1, <1>2 DEF BoxGoesOn, Exists, IsDraft
<1>. QED BY <1>1, <1>3 DEF GoesOn

LEMMA MovedGoesOn ==
  ASSUME NEW i \in Ids, NEW x, BoxInv, Exists(i), Room, IsDraft(i) \/ provider = "MICROSOFT",
         box' = [[box EXCEPT ![i] = Gone] EXCEPT ![FreeId] = x], HadGrows, UNCHANGED provider
  PROVE  /\ GoesOn
         /\ FreeId \in Ids /\ box'[FreeId] = x
         /\ box'[i] = Gone
         /\ \A j \in Ids : j # i /\ There(j) => box'[j] = box[j]
<1>. DEFINE n == FreeId
<1>1. n \in Ids /\ box[n] = NoItem /\ ~Exists(n) /\ box[n] # Gone /\ n # i
  BY FreeIdIsFree DEF Exists, NoItem, Gone, Places
<1>. HIDE DEF n
<1>2. /\ box'[n] = x /\ box'[i] = Gone
      /\ \A j \in Ids : j # i /\ j # n => box'[j] = box[j]
  BY <1>1 DEF BoxInv, n
<1>3. BoxGoesOn
  BY <1>1, <1>2 DEF BoxGoesOn, Exists, IsDraft
<1>4. \A j \in Ids : There(j) => j # n
  BY <1>1 DEF There
<1>. QED BY <1>1, <1>2, <1>3, <1>4 DEF GoesOn, n

LEMMA EditedGoesOn ==
  ASSUME NEW i \in Ids, NEW v, BoxInv, IsDraft(i),
         box' = [box EXCEPT ![i].content = v], HadGrows, UNCHANGED provider
  PROVE  GoesOn /\ \A j \in Ids \ {i} : box'[j] = box[j]
<1>1. PICK m \in Mails, p \in Places, w \in Texts :
        box[i] = [mail |-> m, place |-> p, content |-> w]
  BY DraftExists, MessageExists DEF Message
<1>. DEFINE x == [box[i] EXCEPT !.content = v]
<1>2. x.place = box[i].place /\ x.mail = box[i].mail
  BY <1>1
<1>3. box' = [box EXCEPT ![i] = x]
  OBVIOUS
<1>. HIDE DEF x
<1>4. Exists(i) /\ x.place \in Places
  BY <1>2, DraftExists DEF Exists
<1>. QED BY <1>2, <1>3, <1>4, ReplacedGoesOn

LEMMA DidGrows ==
  ASSUME NEW op, NEW ids, had' = Did(op, ids)
  PROVE  /\ HadGrows
         /\ \A m \in Mails : (\E i \in ids : box[i].mail = m) => op \in had'[m]
  BY DEF Did, HadGrows

LEMMA SameHad == UNCHANGED had => HadGrows
  BY DEF HadGrows

-----------------------------------------------------------------------------
(* Every step of the mailbox leaves what is said of it due                  *)

DueInv == \A c \in Calls : Due(c)

LEMMA InitDue == Init => DueInv
<1>1. ASSUME Init, NEW c \in Calls PROVE call[c].op = "idle"
  BY <1>1 DEF Init, Idle
<1>. QED BY <1>1 DEF DueInv, Due, BulkDue, SendDue, BulkOps

\* Where the calls stay as they are, or one that sends nothing goes on.
LEMMA AllStayDue ==
  ASSUME CallInv, DueInv, GoesOn, \A d \in Calls : Leaves(d)
  PROVE  DueInv'
<1>1. ASSUME NEW d \in Calls PROVE Due(d)'
  BY OthersStayDue DEF DueInv
<1>. QED BY <1>1 DEF DueInv

LEMMA OneIsDue ==
  ASSUME CallInv, DueInv, GoesOn, NEW c \in Calls, \A d \in Calls \ {c} : Leaves(d), Due(c)'
  PROVE  DueInv'
<1>1. ASSUME NEW d \in Calls PROVE Due(d)'
  BY OthersStayDue DEF DueInv
<1>. QED BY <1>1 DEF DueInv

LEMMA OwnerDue ==
  ASSUME MailInv, CallInv, DueInv, NEW i \in Ids,
         OwnerEdits(i) \/ DeleteDraft(i) \/ GraphPatchesDraft(i)
  PROVE  DueInv'
<1>1. /\ IsDraft(i) /\ Exists(i)
      /\ UNCHANGED <<provider, call, log, had>>
      /\ \/ box' = [box EXCEPT ![i] = Gone]
         \/ \E v \in Texts : box' = [box EXCEPT ![i].content = v]
  BY OwnerMailInv, DraftExists
<1>2. GoesOn /\ \A j \in Ids \ {i} : box'[j] = box[j]
  <2>1. HadGrows /\ UNCHANGED provider /\ BoxInv
    BY <1>1, SameHad DEF MailInv
  <2>2. CASE box' = [box EXCEPT ![i] = Gone]
    BY <1>1, <2>1, <2>2, ReplacedGoesOn
  <2>3. ASSUME NEW v \in Texts, box' = [box EXCEPT ![i].content = v]
        PROVE  GoesOn /\ \A j \in Ids \ {i} : box'[j] = box[j]
    BY <1>1, <2>1, <2>3, EditedGoesOn
  <2>. QED BY <1>1, <2>2, <2>3
<1>3. ASSUME NEW d \in Calls PROVE Leaves(d)
  <2>1. ASSUME call[d].op = "send", call[d].pc = "looking" PROVE box'[call[d].at] = box[call[d].at]
    <3>1. call[d].at \in Ids
      BY <2>1, CallsByTheirOp DEF Sends
    <3>2. ~IsDraft(call[d].at)
      BY <2>1 DEF DueInv, Due, SendDue
    <3>. QED BY <1>1, <1>2, <3>1, <3>2
  <2>. QED BY <1>1, <2>1 DEF Leaves
<1>. QED BY <1>2, <1>3, AllStayDue

LEMMA CreateDue ==
  ASSUME MailInv, CallInv, DueInv, CreateDraft
  PROVE  DueInv'
<1>1. /\ FreeId \in Ids /\ box[FreeId] = NoItem /\ ~Exists(FreeId)
      /\ UNCHANGED <<provider, call, log, had>>
  BY FreeIdIsFree DEF CreateDraft, Exists, NoItem, Places
<1>2. PICK x : box' = [box EXCEPT ![FreeId] = x]
  BY DEF CreateDraft
<1>3. GoesOn /\ \A j \in Ids \ {FreeId} : box'[j] = box[j]
  BY <1>1, <1>2, SameHad, ReplacedGoesOn DEF MailInv
<1>4. ASSUME NEW d \in Calls PROVE Leaves(d)
  <2>1. ASSUME call[d].op = "send", call[d].pc = "looking" PROVE box'[call[d].at] = box[call[d].at]
    <3>1. call[d].at \in Ids
      BY <2>1, CallsByTheirOp DEF Sends
    <3>2. There(call[d].at)
      BY <2>1 DEF DueInv, Due, SendDue
    <3>3. call[d].at # FreeId
      BY <1>1, <3>2 DEF There, NoItem, Gone
    <3>. QED BY <1>3, <3>1, <3>3
  <2>. QED BY <1>1, <2>1 DEF Leaves
<1>. QED BY <1>3, <1>4, AllStayDue

\* A step of a call that changes nothing but the call.
LEMMA QuietDue ==
  ASSUME BoxInv, CallInv, DueInv, NEW c \in Calls, NEW x, call' = [call EXCEPT ![c] = x],
         UNCHANGED <<box, provider, log>>, HadGrows, Due(c)'
  PROVE  DueInv'
<1>1. GoesOn
  <2>1. BoxGoesOn
    BY DEF BoxGoesOn, Exists, IsDraft
  <2>. QED BY <2>1 DEF GoesOn
<1>2. \A d \in Calls \ {c} : Leaves(d)
  BY DEF Leaves, CallInv
<1>. QED BY <1>1, <1>2, OneIsDue

\* Calls of no kind that owes anything.
LEMMA NothingDue ==
  ASSUME NEW c \in Calls, call'[c] = Idle \/ call'[c].op = "update" \/
                          \E i \in Ids : call'[c] = NewSend(i)
  PROVE  Due(c)'
<1>1. \/ call'[c].op \in {"idle", "update"}
      \/ call'[c].op = "send" /\ call'[c].pc = "sending" /\ call'[c].answer = NoMail
  <2>1. \A i : NewSend(i).op = "send" /\ NewSend(i).pc = "sending" /\ NewSend(i).answer = NoMail
    BY DEF NewSend
  <2>2. Idle.op = "idle"
    BY DEF Idle
  <2>. QED BY <2>1, <2>2
<1>. QED BY <1>1 DEF Due, BulkDue, SendDue, BulkOps

LEMMA SendingDue ==
  ASSUME MailInv, CallInv, DueInv, NEW c \in Drafting, SendDraft(c)
  PROVE  DueInv'
<1>. c \in Calls
  BY DEF Calls
<1>. DEFINE i == call[c].id
            x == [box[i] EXCEPT !.place = "sent"]
<1>1. /\ IsDraft(i) /\ Room /\ box' = Sent(i) /\ log' = Append(log, box[i].mail)
      /\ UNCHANGED <<provider, had>>
      /\ call' = [d \in Calls |->
           IF d = c THEN [call[c] EXCEPT !.pc = "looking", !.mail = box[i].mail, !.at = FreeId]
           ELSE IF call[d].op = "send" THEN [call[d] EXCEPT !.missed = TRUE] ELSE call[d]]
      /\ call[c].op = "send" /\ call[c].pc = "sending"
  BY DEF SendDraft
<1>2. call[c] \in Sends /\ i \in Ids /\ Exists(i)
  BY <1>1, CallsByTheirOp, DraftExists DEF Sends
<1>3. x.mail = box[i].mail /\ x.place = "sent" /\ box[i].mail \in Mails
  BY <1>2, ContentIsText, MessageExists, PlacedMessage DEF MailInv, Places
<1>4. /\ GoesOn
      /\ FreeId \in Ids /\ box'[FreeId] = x
  <2>1. box' = [[box EXCEPT ![i] = Gone] EXCEPT ![FreeId] = x]
    BY <1>1 DEF Sent
  <2>. HIDE DEF x, i
  <2>. QED BY <1>1, <1>2, <2>1, SameHad, MovedGoesOn DEF MailInv
<1>5. \A d \in Calls \ {c} : Leaves(d)
  <2>1. ASSUME NEW d \in Calls, d # c
        PROVE  call'[d] = IF call[d].op = "send" THEN [call[d] EXCEPT !.missed = TRUE] ELSE call[d]
    BY <1>1, <2>1
  <2>. QED BY <2>1 DEF Leaves
<1>6. Due(c)'
  <2>1. call'[c] = [call[c] EXCEPT !.pc = "looking", !.mail = box[i].mail, !.at = FreeId]
    BY <1>1
  <2>2. /\ call'[c].op = "send" /\ call'[c].mail = box[i].mail /\ call'[c].at = FreeId
        /\ call'[c].pc = "looking" /\ call'[c].answer = call[c].answer
    BY <1>2, <2>1 DEF Sends
  <2>3. PICK n \in Ids : n = FreeId
    BY <1>4
  <2>a. /\ Exists(n)' /\ ~IsDraft(n)'
        /\ box'[n].mail = box[i].mail /\ box'[n].place = "sent"
    BY <1>3, <1>4, <2>3 DEF Exists, IsDraft, Places
  <2>4. log' # <<>> /\ log'[Len(log')] = box[i].mail
    BY <1>1, <1>3 DEF MailInv, LogInv
  <2>5. call[c].answer = NoMail
    BY <1>1 DEF DueInv, Due, SendDue
  <2>6. call'[c].op \notin BulkOps
    BY <2>2 DEF BulkOps
  <2>7. BulkDue(c)'
    BY <2>6 DEF BulkDue
  <2>8. SendDue(c)'
    BY <2>2, <2>3, <2>a, <2>4, <2>5 DEF SendDue, There
  <2>. QED BY <2>7, <2>8 DEF Due
<1>. QED BY <1>4, <1>5, <1>6, OneIsDue

\* Where the newest message in Sent Items is the last one delivered, the answer is true.
LEMMA NewestIsLast ==
  ASSUME LogInv, log # <<>>, NEW i \in Ids, Exists(i), box[i].place = "sent",
         box[i].mail = log[Len(log)]
  PROVE  GraphSentMessage = log[Len(log)]
<1>1. Len(log) \in DOMAIN log /\ Len(log) \in Nat /\ DOMAIN log = 1..Len(log)
  BY DEF LogInv
<1>2. Len(log) \in InSentItems /\ InSentItems \subseteq 1..Len(log)
  BY <1>1 DEF InSentItems
<1>3. /\ Newest \in InSentItems
      /\ \A k \in InSentItems : k <= Newest
  BY <1>2, NewestIsSent
<1>4. Newest = Len(log)
  <2>. DEFINE k == Newest
              top == Len(log)
  <2>1. top <= k /\ k \in 1..top
    BY <1>2, <1>3
  <2>2. top \in Nat
    BY <1>1
  <2>. HIDE DEF k, top
  <2>3. k = top
    BY <2>1, <2>2
  <2>. QED BY <2>3 DEF k, top
<1>. QED BY <1>2, <1>4 DEF GraphSentMessage

LEMMA LookDue ==
  ASSUME MailInv, CallInv, DueInv, NEW c \in Drafting, LookForSent(c)
  PROVE  DueInv'
<1>. c \in Calls
  BY DEF Calls
<1>. DEFINE answer == SentMessage(c)
<1>1. /\ call[c].op = "send" /\ call[c].pc = "looking"
      /\ UNCHANGED <<box, provider, log, had>>
      /\ \E p \in {"failed", "marking"} :
           call' = [call EXCEPT ![c].answer = answer, ![c].pc = p]
  BY DEF LookForSent
<1>2. call[c] \in Sends
  BY <1>1, CallsByTheirOp
<1>. HIDE DEF answer
<1>3. PICK p \in {"failed", "marking"} :
        call' = [call EXCEPT ![c] = [call[c] EXCEPT !.answer = answer, !.pc = p]]
  BY <1>1
<1>4. call'[c] = [call[c] EXCEPT !.answer = answer, !.pc = p]
  BY <1>3 DEF CallInv
<1>5. /\ call'[c].op = "send" /\ call'[c].pc = p /\ call'[c].answer = answer
      /\ call'[c].mail = call[c].mail /\ call'[c].missed = call[c].missed
  BY <1>2, <1>4 DEF Sends
<1>6. answer # NoMail => answer = call[c].mail \/ (provider = "MICROSOFT" /\ call[c].missed)
  <2>1. CASE provider = "GOOGLE"
    BY <1>1, <2>1 DEF answer, SentMessage, GmailSentMessage, DueInv, Due, SendDue
  <2>2. CASE provider # "GOOGLE" /\ ~call[c].missed
    <3>1. provider = "MICROSOFT"
      BY <2>2 DEF CallInv
    <3>2. /\ log # <<>> /\ log[Len(log)] = call[c].mail
          /\ Exists(call[c].at) /\ box[call[c].at].place = "sent"
          /\ box[call[c].at].mail = call[c].mail
      BY <1>1, <2>2, <3>1 DEF DueInv, Due, SendDue
    <3>3. call[c].at \in Ids
      BY <1>2 DEF Sends
    <3>. QED BY <2>2, <3>2, <3>3, NewestIsLast DEF answer, SentMessage, MailInv
  <2>3. CASE provider # "GOOGLE" /\ call[c].missed
    BY <2>3 DEF CallInv
  <2>. QED BY <2>1, <2>2, <2>3
<1>7. BulkDue(c)'
  BY <1>5 DEF BulkDue, BulkOps
<1>8. SendDue(c)'
  BY <1>1, <1>5, <1>6 DEF SendDue
<1>. QED BY <1>1, <1>3, <1>7, <1>8, SameHad, QuietDue DEF MailInv, Due

LEMMA DraftDue ==
  ASSUME MailInv, CallInv, DueInv, NEW c \in Drafting, Draft(c)
  PROVE  DueInv'
<1>. c \in Calls
  BY DEF Calls
<1>1. CASE SendDraft(c)
  BY <1>1, SendingDue
<1>2. CASE LookForSent(c)
  BY <1>2, LookDue
<1>3. CASE UpdateFails(c) \/ \E i \in Ids : GmailReadsDraft(c, i) \/ BeginSend(c, i)
  <2>1. UNCHANGED <<box, provider, log, had>>
    BY <1>3 DEF GmailReadsDraft, BeginSend, UpdateFails
  <2>2. PICK x : /\ call' = [call EXCEPT ![c] = x]
                 /\ x = Idle \/ x.op = "update" \/ \E i \in Ids : x = NewSend(i)
    <3>1. CASE UpdateFails(c)
      BY <3>1 DEF UpdateFails
    <3>2. ASSUME NEW i \in Ids, GmailReadsDraft(c, i)
          PROVE  \E x : call' = [call EXCEPT ![c] = x] /\ x.op = "update"
      <4>1. PICK give : call' = [call EXCEPT ![c] = [op |-> "update", id |-> i, give |-> give,
                           edit |-> edits', read |-> NormalizeDraft(box[i].content)]]
        BY <3>2 DEF GmailReadsDraft
      <4>. DEFINE x == [op |-> "update", id |-> i, give |-> give,
                        edit |-> edits', read |-> NormalizeDraft(box[i].content)]
      <4>2. x.op = "update" /\ call' = [call EXCEPT ![c] = x]
        BY <4>1
      <4>. HIDE DEF x
      <4>. QED BY <4>2
    <3>3. ASSUME NEW i \in Ids, BeginSend(c, i) PROVE call' = [call EXCEPT ![c] = NewSend(i)]
      BY <3>3 DEF BeginSend
    <3>. QED BY <1>3, <3>1, <3>2, <3>3
  <2>3. call'[c] = x
    BY <2>2 DEF CallInv
  <2>. QED BY <2>1, <2>2, <2>3, NothingDue, SameHad, QuietDue DEF MailInv
<1>4. CASE GmailWritesDraft(c)
  <2>1. /\ UNCHANGED <<provider, log, had>> /\ call' = [call EXCEPT ![c] = Idle]
        /\ provider = "GOOGLE"
        /\ UNCHANGED box \/ /\ IsDraft(call[c].id)
                            /\ box' = [box EXCEPT ![call[c].id].content = Rewritten(c)]
    BY <1>4 DEF GmailWritesDraft
  <2>2. call[c].id \in Ids
    BY <1>4, CallsByTheirOp DEF GmailWritesDraft, EditCalls
  <2>3. call'[c] = Idle /\ \A d \in Calls \ {c} : call'[d] = call[d]
    BY <2>1 DEF CallInv
  <2>4. GoesOn
    BY <2>1, <2>2, SameHad, EditedGoesOn, StillGoesOn DEF MailInv
  <2>5. \A d \in Calls \ {c} : Leaves(d)
    BY <2>1, <2>3 DEF Leaves
  <2>. QED BY <2>3, <2>4, <2>5, NothingDue, OneIsDue
<1>5. CASE SendUnknownDraft(c) \/ MarkExecuted(c) \/ SendFails(c)
  <2>1. UNCHANGED <<box, provider, log, had>> /\ call[c] \in Sends
    BY <1>5, CallsByTheirOp DEF SendUnknownDraft, MarkExecuted, SendFails
  <2>2. PICK p \in {"failed", "ok"} : call' = [call EXCEPT ![c] = [call[c] EXCEPT !.pc = p]]
    BY <1>5 DEF SendUnknownDraft, MarkExecuted, SendFails
  <2>3. call'[c] = [call[c] EXCEPT !.pc = p]
    BY <2>2 DEF CallInv
  <2>4. /\ call'[c].op = "send" /\ call'[c].pc = p /\ call'[c].answer = call[c].answer
        /\ call'[c].mail = call[c].mail /\ call'[c].missed = call[c].missed
        /\ call[c].op = "send"
    BY <2>1, <2>3 DEF Sends
  <2>5. BulkDue(c)'
    BY <2>4 DEF BulkDue, BulkOps
  <2>6. SendDue(c)'
    BY <2>1, <2>4 DEF SendDue, DueInv, Due
  <2>. QED BY <2>1, <2>2, <2>5, <2>6, SameHad, QuietDue DEF MailInv, Due
<1>. QED BY <1>1, <1>2, <1>3, <1>4, <1>5 DEF Draft

\* A call for many messages, of which one more had its due.
LEMMA AnsweredDue ==
  ASSUME CallInv, NEW c \in Calls, call[c] \in Bulks, BulkDue(c), NEW i \in Ids, GoesOn,
         Exists(i), call[c].op \in had'[box[i].mail], call'[c] = Answered(c, i)
  PROVE  Due(c)'
<1>. DEFINE b == call[c]
<1>1. /\ call'[c].op = b.op /\ call'[c].ids = b.ids /\ call'[c].mails = b.mails
      /\ call'[c].todo = b.todo \ {i}
      /\ \/ call'[c].pc = b.pc
         \/ b.pc = "running" /\ b.todo = {i} /\ call'[c].pc = "ok"
  BY AnsweredIsBulk
<1>2. b.op \in BulkOps /\ b.ids \subseteq Ids /\ b.mails \subseteq Mails
  BY DEF Bulks
<1>3. b.todo \subseteq b.ids /\ \A k \in b.ids : There(k)
  BY <1>2 DEF BulkDue
<1>4. \A k \in b.ids : There(k)' /\ ~IsDraft(k)' /\ (provider' = "GOOGLE" => Exists(k)')
  BY <1>2, StillThere DEF BulkDue, GoesOn
<1>5. \A m \in b.mails : \E k \in b.ids : Stands(k, m)'
  BY <1>2, StillThere DEF BulkDue
<1>6. \A m \in b.mails : b.op \in had[m] => b.op \in had'[m]
  BY <1>2 DEF GoesOn, HadGrows
<1>7. ASSUME b.pc = "running", NEW m \in b.mails
      PROVE  b.op \in had'[m] \/ \E k \in b.todo \ {i} : Stands(k, m)'
  <2>1. b.op \in had[m] \/ \E k \in b.todo : Stands(k, m)
    BY <1>2, <1>7 DEF BulkDue
  <2>2. ASSUME NEW k \in b.todo, Stands(k, m), k = i PROVE b.op \in had'[m]
    BY <2>2, GoneIsGone DEF Stands
  <2>3. ASSUME NEW k \in b.todo, Stands(k, m) PROVE Stands(k, m)'
    BY <1>2, <1>3, <2>3, StillThere
  <2>. QED BY <1>6, <2>1, <2>2, <2>3
<1>8. ASSUME call'[c].pc = "ok", NEW m \in b.mails PROVE b.op \in had'[m]
  <2>1. CASE b.pc = "ok"
    BY <1>2, <1>6, <2>1 DEF BulkDue
  <2>2. CASE b.pc = "running" /\ b.todo = {i}
    BY <1>7, <2>2
  <2>. QED BY <1>1, <1>8, <2>1, <2>2
<1>9. call'[c].pc = "running" => b.pc = "running"
  BY <1>1
<1>. HIDE DEF b
<1>10. BulkDue(c)'
  BY <1>1, <1>3, <1>4, <1>5, <1>7, <1>8, <1>9 DEF BulkDue
<1>11. SendDue(c)'
  BY <1>1, <1>2 DEF SendDue, BulkOps
<1>. QED BY <1>10, <1>11 DEF Due

\* A call for many messages that stops.
LEMMA StoppedDue ==
  ASSUME CallInv, NEW c \in Calls, call[c] \in Bulks, BulkDue(c), GoesOn,
         NEW rest \in SUBSET call[c].todo,
         call'[c] = [call[c] EXCEPT !.pc = "failed", !.todo = rest]
  PROVE  Due(c)'
<1>. DEFINE b == call[c]
<1>2. b.op \in BulkOps /\ b.ids \subseteq Ids /\ b.mails \subseteq Mails
  BY DEF Bulks
<1>3. b.todo \subseteq b.ids
  BY <1>2 DEF BulkDue
<1>1. /\ call'[c].op = b.op /\ call'[c].ids = b.ids /\ call'[c].mails = b.mails
      /\ call'[c].todo = rest /\ call'[c].pc = "failed"
  BY ChangedFields
<1>4. \A k \in b.ids : There(k)' /\ ~IsDraft(k)' /\ (provider' = "GOOGLE" => Exists(k)')
  BY <1>2, StillThere DEF BulkDue, GoesOn
<1>5. \A m \in b.mails : \E k \in b.ids : Stands(k, m)'
  BY <1>2, StillThere DEF BulkDue
<1>. HIDE DEF b
<1>10. BulkDue(c)'
  BY <1>1, <1>3, <1>4, <1>5 DEF BulkDue
<1>11. SendDue(c)'
  BY <1>1, <1>2 DEF SendDue, BulkOps
<1>. QED BY <1>10, <1>11 DEF Due

LEMMA BulkOpIsDue ==
  ASSUME MailInv, CallInv, DueInv, NEW c \in Calls, call[c].op \in BulkOps
  PROVE  /\ call[c] \in Bulks /\ BulkDue(c)
         /\ call[c].ids \subseteq Ids /\ call[c].todo \subseteq call[c].ids
         /\ call[c].mails \subseteq Mails
<1>1. call[c] \in Bulks /\ BulkDue(c)
  BY CallsByTheirOp DEF DueInv, Due
<1>. QED BY <1>1 DEF Bulks, BulkDue

LEMMA BeginDue ==
  ASSUME MailInv, CallInv, DueInv, NEW c \in Calls, NEW op \in BulkOps, BeginBulk(c, op)
  PROVE  DueInv'
<1>1. PICK ids \in SUBSET Ids :
        /\ \A i \in ids : Exists(i) /\ ~IsDraft(i)
        /\ call' = [call EXCEPT ![c] = [op |-> op, pc |-> "running", ids |-> ids,
                                        todo |-> ids, mails |-> {box[i].mail : i \in ids}]]
  BY BulkBegins DEF MailInv
<1>2. UNCHANGED <<box, provider, log, had>>
  BY DEF BeginBulk
<1>3. /\ call'[c].op = op /\ call'[c].pc = "running" /\ call'[c].ids = ids
      /\ call'[c].todo = ids /\ call'[c].mails = {box[i].mail : i \in ids}
  BY <1>1 DEF CallInv
<1>4. \A i \in ids : /\ There(i)' /\ ~IsDraft(i)' /\ Exists(i)'
                     /\ Stands(i, box[i].mail)'
  BY <1>1, <1>2 DEF There, Stands, Exists, IsDraft
<1>5. BulkDue(c)'
  <2>1. \A m \in call'[c].mails : \E i \in ids : Stands(i, m)'
    BY <1>2, <1>3, <1>4
  <2>. QED BY <1>3, <1>4, <2>1 DEF BulkDue
<1>6. SendDue(c)'
  BY <1>3 DEF SendDue, BulkOps
<1>. QED BY <1>1, <1>2, <1>5, <1>6, SameHad, QuietDue DEF MailInv, Due

LEMMA RepeatDue ==
  ASSUME MailInv, CallInv, DueInv, NEW c \in Calls, RepeatBulk(c)
  PROVE  DueInv'
<1>1. /\ call[c] \in Bulks /\ BulkDue(c)
      /\ call[c].ids \subseteq Ids /\ call[c].op \in BulkOps
  BY BulkOpIsDue DEF RepeatBulk
<1>. DEFINE b == call[c]
<1>2. /\ UNCHANGED <<box, provider, log, had>>
      /\ call' = [call EXCEPT ![c] = [call[c] EXCEPT !.pc = "running", !.todo = call[c].ids]]
  BY DEF RepeatBulk
<1>3. call'[c] = [call[c] EXCEPT !.pc = "running", !.todo = call[c].ids]
  BY <1>2 DEF CallInv
<1>4. /\ call'[c].op = b.op /\ call'[c].pc = "running" /\ call'[c].ids = b.ids
      /\ call'[c].todo = b.ids /\ call'[c].mails = b.mails
  BY <1>1, <1>3, ChangedFields
<1>5. /\ \A i \in b.ids : There(i) /\ ~IsDraft(i) /\ (provider = "GOOGLE" => Exists(i))
      /\ \A m \in b.mails : \E i \in b.ids : Stands(i, m)
  BY <1>1 DEF BulkDue
<1>. HIDE DEF b
<1>6. /\ \A i \in b.ids : There(i)' /\ ~IsDraft(i)' /\ (provider' = "GOOGLE" => Exists(i)')
      /\ \A m \in b.mails : \E i \in b.ids : Stands(i, m)'
  BY <1>2, <1>5 DEF There, Stands, Exists, IsDraft
<1>7. BulkDue(c)'
  BY <1>4, <1>6 DEF BulkDue
<1>8. SendDue(c)'
  BY <1>1, <1>4 DEF SendDue, BulkOps, b
<1>. QED BY <1>2, <1>7, <1>8, SameHad, QuietDue DEF MailInv, Due

\* One request of Gmail for all of them: every mail is there, and has its due.
LEMMA ApplyDue ==
  ASSUME MailInv, CallInv, DueInv, NEW c \in Calls, ApplyLabels(c)
  PROVE  DueInv'
<1>. DEFINE b == call[c]
            ids == {i \in b.ids : Exists(i)}
<1>1. /\ call[c] \in Bulks /\ BulkDue(c)
      /\ b.ids \subseteq Ids /\ b.op \in BulkOps /\ b.mails \subseteq Mails
  BY BulkOpIsDue DEF ApplyLabels, Running
<1>2. /\ UNCHANGED <<provider, log>> /\ provider = "GOOGLE"
      /\ box' = [i \in Ids |-> IF i \in ids THEN Labelled(b.op, box[i]) ELSE box[i]]
      /\ had' = Did(b.op, ids)
      /\ call' = [call EXCEPT ![c] = [call[c] EXCEPT !.pc = "ok", !.todo = {}]]
  BY DEF ApplyLabels
<1>3. /\ call'[c] = [call[c] EXCEPT !.pc = "ok", !.todo = {}]
      /\ \A d \in Calls \ {c} : call'[d] = call[d]
  BY <1>2 DEF CallInv
<1>4. /\ call'[c].op = b.op /\ call'[c].pc = "ok" /\ call'[c].ids = b.ids
      /\ call'[c].todo = {} /\ call'[c].mails = b.mails
  BY <1>1, <1>3, ChangedFields
<1>5. HadGrows /\ \A m \in Mails : (\E i \in ids : box[i].mail = m) => b.op \in had'[m]
  BY <1>2, DidGrows
<1>6. GoesOn
  <2>. HIDE DEF ids, b
  <2>1. ASSUME NEW i \in Ids
        PROVE  /\ box[i] = Gone => box'[i] = Gone
               /\ Exists(i) => Exists(i)' /\ box'[i].mail = box[i].mail /\ (IsDraft(i)' => IsDraft(i))
    <3>1. CASE i \in ids
      <4>1. Exists(i) /\ box'[i] = Labelled(b.op, box[i])
        BY <1>2, <3>1 DEF ids
      <4>2. Message(box'[i]) /\ box'[i].mail = box[i].mail /\ (box'[i].place = "drafts" => IsDraft(i))
        BY <4>1, LabelledStays DEF MailInv
      <4>3. box'[i].place \in Places
        BY <4>2 DEF Message
      <4>. QED BY <4>1, <4>2, <4>3, GoneIsGone DEF Exists, IsDraft
    <3>2. CASE i \notin ids
      BY <1>2, <3>2 DEF Exists, IsDraft
    <3>. QED BY <3>1, <3>2
  <2>. QED BY <1>2, <1>5, <2>1 DEF GoesOn, BoxGoesOn
<1>7. \A i \in b.ids : There(i)' /\ ~IsDraft(i)' /\ (provider' = "GOOGLE" => Exists(i)')
  BY <1>1, <1>6, StillThere DEF BulkDue, GoesOn
<1>8. \A m \in b.mails : \E i \in b.ids : Stands(i, m) /\ Stands(i, m)'
  BY <1>1, <1>6, StillThere DEF BulkDue
<1>9. ASSUME NEW m \in b.mails PROVE b.op \in had'[m]
  <2>1. PICK i \in b.ids : Stands(i, m)
    BY <1>8
  <2>2. Exists(i)
    BY <1>1, <1>2 DEF BulkDue
  <2>3. i \in ids /\ box[i].mail = m
    BY <1>1, <2>1, <2>2, GoneIsGone DEF Stands
  <2>. QED BY <1>1, <1>5, <2>3
<1>. HIDE DEF b, ids
<1>10. BulkDue(c)'
  BY <1>4, <1>7, <1>8, <1>9 DEF BulkDue
<1>11. SendDue(c)'
  BY <1>1, <1>4 DEF SendDue, BulkOps
<1>12. \A d \in Calls \ {c} : Leaves(d)
  BY <1>2, <1>3 DEF Leaves
<1>. QED BY <1>6, <1>10, <1>11, <1>12, OneIsDue DEF Due

LEMMA TrashDue ==
  ASSUME MailInv, CallInv, DueInv, NEW c \in Calls, NEW i \in Ids, TrashOne(c, i)
  PROVE  DueInv'
<1>. DEFINE x == Labelled("trash", box[i])
<1>1. /\ call[c] \in Bulks /\ BulkDue(c) /\ call[c].op = "trash"
  BY BulkOpIsDue DEF TrashOne, BulkOps
<1>2. /\ UNCHANGED <<provider, log>> /\ provider = "GOOGLE" /\ Exists(i)
      /\ box' = [box EXCEPT ![i] = x]
      /\ had' = Did("trash", {i})
      /\ call' = [call EXCEPT ![c] = Answered(c, i)]
  BY DEF TrashOne
<1>3. x.mail = box[i].mail /\ (x.place = "drafts" => IsDraft(i)) /\ x.place \in Places
  <2>1. Message(x) /\ x.mail = box[i].mail /\ (x.place = "drafts" => IsDraft(i))
    BY <1>2, LabelledStays DEF MailInv
  <2>. HIDE DEF x
  <2>. QED BY <2>1 DEF Message
<1>. HIDE DEF x
<1>4. HadGrows /\ call[c].op \in had'[box[i].mail]
  <2>1. box[i].mail \in Mails
    BY <1>2, ContentIsText DEF MailInv
  <2>. QED BY <1>1, <1>2, <2>1, DidGrows
<1>5. GoesOn
  BY <1>2, <1>3, <1>4, ReplacedGoesOn DEF MailInv
<1>6. /\ call'[c] = Answered(c, i)
      /\ \A d \in Calls \ {c} : call'[d] = call[d]
  BY <1>2 DEF CallInv
<1>7. Due(c)'
  BY <1>1, <1>2, <1>4, <1>5, <1>6, AnsweredDue
<1>8. \A d \in Calls \ {c} : Leaves(d)
  BY <1>2, <1>6 DEF Leaves
<1>. QED BY <1>5, <1>7, <1>8, OneIsDue

LEMMA ReadDue ==
  ASSUME MailInv, CallInv, DueInv, NEW c \in Calls, NEW i \in Ids, SetReadStatus(c, i)
  PROVE  DueInv'
<1>1. /\ call[c] \in Bulks /\ BulkDue(c) /\ call[c].op = "read"
  BY BulkOpIsDue DEF SetReadStatus, BulkOps
<1>2. /\ UNCHANGED <<box, provider, log>> /\ Exists(i)
      /\ had' = Did("read", {i})
      /\ call' = [call EXCEPT ![c] = Answered(c, i)]
  BY DEF SetReadStatus
<1>3. HadGrows /\ call[c].op \in had'[box[i].mail]
  <2>1. box[i].mail \in Mails
    BY <1>2, ContentIsText DEF MailInv
  <2>. QED BY <1>1, <1>2, <2>1, DidGrows
<1>4. GoesOn
  <2>1. BoxGoesOn
    BY <1>2 DEF BoxGoesOn, Exists, IsDraft
  <2>. QED BY <1>2, <1>3, <2>1 DEF GoesOn
<1>5. call'[c] = Answered(c, i)
  BY <1>2 DEF CallInv
<1>6. Due(c)'
  BY <1>1, <1>2, <1>3, <1>4, <1>5, AnsweredDue
<1>. QED BY <1>2, <1>3, <1>6, QuietDue DEF MailInv

LEMMA MoveDue ==
  ASSUME MailInv, CallInv, DueInv, NEW c \in Calls, NEW i \in Ids, Move(c, i)
  PROVE  DueInv'
<1>. DEFINE x == [box[i] EXCEPT !.place = call[c].op]
<1>1. /\ call[c] \in Bulks /\ BulkDue(c) /\ call[c].op \in BulkOps
  BY BulkOpIsDue DEF Move, Running
<1>2. /\ UNCHANGED <<provider, log>> /\ provider = "MICROSOFT" /\ Exists(i) /\ Room
      /\ box' = [[box EXCEPT ![i] = Gone] EXCEPT ![FreeId] = x]
      /\ had' = Did(call[c].op, {i})
      /\ call' = [d \in Calls |->
           IF d = c THEN Answered(c, i)
           ELSE IF call[d].op = "send" /\ call[d].at = i THEN [call[d] EXCEPT !.missed = TRUE]
           ELSE call[d]]
  BY DEF Move
<1>. HIDE DEF x
<1>3. HadGrows /\ call[c].op \in had'[box[i].mail]
  <2>1. box[i].mail \in Mails
    BY <1>2, ContentIsText DEF MailInv
  <2>. QED BY <1>2, <2>1, DidGrows
<1>4. /\ GoesOn
      /\ \A j \in Ids : j # i /\ There(j) => box'[j] = box[j]
  BY <1>2, <1>3, MovedGoesOn DEF MailInv
<1>5. Due(c)'
  <2>1. call'[c] = Answered(c, i)
    BY <1>2
  <2>. QED BY <1>1, <1>2, <1>3, <1>4, <2>1, AnsweredDue
<1>6. ASSUME NEW d \in Calls, d # c PROVE Leaves(d)
  <2>1. CASE call[d].op = "send" /\ call[d].at = i
    BY <1>2, <1>6, <2>1 DEF Leaves
  <2>2. CASE ~(call[d].op = "send" /\ call[d].at = i)
    <3>1. call'[d] = call[d]
      BY <1>2, <1>6, <2>2
    <3>2. ASSUME call[d].op = "send", call[d].pc = "looking"
          PROVE  box'[call[d].at] = box[call[d].at]
      <4>1. call[d].at \in Ids
        BY <3>2, CallsByTheirOp DEF Sends
      <4>2. There(call[d].at)
        BY <3>2 DEF DueInv, Due, SendDue
      <4>. QED BY <1>4, <2>2, <3>2, <4>1, <4>2
    <3>. QED BY <1>2, <3>1, <3>2 DEF Leaves
  <2>. QED BY <2>1, <2>2
<1>. QED BY <1>4, <1>5, <1>6, OneIsDue

LEMMA BulkDueInv ==
  ASSUME MailInv, CallInv, DueInv, NEW c \in Batches, Bulk(c)
  PROVE  DueInv'
<1>. c \in Calls
  BY DEF Calls
<1>1. ASSUME NEW op \in BulkOps, BeginBulk(c, op) PROVE DueInv'
  BY <1>1, BeginDue
<1>2. CASE RepeatBulk(c) \/ ApplyLabels(c)
  BY <1>2, RepeatDue, ApplyDue
<1>3. ASSUME NEW i \in Ids, TrashOne(c, i) \/ SetReadStatus(c, i) \/ Move(c, i) PROVE DueInv'
  BY <1>3, TrashDue, ReadDue, MoveDue
<1>4. CASE BulkFails(c) \/ \E i \in Ids : TrashFails(c, i) \/ NoSuchMessage(c, i)
  <2>1. /\ call[c].op \in BulkOps
        /\ UNCHANGED <<box, provider, log, had>>
    BY <1>4 DEF BulkFails, TrashFails, NoSuchMessage, Running, BulkOps
  <2>2. PICK rest \in SUBSET call[c].todo :
          call' = [call EXCEPT ![c] = [call[c] EXCEPT !.pc = "failed", !.todo = rest]]
    <3>1. ASSUME NEW i \in Ids, TrashFails(c, i)
          PROVE  call' = [call EXCEPT ![c] = [call[c] EXCEPT !.pc = "failed", !.todo = call[c].todo \ {i}]]
      BY <3>1 DEF TrashFails, Refused
    <3>2. CASE BulkFails(c) \/ \E i \in Ids : NoSuchMessage(c, i)
      <4>1. call' = [call EXCEPT ![c] = [call[c] EXCEPT !.pc = "failed", !.todo = {}]]
        BY <3>2 DEF BulkFails, NoSuchMessage, Stopped
      <4>. QED BY <4>1
    <3>. QED BY <1>4, <3>1, <3>2
  <2>3. call[c] \in Bulks /\ BulkDue(c)
    BY <2>1, BulkOpIsDue
  <2>4. call'[c] = [call[c] EXCEPT !.pc = "failed", !.todo = rest]
    BY <2>2 DEF CallInv
  <2>5. GoesOn
    BY <2>1, StillGoesOn DEF MailInv
  <2>6. Due(c)'
    BY <2>3, <2>4, <2>5, StoppedDue
  <2>. QED BY <2>1, <2>2, <2>6, SameHad, QuietDue DEF MailInv
<1>. QED BY <1>1, <1>2, <1>3, <1>4 DEF Bulk

MailboxInv == MailInv /\ CallInv /\ DueInv

LEMMA MailboxStep == MailboxInv /\ [Next]_vars => MailboxInv'
<1>. SUFFICES ASSUME MailboxInv, [Next]_vars PROVE MailboxInv'
  OBVIOUS
<1>. USE DEF MailboxInv
<1>1. CASE CreateDraft
  <2>1. CallInv'
    BY <1>1, OthersLeaveCalls DEF CreateDraft, CallInv
  <2>. QED BY <1>1, <2>1, CreateMailInv, CreateDue
<1>2. ASSUME NEW i \in Ids, OwnerEdits(i) \/ DeleteDraft(i) \/ GraphPatchesDraft(i)
      PROVE  MailboxInv'
  BY <1>2, OwnerMailInv, OwnerDue
<1>3. ASSUME NEW c \in Drafting, Draft(c) PROVE MailboxInv'
  BY <1>3, DraftMailInv, DraftCallInv, DraftDue DEF MailInv
<1>4. ASSUME NEW c \in Batches, Bulk(c) PROVE MailboxInv'
  BY <1>4, BulkMailInv, BulkCallInv, BulkDueInv DEF MailInv
<1>5. CASE UNCHANGED vars
  <2>1. UNCHANGED <<box, call, log, unwritten, edits, provider, had>>
    BY <1>5 DEF vars
  <2>2. CallInv' /\ MailInv' /\ GoesOn
    BY <2>1, StillKeeps, KeepsMailInv, OthersLeaveCalls, StillGoesOn DEF MailInv, CallInv
  <2>3. \A d \in Calls : Leaves(d)
    BY <2>1 DEF Leaves
  <2>. QED BY <2>2, <2>3, AllStayDue
<1>. QED BY <1>1, <1>2, <1>3, <1>4, <1>5 DEF Next

-----------------------------------------------------------------------------
(* What an update of a draft does not name                                 *)

UpdateKeeps ==
  \A c \in Drafting, i \in Ids :
    call[c].op = "update" /\ call'[c] = Idle /\ call[c].id = i /\ IsDraft(i) =>
      \A f \in Written \ call[c].give :
        \/ box'[i].content[f] = box[i].content[f]
        \/ box'[i].content[f] >= call[c].read[f]

\* Only its own two steps end an update.
LEMMA UpdateGoesOn ==
  ASSUME CallInv, NEW c \in Calls, call[c].op = "update", call'[c] = Idle, [Next]_vars
  PROVE  GmailWritesDraft(c) \/ (UpdateFails(c) /\ UNCHANGED box)
<1>1. Idle.op = "idle"
  BY DEF Idle
<1>2. call'[c] # call[c]
  BY <1>1
<1>3. ~UNCHANGED vars /\ ~CreateDraft
  BY <1>2 DEF vars, CreateDraft
<1>4. ASSUME NEW i \in Ids, OwnerEdits(i) \/ DeleteDraft(i) \/ GraphPatchesDraft(i) PROVE FALSE
  BY <1>2, <1>4 DEF OwnerEdits, DeleteDraft, GraphPatchesDraft
<1>5. ASSUME NEW d \in Drafting, Draft(d)
      PROVE  GmailWritesDraft(c) \/ (UpdateFails(c) /\ UNCHANGED box)
  <2>. d \in Calls
    BY DEF Calls
  <2>1. CASE GmailWritesDraft(d) \/ UpdateFails(d)
    <3>1. \A e \in Calls \ {d} : call'[e] = call[e]
      BY <2>1 DEF GmailWritesDraft, UpdateFails, CallInv
    <3>2. c = d
      BY <1>2, <3>1
    <3>. QED BY <2>1, <3>2 DEF UpdateFails
  <2>2. ASSUME NEW i \in Ids, GmailReadsDraft(d, i) \/ BeginSend(d, i) PROVE FALSE
    <3>1. /\ \A e \in Calls \ {d} : call'[e] = call[e]
          /\ call[d] = Idle \/ call[d].op = "send"
      BY <2>2 DEF GmailReadsDraft, BeginSend, CallInv
    <3>. QED BY <1>1, <1>2, <3>1
  <2>3. CASE SendDraft(d)
    <3>1. /\ call[d].op = "send"
          /\ \A e \in Calls \ {d} : call[e].op # "send" => call'[e] = call[e]
      BY <2>3 DEF SendDraft
    <3>. QED BY <1>2, <3>1
  <2>4. CASE SendUnknownDraft(d) \/ LookForSent(d) \/ MarkExecuted(d) \/ SendFails(d)
    <3>1. call[d].op = "send"
      BY <2>4 DEF SendUnknownDraft, LookForSent, MarkExecuted, SendFails
    <3>2. \A e \in Calls \ {d} : call'[e] = call[e]
      BY <2>4 DEF SendUnknownDraft, LookForSent, MarkExecuted, SendFails, CallInv
    <3>. QED BY <1>2, <3>1, <3>2
  <2>. QED BY <1>5, <2>1, <2>2, <2>3, <2>4 DEF Draft
<1>6. ASSUME NEW d \in Batches, Bulk(d) PROVE FALSE
  <2>. d \in Calls
    BY DEF Calls
  <2>1. ASSUME NEW op \in BulkOps, BeginBulk(d, op) PROVE FALSE
    <3>1. call[d] = Idle
      BY <2>1 DEF BeginBulk
    <3>2. \A e \in Calls \ {d} : call'[e] = call[e]
      BY <2>1 DEF BeginBulk, CallInv
    <3>. QED BY <1>1, <1>2, <3>1, <3>2
  <2>2. CASE RepeatBulk(d) \/ ApplyLabels(d) \/ BulkFails(d)
    <3>1. call[d].op \in BulkOps
      BY <2>2 DEF RepeatBulk, ApplyLabels, BulkFails, Running
    <3>2. \A e \in Calls \ {d} : call'[e] = call[e]
      BY <2>2 DEF RepeatBulk, ApplyLabels, BulkFails, CallInv
    <3>. QED BY <1>2, <3>1, <3>2 DEF BulkOps
  <2>3. ASSUME NEW i \in Ids, \/ TrashOne(d, i) \/ TrashFails(d, i) \/ SetReadStatus(d, i)
                              \/ NoSuchMessage(d, i)
        PROVE  FALSE
    <3>1. call[d].op \in BulkOps
      BY <2>3 DEF TrashOne, TrashFails, SetReadStatus, NoSuchMessage, Running, BulkOps
    <3>2. \A e \in Calls \ {d} : call'[e] = call[e]
      BY <2>3 DEF TrashOne, TrashFails, SetReadStatus, NoSuchMessage, CallInv
    <3>. QED BY <1>2, <3>1, <3>2 DEF BulkOps
  <2>4. ASSUME NEW i \in Ids, Move(d, i) PROVE FALSE
    <3>1. /\ call[d].op \in BulkOps
          /\ \A e \in Calls \ {d} : call[e].op # "send" => call'[e] = call[e]
      BY <2>4 DEF Move, Running
    <3>. QED BY <1>2, <3>1 DEF BulkOps
  <2>. QED BY <1>6, <2>1, <2>2, <2>3, <2>4 DEF Bulk
<1>. QED BY <1>3, <1>4, <1>5, <1>6 DEF Next

LEMMA UpdatesKeep == MailboxInv /\ [Next]_vars => UpdateKeeps
<1>. SUFFICES ASSUME MailboxInv, [Next]_vars, NEW c \in Drafting, NEW i \in Ids,
                     call[c].op = "update", call'[c] = Idle, call[c].id = i, IsDraft(i),
                     NEW f \in Written \ call[c].give
              PROVE  \/ box'[i].content[f] = box[i].content[f]
                     \/ box'[i].content[f] >= call[c].read[f]
  BY DEF UpdateKeeps
<1>. c \in Calls
  BY DEF Calls
<1>1. GmailWritesDraft(c) \/ (UpdateFails(c) /\ UNCHANGED box)
  BY UpdateGoesOn DEF MailboxInv
<1>2. CASE UNCHANGED box
  BY <1>2
<1>3. CASE GmailWritesDraft(c)
  <2>1. box' = [box EXCEPT ![i].content = Rewritten(c)]
    BY <1>3 DEF GmailWritesDraft
  <2>2. PICK m \in Mails, p \in Places, v \in Texts :
          box[i] = [mail |-> m, place |-> p, content |-> v]
    BY DraftExists, MessageExists DEF MailboxInv, MailInv, Message
  <2>3. box'[i] = [mail |-> m, place |-> p, content |-> Rewritten(c)]
    BY <2>1, <2>2 DEF MailboxInv, MailInv, BoxInv
  <2>4. Rewritten(c)[f] = call[c].read[f] /\ call[c].read[f] \in Int
    BY RewrittenIsText DEF MailboxInv
  <2>5. box'[i].content[f] = call[c].read[f]
    BY <2>3, <2>4
  <2>. QED BY <2>4, <2>5
<1>. QED BY <1>1, <1>2, <1>3

-----------------------------------------------------------------------------
(* The calendar: events and calls, without a bound on times and edits       *)

Spans == [start : Int, end : Int]
Givens == [asked : Spans, zone : Int]
EventTexts == [Cal!Fields -> Int]
EventReplies == [Guests -> Int]
EventShapes == [time : Spans, details : EventTexts, reply : EventReplies]

EventUpdates ==
  [op : {"update"}, event : Events, give : SUBSET Cal!Fields, guests : BOOLEAN, edit : Int,
   read : EventTexts, when : SUBSET Givens]
EventResponses == [op : {"respond"}, event : Events, edit : Int, read : EventReplies]
EventSearches ==
  [op : {"find"}, pc : {"looping", "done"}, busy : SUBSET Spans, left : SUBSET Spans,
   from : Int, to : Int, duration : Int, current : Int, picks : Seq(Spans), off : BOOLEAN]

EventsInv ==
  /\ calendar = [e \in Events |-> calendar[e]]
  /\ \A e \in Events : calendar[e] \in EventShapes \union {Cal!Free, Cal!Gone}
  /\ elsewhere \subseteq Spans /\ eventEdits \in Int

EventCalling(x) ==
  \/ x = Cal!Idle \/ x \in EventUpdates \/ x \in EventResponses \/ x \in EventSearches
EventCallsInv ==
  /\ eventCall = [c \in Callers |-> eventCall[c]]
  /\ \A c \in Callers : EventCalling(eventCall[c])

LEMMA EventCallsByTheirOp ==
  ASSUME EventCallsInv, NEW c \in Callers
  PROVE  /\ eventCall[c].op = "update" => eventCall[c] \in EventUpdates
         /\ eventCall[c].op = "respond" => eventCall[c] \in EventResponses
         /\ eventCall[c].op = "find" => eventCall[c] \in EventSearches
<1>1. EventCalling(eventCall[c])
  BY DEF EventCallsInv
<1>2. Cal!Idle.op = "idle"
  BY DEF Cal!Idle
<1>3. \A x \in EventUpdates : x.op = "update"
  BY DEF EventUpdates
<1>4. \A x \in EventResponses : x.op = "respond"
  BY DEF EventResponses
<1>5. \A x \in EventSearches : x.op = "find"
  BY DEF EventSearches
<1>. QED BY <1>1, <1>2, <1>3, <1>4, <1>5 DEF EventCalling

LEMMA IntervalIsSpan == Cal!Intervals \subseteq Spans
<1>1. Cal!Times \subseteq Int
  BY EventsAssumption DEF Cal!Times
<1>. QED BY <1>1 DEF Cal!Intervals, Spans

LEMMA ExistingEvent ==
  ASSUME EventsInv, NEW e \in Events, Cal!Exists(e)
  PROVE  calendar[e] \in EventShapes
  BY DEF EventsInv, Cal!Exists

\* An event that is put into another shape.
LEMMA EventChanged ==
  ASSUME EventsInv, NEW e \in Events, NEW x \in EventShapes \union {Cal!Free, Cal!Gone},
         calendar' = [calendar EXCEPT ![e] = x], UNCHANGED elsewhere, eventEdits' \in Int
  PROVE  EventsInv'
  BY DEF EventsInv

LEMMA EventCallGoesOn ==
  ASSUME EventCallsInv, NEW c \in Callers, NEW x, EventCalling(x),
         eventCall' = [eventCall EXCEPT ![c] = x]
  PROVE  /\ EventCallsInv'
         /\ eventCall'[c] = x
         /\ \A d \in Callers \ {c} : eventCall'[d] = eventCall[d]
  BY DEF EventCallsInv

LEMMA EarlierIsSpan ==
  ASSUME NEW i \in Spans, NEW h \in Int
  PROVE  /\ Cal!Earlier(i, h) \in Spans
         /\ Cal!Earlier(i, h).start = i.start - h /\ Cal!Earlier(i, h).end = i.end - h
<1>1. i.start \in Int /\ i.end \in Int
  BY DEF Spans
<1>2. i.start - h \in Int /\ i.end - h \in Int
  BY <1>1
<1>. QED BY <1>2 DEF Cal!Earlier, Spans

LEMMA PlacedIsSpan ==
  ASSUME NEW w \in Givens
  PROVE  Cal!Placed(w) \in Spans
<1>1. w.asked \in Spans /\ w.zone \in Int
  BY DEF Givens
<1>2. Cal!Earlier(w.asked, w.zone) \in Spans
  BY <1>1, EarlierIsSpan
<1>3. Cal!GraphReads(Cal!ToGraphDateTime(w)) = Cal!Earlier(w.asked, w.zone)
  BY DEF Cal!GraphReads, Cal!ToGraphDateTime
<1>. QED BY <1>1, <1>2, <1>3 DEF Cal!Placed, Cal!ToGoogleDateTime

LEMMA MovedIsEvent ==
  ASSUME NEW event \in EventShapes, NEW when \in SUBSET Givens
  PROVE  Cal!Moved(event, when) \in EventShapes
<1>1. CASE when = {}
  BY <1>1 DEF Cal!Moved
<1>2. CASE when # {}
  <2>. DEFINE w == CHOOSE x \in when : TRUE
  <2>1. w \in Givens
    BY <1>2
  <2>. HIDE DEF w
  <2>2. Cal!Placed(w) \in Spans
    BY <2>1, PlacedIsSpan DEF Givens
  <2>3. Cal!Moved(event, when) = [event EXCEPT !.time = Cal!Placed(w)]
    BY <1>2 DEF Cal!Moved, w
  <2>. QED BY <2>2, <2>3 DEF EventShapes
<1>. QED BY <1>1, <1>2

LEMMA RewrittenEvent ==
  ASSUME NEW event \in EventShapes, NEW d \in EventTexts, NEW r \in EventReplies
  PROVE  /\ [event EXCEPT !.details = d, !.reply = r] \in EventShapes
         /\ [event EXCEPT !.details = d, !.reply = r].details = d
  BY DEF EventShapes

LEMMA RepliedEvent ==
  ASSUME NEW event \in EventShapes, NEW r \in EventReplies
  PROVE  /\ [event EXCEPT !.reply = r] \in EventShapes
         /\ [event EXCEPT !.reply = r].reply = r
  BY DEF EventShapes

LEMMA DetailedEvent ==
  ASSUME NEW event \in EventShapes, NEW d \in EventTexts
  PROVE  [event EXCEPT !.details = d] \in EventShapes
  BY DEF EventShapes

LEMMA WhensAreGivens == Cal!Whens \subseteq Givens
<1>1. Zones \subseteq Int
  BY EventsAssumption
<1>2. [start |-> 1, end |-> 2] \in Spans
  BY DEF Spans
<1>. QED BY <1>1, <1>2 DEF Cal!Whens, Givens

LEMMA NewTimesAreGivens == ASSUME NEW when \in Cal!NewTimes PROVE when \in SUBSET Givens
  BY WhensAreGivens DEF Cal!NewTimes

LEMMA NewEventShape ==
  ASSUME NEW t \in Spans, NEW d \in EventTexts
  PROVE  Cal!NewEvent(t, d) \in EventShapes
<1>1. Cal!Nobody \in EventReplies
  BY DEF Cal!Nobody, Cal!None, EventReplies
<1>. QED BY <1>1 DEF Cal!NewEvent, EventShapes

LEMMA MergedText ==
  ASSUME NEW old \in EventTexts, NEW give, NEW e \in Int
  PROVE  /\ Cal!Merge(old, give, e) \in EventTexts
         /\ \A f \in Cal!Fields \ give : Cal!Merge(old, give, e)[f] = old[f] /\ old[f] \in Int
  BY DEF Cal!Merge, EventTexts

LEMMA InvitedReply ==
  ASSUME NEW r \in EventReplies, NEW guests
  PROVE  Cal!Invite(r, guests) \in EventReplies
  BY DEF Cal!Invite, Cal!Nobody, Cal!None, EventReplies

LEMMA InitEvents == Cal!Init => EventsInv /\ EventCallsInv
<1>. SUFFICES ASSUME Cal!Init PROVE EventsInv /\ EventCallsInv
  OBVIOUS
<1>1. Cal!SomeTime \in Spans
  BY EventsAssumption DEF Cal!SomeTime, Spans
<1>2. Cal!Untitled \in EventTexts
  BY DEF Cal!Untitled, Cal!None, EventTexts
<1>3. elsewhere \subseteq Spans
  BY IntervalIsSpan DEF Cal!Init
<1>4. eventEdits \in Int
  BY DEF Cal!Init
<1>5. /\ calendar = [e \in Events |-> calendar[e]]
      /\ \A e \in Events : calendar[e] \in EventShapes \union {Cal!Free, Cal!Gone}
  <2>1. ASSUME NEW e \in Events,
               calendar = [k \in Events |-> IF k = e THEN Cal!NewEvent(Cal!SomeTime, Cal!Untitled) ELSE Cal!Free]
        PROVE  <1>5
    BY <1>1, <1>2, <2>1, NewEventShape
  <2>2. ASSUME NEW time \in [Events -> Cal!Intervals],
               calendar = [e \in Events |-> Cal!NewEvent(time[e], Cal!Untitled)]
        PROVE  <1>5
    <3>1. \A e \in Events : time[e] \in Spans
      BY IntervalIsSpan
    <3>2. \A e \in Events : Cal!NewEvent(time[e], Cal!Untitled) \in EventShapes
      BY <1>2, <3>1, NewEventShape
    <3>. QED BY <2>2, <3>2
  <2>. QED BY <2>1, <2>2 DEF Cal!Init
<1>6. EventCallsInv
  BY DEF Cal!Init, EventCallsInv, EventCalling
<1>. QED BY <1>3, <1>4, <1>5, <1>6 DEF EventsInv

-----------------------------------------------------------------------------
(* A search for a meeting time                                             *)

Fits(s) == {t \in s.from..(s.to - s.duration) : Cal!IsFree(Cal!Slot(t, s.duration), s.busy)}
OffersBy(picks, t) == \E n \in DOMAIN picks : picks[n].start <= t

\* Every suggestion is free; what the loop has passed has ended by now; and each time at
\* which the meeting fits is still to come, or a suggestion begins then or earlier.
FreePick(s, pick) ==
  /\ pick.end - pick.start = s.duration
  /\ ~s.off => s.from <= pick.start /\ pick.end <= s.to /\ Cal!IsFree(pick, s.busy)
FreePicks(s) == \A n \in DOMAIN s.picks : FreePick(s, s.picks[n])
SearchGoesOn(s) ==
  /\ s.left \subseteq s.busy
  /\ s.from <= s.current
  /\ \A b \in s.busy : b.start < s.to
  /\ \A b \in s.busy \ s.left : b.end <= s.current
  /\ \A t \in Fits(s) : t >= s.current \/ OffersBy(s.picks, t)
SearchEnded(s) == \A t \in Fits(s) : OffersBy(s.picks, t)

SearchDue(s) ==
  s.op = "find" =>
    /\ FreePicks(s)
    /\ s.pc = "looping" => SearchGoesOn(s)
    /\ s.pc = "done" /\ provider = "GOOGLE" => SearchEnded(s)
SearchInv == \A c \in Callers : SearchDue(eventCall[c])

LEMMA SlotIsSpan ==
  ASSUME NEW t \in Int, NEW d \in Int
  PROVE  /\ Cal!Slot(t, d) \in Spans
         /\ Cal!Slot(t, d).start = t /\ Cal!Slot(t, d).end = t + d
         /\ Cal!Slot(t, d).end - Cal!Slot(t, d).start = d
<1>1. t + d \in Int /\ (t + d) - t = d
  OBVIOUS
<1>2. Cal!Slot(t, d) = [start |-> t, end |-> t + d]
  BY DEF Cal!Slot
<1>. HIDE DEF Cal!Slot
<1>3. Cal!Slot(t, d).start = t /\ Cal!Slot(t, d).end = t + d
  BY <1>2
<1>4. Cal!Slot(t, d) \in Spans
  BY <1>1, <1>2 DEF Spans
<1>. QED BY <1>1, <1>3, <1>4

LEMMA SpanTimes == ASSUME NEW b \in Spans PROVE b.start \in Int /\ b.end \in Int
  BY DEF Spans

\* A meeting in the gap before a limit that is no later than what is left.
LEMMA GapIsFree ==
  ASSUME NEW busy \in SUBSET Spans, NEW left \in SUBSET busy,
         NEW cur \in Int, NEW d \in Int, NEW limit \in Int,
         \A b \in busy \ left : b.end <= cur, \A b \in left : limit <= b.start,
         limit - cur >= d
  PROVE  Cal!IsFree(Cal!Slot(cur, d), busy)
<1>1. /\ Cal!Slot(cur, d).start = cur /\ Cal!Slot(cur, d).end = cur + d
  BY SlotIsSpan
<1>2. ASSUME NEW b \in busy PROVE ~(cur < b.end /\ b.start < cur + d)
  <2>1. b.start \in Int /\ b.end \in Int
    BY SpanTimes
  <2>2. b.end <= cur \/ limit <= b.start
    OBVIOUS
  <2>. QED BY <2>1, <2>2
<1>. QED BY <1>1, <1>2 DEF Cal!IsFree, Cal!Overlap

\* A time at which the meeting fits is after a busy time, or in the gap before it.
LEMMA FitsAround ==
  ASSUME NEW busy \in SUBSET Spans, NEW b \in busy, NEW t \in Int, NEW d \in Int, NEW cur \in Int,
         Cal!IsFree(Cal!Slot(t, d), busy), t >= cur
  PROVE  t >= Cal!Larger(cur, b.end) \/ b.start - cur >= d
<1>1. b.start \in Int /\ b.end \in Int
  BY SpanTimes
<1>2. /\ Cal!Slot(t, d).start = t /\ Cal!Slot(t, d).end = t + d
  BY SlotIsSpan
<1>3. ~(t < b.end /\ b.start < t + d)
  BY <1>2 DEF Cal!IsFree, Cal!Overlap
<1>. QED BY <1>1, <1>3 DEF Cal!Larger

\* The gap is taken where the meeting fits into it, after what was taken before.
LEMMA Picked ==
  ASSUME NEW s \in EventSearches, NEW limit \in Int
  PROVE  /\ Cal!Pick(s, limit) \in Seq(Spans)
         /\ \A n \in DOMAIN Cal!Pick(s, limit) :
              \/ n \in DOMAIN s.picks /\ Cal!Pick(s, limit)[n] = s.picks[n]
              \/ /\ limit - s.current >= s.duration
                 /\ Cal!Pick(s, limit)[n] = Cal!Slot(s.current, s.duration)
         /\ \A n \in DOMAIN s.picks :
              n \in DOMAIN Cal!Pick(s, limit) /\ Cal!Pick(s, limit)[n] = s.picks[n]
         /\ \/ Cal!Pick(s, limit) = s.picks /\ ~(limit - s.current >= s.duration)
            \/ /\ limit - s.current >= s.duration
               /\ \E n \in DOMAIN Cal!Pick(s, limit) :
                    Cal!Pick(s, limit)[n] = Cal!Slot(s.current, s.duration)
<1>1. s.picks \in Seq(Spans) /\ s.current \in Int /\ s.duration \in Int
  BY DEF EventSearches
<1>. DEFINE slot == Cal!Slot(s.current, s.duration)
<1>2. slot \in Spans
  BY <1>1, SlotIsSpan
<1>3. Cal!Pick(s, limit) =
        IF limit - s.current >= s.duration THEN Append(s.picks, slot) ELSE s.picks
  BY DEF Cal!Pick
<1>. HIDE DEF slot
<1>4. /\ Append(s.picks, slot) \in Seq(Spans)
      /\ \A n \in DOMAIN Append(s.picks, slot) :
           \/ n \in DOMAIN s.picks /\ Append(s.picks, slot)[n] = s.picks[n]
           \/ Append(s.picks, slot)[n] = slot
      /\ \A n \in DOMAIN s.picks :
           n \in DOMAIN Append(s.picks, slot) /\ Append(s.picks, slot)[n] = s.picks[n]
      /\ Len(s.picks) + 1 \in DOMAIN Append(s.picks, slot)
      /\ Append(s.picks, slot)[Len(s.picks) + 1] = slot
  BY <1>1, <1>2
<1>5. CASE limit - s.current >= s.duration
  <2>1. Cal!Pick(s, limit) = Append(s.picks, slot)
    BY <1>3, <1>5
  <2>. QED BY <1>4, <1>5, <2>1 DEF slot
<1>6. CASE ~(limit - s.current >= s.duration)
  <2>1. Cal!Pick(s, limit) = s.picks
    BY <1>3, <1>6
  <2>. QED BY <1>1, <1>6, <2>1
<1>. QED BY <1>5, <1>6

\* What is picked before a limit is free, if nothing that is left begins before it.
LEMMA PicksAreFree ==
  ASSUME NEW s \in EventSearches, FreePicks(s), SearchGoesOn(s), NEW limit \in Int,
         limit <= s.to, \A b \in s.left : limit <= b.start
  PROVE  /\ \A n \in DOMAIN Cal!Pick(s, limit) : FreePick(s, Cal!Pick(s, limit)[n])
         /\ \A t : OffersBy(s.picks, t) => OffersBy(Cal!Pick(s, limit), t)
         /\ limit - s.current >= s.duration =>
              \A t \in Int : t >= s.current => OffersBy(Cal!Pick(s, limit), t)
<1>1. /\ s.busy \in SUBSET Spans /\ s.left \in SUBSET s.busy
      /\ s.current \in Int /\ s.duration \in Int /\ s.to \in Int /\ s.from \in Int
  BY DEF EventSearches, SearchGoesOn
<1>2. ASSUME limit - s.current >= s.duration
      PROVE  FreePick(s, Cal!Slot(s.current, s.duration))
  <2>1. Cal!IsFree(Cal!Slot(s.current, s.duration), s.busy)
    BY <1>1, <1>2, GapIsFree DEF SearchGoesOn
  <2>2. s.from <= s.current /\ s.current + s.duration <= s.to
    BY <1>1, <1>2 DEF SearchGoesOn
  <2>. QED BY <1>1, <2>1, <2>2, SlotIsSpan DEF FreePick
<1>3. \A n \in DOMAIN Cal!Pick(s, limit) : FreePick(s, Cal!Pick(s, limit)[n])
  BY <1>2, Picked DEF FreePicks
<1>4. \A t : OffersBy(s.picks, t) => OffersBy(Cal!Pick(s, limit), t)
  BY Picked DEF OffersBy
<1>5. ASSUME limit - s.current >= s.duration, NEW t \in Int, t >= s.current
      PROVE  OffersBy(Cal!Pick(s, limit), t)
  <2>1. PICK n \in DOMAIN Cal!Pick(s, limit) :
          Cal!Pick(s, limit)[n] = Cal!Slot(s.current, s.duration)
    BY <1>5, Picked
  <2>2. Cal!Pick(s, limit)[n].start = s.current
    <3>1. Cal!Slot(s.current, s.duration).start = s.current
      BY <1>1, SlotIsSpan
    <3>. QED BY <2>1, <3>1
  <2>3. s.current <= t
    BY <1>1, <1>5
  <2>. QED BY <2>2, <2>3 DEF OffersBy
<1>. QED BY <1>3, <1>4, <1>5

LEMMA FitsAreTimes ==
  ASSUME NEW s \in EventSearches, NEW t \in Fits(s)
  PROVE  /\ t \in Int /\ s.from <= t /\ t <= s.to - s.duration
         /\ Cal!IsFree(Cal!Slot(t, s.duration), s.busy)
  BY DEF Fits, EventSearches

\* A search that has passed a busy time, and one that has ended.
LEMMA SearchPasses ==
  ASSUME NEW s \in EventSearches, FreePicks(s), SearchGoesOn(s), NEW b \in Cal!Earliest(s.left),
         NEW x, x = [s EXCEPT !.picks = Cal!Pick(s, b.start), !.left = s.left \ {b},
                              !.current = Cal!Pass(s, b)]
  PROVE  x \in EventSearches /\ FreePicks(x) /\ SearchGoesOn(x) /\ x.op = s.op /\ x.pc = s.pc
<1>. DEFINE picks == Cal!Pick(s, b.start)
            cur == Cal!Larger(s.current, b.end)
<1>1. /\ s.busy \in SUBSET Spans /\ s.left \in SUBSET s.busy
      /\ s.current \in Int /\ s.duration \in Int /\ s.to \in Int /\ s.from \in Int
  BY DEF EventSearches, SearchGoesOn
<1>2. /\ b \in s.left /\ b \in s.busy /\ b.start \in Int /\ b.end \in Int
      /\ \A a \in s.left : b.start <= a.start
      /\ b.start <= s.to
  <2>1. b \in s.left /\ \A a \in s.left : b.start <= a.start
    BY DEF Cal!Earliest
  <2>2. b \in s.busy /\ b.start \in Int /\ b.end \in Int
    BY <1>1, <2>1, SpanTimes
  <2>3. b.start < s.to
    BY <2>2 DEF SearchGoesOn
  <2>. QED BY <1>1, <2>1, <2>2, <2>3
<1>3. /\ \A n \in DOMAIN picks : FreePick(s, picks[n])
      /\ \A t : OffersBy(s.picks, t) => OffersBy(picks, t)
      /\ b.start - s.current >= s.duration =>
           \A t \in Int : t >= s.current => OffersBy(picks, t)
  BY <1>2, PicksAreFree
<1>4. cur \in Int /\ cur >= s.current /\ cur >= b.end /\ Cal!Pass(s, b) = cur
  BY <1>1, <1>2 DEF Cal!Larger, Cal!Pass
<1>5. picks \in Seq(Spans)
  BY <1>2, Picked
<1>. HIDE DEF picks, cur
<1>6. x = [s EXCEPT !.picks = picks, !.left = s.left \ {b}, !.current = cur]
  BY <1>4 DEF picks
<1>7. /\ x.op = s.op /\ x.pc = s.pc /\ x.busy = s.busy /\ x.left = s.left \ {b}
      /\ x.from = s.from /\ x.to = s.to /\ x.duration = s.duration /\ x.current = cur
      /\ x.picks = picks /\ x.off = s.off
  BY <1>6 DEF EventSearches
<1>8. x \in EventSearches
  BY <1>4, <1>5, <1>6 DEF EventSearches
<1>9. FreePicks(x)
  BY <1>3, <1>7 DEF FreePicks, FreePick
<1>10. ASSUME NEW p \in s.busy \ (s.left \ {b}) PROVE p.end <= cur
  <2>1. p.end \in Int
    BY <1>1, SpanTimes
  <2>2. p = b \/ p.end <= s.current
    BY DEF SearchGoesOn
  <2>. QED BY <1>1, <1>2, <1>4, <2>1, <2>2
<1>11. ASSUME NEW t \in Fits(s) PROVE t >= cur \/ OffersBy(picks, t)
  <2>1. /\ t \in Int /\ Cal!IsFree(Cal!Slot(t, s.duration), s.busy)
    BY FitsAreTimes
  <2>2. CASE OffersBy(s.picks, t)
    BY <1>3, <2>2
  <2>3. CASE t >= s.current
    <3>1. t >= Cal!Larger(s.current, b.end) \/ b.start - s.current >= s.duration
      BY <1>1, <1>2, <2>1, <2>3, FitsAround
    <3>. QED BY <1>3, <2>1, <2>3, <3>1 DEF cur
  <2>. QED BY <2>2, <2>3 DEF SearchGoesOn
<1>12. Fits(x) = Fits(s)
  BY <1>7 DEF Fits
<1>13. s.from <= cur
  BY <1>1, <1>4 DEF SearchGoesOn
<1>14. SearchGoesOn(x)
  BY <1>1, <1>7, <1>10, <1>11, <1>12, <1>13 DEF SearchGoesOn
<1>. QED BY <1>7, <1>8, <1>9, <1>14

LEMMA SearchEnds ==
  ASSUME NEW s \in EventSearches, FreePicks(s), SearchGoesOn(s), NEW limit \in Int,
         limit <= s.to, \A b \in s.left : limit <= b.start,
         limit - s.current >= s.duration \/ (s.left = {} /\ limit = s.to),
         NEW x, x = [s EXCEPT !.picks = Cal!Pick(s, limit), !.pc = "done"]
  PROVE  x \in EventSearches /\ FreePicks(x) /\ SearchEnded(x) /\ x.op = s.op /\ x.pc = "done"
<1>. DEFINE picks == Cal!Pick(s, limit)
<1>1. /\ s.current \in Int /\ s.duration \in Int /\ s.to \in Int /\ s.from \in Int
  BY DEF EventSearches
<1>2. /\ \A n \in DOMAIN picks : FreePick(s, picks[n])
      /\ \A t : OffersBy(s.picks, t) => OffersBy(picks, t)
      /\ limit - s.current >= s.duration =>
           \A t \in Int : t >= s.current => OffersBy(picks, t)
  BY PicksAreFree
<1>3. picks \in Seq(Spans)
  BY Picked
<1>. HIDE DEF picks
<1>4. x = [s EXCEPT !.picks = picks, !.pc = "done"]
  BY DEF picks
<1>5. /\ x.op = s.op /\ x.pc = "done" /\ x.busy = s.busy
      /\ x.from = s.from /\ x.to = s.to /\ x.duration = s.duration
      /\ x.picks = picks /\ x.off = s.off
  BY <1>4 DEF EventSearches
<1>6. x \in EventSearches
  BY <1>3, <1>4 DEF EventSearches
<1>7. FreePicks(x)
  BY <1>2, <1>5 DEF FreePicks, FreePick
<1>8. ASSUME NEW t \in Fits(s) PROVE OffersBy(picks, t)
  <2>1. t \in Int /\ t <= s.to - s.duration
    BY FitsAreTimes
  <2>2. CASE OffersBy(s.picks, t)
    BY <1>2, <2>2
  <2>3. CASE t >= s.current
    <3>1. limit - s.current >= s.duration
      BY <1>1, <2>1, <2>3
    <3>. QED BY <1>2, <2>1, <2>3, <3>1
  <2>. QED BY <2>2, <2>3 DEF SearchGoesOn
<1>9. Fits(x) = Fits(s)
  BY <1>5 DEF Fits
<1>. QED BY <1>5, <1>6, <1>7, <1>8, <1>9 DEF SearchEnded

-----------------------------------------------------------------------------
(* Every step of the calendar                                              *)

CalendarInv == EventsInv /\ EventCallsInv /\ SearchInv

LEMMA ShownIsThere ==
  ASSUME NEW e, Cal!Shown(e)
  PROVE  e \in Events /\ Cal!Exists(e)
  BY DEF Cal!Shown, Cal!GoogleListEvents, Cal!GraphListEvents

\* Steps that change an event: the calls are left as they are, or one of them ends.
LEMMA EventStep ==
  ASSUME CalendarInv, NEW e \in Events, Cal!Exists(e), UNCHANGED <<elsewhere, provider>>,
         eventEdits' \in Int, NEW x \in EventShapes \union {Cal!Gone},
         calendar' = [calendar EXCEPT ![e] = x],
         \/ UNCHANGED eventCall
         \/ \E c \in Callers : eventCall' = [eventCall EXCEPT ![c] = Cal!Idle]
  PROVE  CalendarInv'
<1>1. EventsInv'
  BY EventChanged DEF CalendarInv
<1>2. CASE UNCHANGED eventCall
  BY <1>1, <1>2 DEF CalendarInv, EventCallsInv, SearchInv, SearchDue
<1>3. ASSUME NEW c \in Callers, eventCall' = [eventCall EXCEPT ![c] = Cal!Idle]
      PROVE  EventCallsInv' /\ SearchInv'
  <2>1. /\ EventCallsInv' /\ eventCall'[c] = Cal!Idle
        /\ \A d \in Callers \ {c} : eventCall'[d] = eventCall[d]
    BY <1>3, EventCallGoesOn DEF CalendarInv, EventCalling
  <2>2. Cal!Idle.op = "idle"
    BY DEF Cal!Idle
  <2>3. SearchDue(eventCall[c])'
    BY <2>1, <2>2 DEF SearchDue
  <2>4. ASSUME NEW d \in Callers, d # c PROVE SearchDue(eventCall[d])'
    BY <2>1, <2>4 DEF SearchDue, CalendarInv, SearchInv
  <2>. QED BY <2>1, <2>3, <2>4 DEF SearchInv
<1>. QED BY <1>1, <1>2, <1>3 DEF CalendarInv

\* Steps of a call that leave the calendar as it is.
LEMMA CallStep ==
  ASSUME CalendarInv, NEW c \in Callers, NEW x, EventCalling(x),
         eventCall' = [eventCall EXCEPT ![c] = x], UNCHANGED <<calendar, elsewhere, provider>>,
         eventEdits' \in Int, SearchDue(x)
  PROVE  CalendarInv'
<1>1. EventsInv'
  BY DEF CalendarInv, EventsInv
<1>2. /\ EventCallsInv' /\ eventCall'[c] = x
      /\ \A d \in Callers \ {c} : eventCall'[d] = eventCall[d]
  BY EventCallGoesOn DEF CalendarInv
<1>3. ASSUME NEW d \in Callers PROVE SearchDue(eventCall[d])'
  BY <1>2 DEF SearchDue, CalendarInv, SearchInv
<1>. QED BY <1>1, <1>2, <1>3 DEF CalendarInv, SearchInv

LEMMA NoSearch ==
  ASSUME NEW x, x = Cal!Idle \/ x.op = "update" \/ x.op = "respond"
  PROVE  SearchDue(x)
<1>1. Cal!Idle.op = "idle"
  BY DEF Cal!Idle
<1>. QED BY <1>1 DEF SearchDue

LEMMA CreateEventInv == ASSUME CalendarInv, Cal!CreateEvent PROVE CalendarInv'
<1>1. PICK e \in Events, w \in Cal!Whens :
        calendar' = [calendar EXCEPT ![e] =
                       Cal!NewEvent(Cal!Placed(w), [f \in Cal!Fields |-> eventEdits'])]
  BY DEF Cal!CreateEvent
<1>2. /\ eventEdits' \in Int /\ UNCHANGED <<elsewhere, provider, eventCall>>
  BY DEF Cal!CreateEvent, Cal!Edit, CalendarInv, EventsInv
<1>3. [f \in Cal!Fields |-> eventEdits'] \in EventTexts
  BY <1>2 DEF EventTexts
<1>4. Cal!NewEvent(Cal!Placed(w), [f \in Cal!Fields |-> eventEdits']) \in EventShapes
  BY <1>3, WhensAreGivens, PlacedIsSpan, NewEventShape
<1>5. EventsInv'
  BY <1>1, <1>2, <1>4, EventChanged DEF CalendarInv
<1>. QED BY <1>2, <1>5 DEF CalendarInv, EventCallsInv, SearchInv, SearchDue

LEMMA OthersEditInv ==
  ASSUME CalendarInv, NEW e \in Events,
         \/ Cal!OwnerEdits(e) \/ Cal!GuestAnswers(e) \/ Cal!DeleteEvent(e)
         \/ Cal!GraphPatchesEvent(e) \/ Cal!GraphResponds(e)
  PROVE  CalendarInv'
<1>1. /\ Cal!Exists(e) /\ eventEdits' \in Int /\ UNCHANGED <<elsewhere, provider, eventCall>>
  <2>1. Cal!Exists(e)
    BY ShownIsThere DEF Cal!OwnerEdits, Cal!GuestAnswers, Cal!DeleteEvent, Cal!GraphPatchesEvent,
           Cal!GraphResponds
  <2>2. eventEdits' = eventEdits + 1 \/ eventEdits' = eventEdits
    BY DEF Cal!OwnerEdits, Cal!GuestAnswers, Cal!DeleteEvent, Cal!GraphPatchesEvent,
           Cal!GraphResponds, Cal!Edit
  <2>3. UNCHANGED <<elsewhere, provider, eventCall>>
    BY DEF Cal!OwnerEdits, Cal!GuestAnswers, Cal!DeleteEvent, Cal!GraphPatchesEvent,
           Cal!GraphResponds
  <2>. QED BY <2>1, <2>2, <2>3 DEF CalendarInv, EventsInv
<1>2. calendar[e] \in EventShapes
  BY <1>1, ExistingEvent DEF CalendarInv
<1>3. calendar[e].details \in EventTexts /\ calendar[e].reply \in EventReplies
  BY <1>2 DEF EventShapes
<1>4. CASE Cal!OwnerEdits(e)
  <2>1. PICK f \in Cal!Fields : calendar' = [calendar EXCEPT ![e].details[f] = eventEdits']
    BY <1>4 DEF Cal!OwnerEdits
  <2>. DEFINE d == [calendar[e].details EXCEPT ![f] = eventEdits']
  <2>2. d \in EventTexts
    BY <1>1, <1>3, OneFieldElse DEF EventTexts
  <2>3. calendar' = [calendar EXCEPT ![e] = [calendar[e] EXCEPT !.details = d]]
    BY <2>1
  <2>. HIDE DEF d
  <2>. QED BY <1>1, <1>2, <2>2, <2>3, DetailedEvent, EventStep
<1>5. CASE Cal!GuestAnswers(e) \/ Cal!GraphResponds(e)
  <2>1. PICK p : calendar' = [calendar EXCEPT ![e].reply[p] = eventEdits']
    BY <1>5 DEF Cal!GuestAnswers, Cal!GraphResponds
  <2>. DEFINE r == [calendar[e].reply EXCEPT ![p] = eventEdits']
  <2>2. r \in EventReplies
    BY <1>1, <1>3, OneFieldElse DEF EventReplies
  <2>3. calendar' = [calendar EXCEPT ![e] = [calendar[e] EXCEPT !.reply = r]]
    BY <2>1
  <2>. HIDE DEF r
  <2>. QED BY <1>1, <1>2, <2>2, <2>3, RepliedEvent, EventStep
<1>6. CASE Cal!DeleteEvent(e)
  BY <1>1, <1>6, EventStep DEF Cal!DeleteEvent
<1>7. CASE Cal!GraphPatchesEvent(e)
  <2>1. PICK give \in SUBSET Cal!Fields, guests \in BOOLEAN, when \in Cal!NewTimes :
          calendar' = [calendar EXCEPT ![e] =
            [Cal!Moved(calendar[e], when) EXCEPT
               !.details = Cal!Merge(@, give, eventEdits'), !.reply = Cal!Invite(@, guests)]]
    BY <1>7 DEF Cal!GraphPatchesEvent
  <2>. DEFINE m == Cal!Moved(calendar[e], when)
  <2>2. m \in EventShapes
    BY <1>2, NewTimesAreGivens, MovedIsEvent
  <2>. HIDE DEF m
  <2>3. m.details \in EventTexts /\ m.reply \in EventReplies
    BY <2>2 DEF EventShapes
  <2>4. /\ Cal!Merge(m.details, give, eventEdits') \in EventTexts
        /\ Cal!Invite(m.reply, guests) \in EventReplies
    BY <1>1, <2>3, MergedText, InvitedReply
  <2>5. calendar' = [calendar EXCEPT ![e] =
            [m EXCEPT !.details = Cal!Merge(m.details, give, eventEdits'),
                      !.reply = Cal!Invite(m.reply, guests)]]
    BY <2>1 DEF m
  <2>. QED BY <1>1, <2>2, <2>4, <2>5, RewrittenEvent, EventStep
<1>. QED BY <1>4, <1>5, <1>6, <1>7

LEMMA GoogleReadsInv ==
  ASSUME CalendarInv, NEW c \in Callers, NEW e \in Events,
         Cal!GoogleReadsEvent(c, e) \/ Cal!GoogleReadsReplies(c, e)
  PROVE  CalendarInv'
<1>1. /\ Cal!Exists(e) /\ eventEdits' \in Int /\ UNCHANGED <<calendar, elsewhere, provider>>
  BY ShownIsThere DEF Cal!GoogleReadsEvent, Cal!GoogleReadsReplies, Cal!Edit, CalendarInv, EventsInv
<1>2. calendar[e] \in EventShapes
  BY <1>1, ExistingEvent DEF CalendarInv
<1>3. CASE Cal!GoogleReadsEvent(c, e)
  <2>1. PICK give \in SUBSET Cal!Fields, guests \in BOOLEAN, when \in Cal!NewTimes :
          eventCall' = [eventCall EXCEPT ![c] = [op |-> "update", event |-> e, give |-> give,
                  guests |-> guests, edit |-> eventEdits', read |-> Cal!GoogleEvent(e).details,
                  when |-> when]]
    BY <1>3 DEF Cal!GoogleReadsEvent
  <2>2. Cal!GoogleEvent(e).details \in EventTexts
    <3>1. Cal!GoogleEvent(e).details = Cal!WithTitle(calendar[e].details)
      BY <1>2 DEF Cal!GoogleEvent, EventShapes
    <3>2. calendar[e].details \in [Cal!Fields -> Int]
      BY <1>2 DEF EventShapes, EventTexts
    <3>3. \A x \in Int : (IF x = Cal!None THEN Cal!NoTitle ELSE x) \in Int
      BY DEF Cal!None, Cal!NoTitle
    <3>4. calendar[e].details["title"] \in Int
      BY <3>2 DEF Cal!Fields
    <3>. DEFINE v == IF calendar[e].details["title"] = Cal!None THEN Cal!NoTitle
                     ELSE calendar[e].details["title"]
    <3>5. v \in Int
      BY <3>3, <3>4
    <3>6. Cal!WithTitle(calendar[e].details) = [calendar[e].details EXCEPT !["title"] = v]
      BY DEF Cal!WithTitle
    <3>. HIDE DEF v
    <3>. QED BY <3>1, <3>2, <3>5, <3>6, OneFieldElse DEF EventTexts
  <2>3. when \in SUBSET Givens
    BY NewTimesAreGivens
  <2>. DEFINE x == [op |-> "update", event |-> e, give |-> give,
                  guests |-> guests, edit |-> eventEdits', read |-> Cal!GoogleEvent(e).details,
                  when |-> when]
  <2>4. x \in EventUpdates /\ x.op = "update"
    BY <1>1, <2>2, <2>3 DEF EventUpdates
  <2>. HIDE DEF x
  <2>5. eventCall' = [eventCall EXCEPT ![c] = x]
    BY <2>1 DEF x
  <2>. QED BY <1>1, <2>4, <2>5, NoSearch, CallStep DEF EventCalling
<1>4. CASE Cal!GoogleReadsReplies(c, e)
  <2>. DEFINE x == [op |-> "respond", event |-> e, edit |-> eventEdits',
                    read |-> calendar[e].reply]
  <2>1. eventCall' = [eventCall EXCEPT ![c] = x]
    BY <1>4 DEF Cal!GoogleReadsReplies
  <2>2. calendar[e].reply \in EventReplies
    BY <1>2 DEF EventShapes
  <2>3. x \in EventResponses /\ x.op = "respond"
    BY <1>1, <2>2 DEF EventResponses
  <2>. HIDE DEF x
  <2>. QED BY <1>1, <2>1, <2>3, NoSearch, CallStep DEF EventCalling
<1>. QED BY <1>3, <1>4

\* What the two calls write.
LEMMA PatchesEvent ==
  ASSUME CalendarInv, NEW c \in Callers, Cal!GooglePatchesEvent(c), Cal!Exists(eventCall[c].event)
  PROVE  \E x \in EventShapes :
           /\ calendar' = [calendar EXCEPT ![eventCall[c].event] = x]
           /\ eventCall[c] \in EventUpdates
           /\ \A f \in Cal!Fields \ eventCall[c].give :
                x.details[f] = eventCall[c].read[f] /\ eventCall[c].read[f] \in Int
<1>. DEFINE u == eventCall[c]
            e == u.event
            m == Cal!Moved(calendar[e], u.when)
            d == Cal!Merge(u.read, u.give, u.edit)
<1>1. u \in EventUpdates
  BY EventCallsByTheirOp DEF CalendarInv, Cal!GooglePatchesEvent
<1>2. e \in Events /\ u.when \in SUBSET Givens /\ u.read \in EventTexts /\ u.edit \in Int
  BY <1>1 DEF EventUpdates
<1>3. m \in EventShapes
  BY <1>2, ExistingEvent, MovedIsEvent DEF CalendarInv
<1>4. calendar' = [calendar EXCEPT ![e] =
        [m EXCEPT !.details = d, !.reply = Cal!Invite(m.reply, u.guests)]]
  BY DEF Cal!GooglePatchesEvent
<1>. HIDE DEF m
<1>5. Cal!Invite(m.reply, u.guests) \in EventReplies
  <2>1. m.reply \in EventReplies
    BY <1>3 DEF EventShapes
  <2>. QED BY <2>1, InvitedReply
<1>6. d \in EventTexts /\ \A f \in Cal!Fields \ u.give : d[f] = u.read[f] /\ u.read[f] \in Int
  BY <1>2, MergedText
<1>. HIDE DEF d
<1>. DEFINE r == Cal!Invite(m.reply, u.guests)
            x == [m EXCEPT !.details = d, !.reply = r]
<1>7. x \in EventShapes /\ x.details = d
  <2>1. r \in EventReplies
    BY <1>5
  <2>. HIDE DEF r
  <2>2. \A t \in EventTexts, q \in EventReplies :
          /\ [m EXCEPT !.details = t, !.reply = q] \in EventShapes
          /\ [m EXCEPT !.details = t, !.reply = q].details = t
    BY <1>3, RewrittenEvent, Zenon
  <2>. QED BY <1>6, <2>1, <2>2, Zenon
<1>8. calendar' = [calendar EXCEPT ![e] = x]
  BY <1>4
<1>. HIDE DEF x
<1>9. \A f \in Cal!Fields \ u.give : x.details[f] = u.read[f] /\ u.read[f] \in Int
  BY <1>6, <1>7
<1>. HIDE DEF e, u
<1>10. \E y \in EventShapes :
         /\ calendar' = [calendar EXCEPT ![e] = y] /\ u \in EventUpdates
         /\ \A f \in Cal!Fields \ u.give : y.details[f] = u.read[f] /\ u.read[f] \in Int
  BY <1>1, <1>7, <1>8, <1>9
<1>. QED BY <1>10 DEF e, u

LEMMA WritesReplies ==
  ASSUME CalendarInv, NEW c \in Callers, Cal!GoogleWritesReplies(c), Cal!Exists(eventCall[c].event)
  PROVE  \E x \in EventShapes :
           /\ calendar' = [calendar EXCEPT ![eventCall[c].event] = x]
           /\ eventCall[c] \in EventResponses
           /\ \A p \in Guests \ {Me} :
                x.reply[p] = eventCall[c].read[p] /\ eventCall[c].read[p] \in Int
<1>. DEFINE u == eventCall[c]
            e == u.event
            r == Cal!Attendees(c)
<1>1. u \in EventResponses
  BY EventCallsByTheirOp DEF CalendarInv, Cal!GoogleWritesReplies
<1>2. e \in Events /\ u.read \in [Guests -> Int] /\ u.edit \in Int
  BY <1>1 DEF EventResponses, EventReplies
<1>3. /\ r \in [Guests -> Int]
      /\ \A p \in Guests \ {Me} : r[p] = u.read[p] /\ u.read[p] \in Int
  <2>1. r = [u.read EXCEPT ![Me] = u.edit]
    BY DEF Cal!Attendees
  <2>. QED BY <1>2, <2>1, OneFieldElse
<1>4. calendar' = [calendar EXCEPT ![e].reply = r]
  BY DEF Cal!GoogleWritesReplies
<1>. HIDE DEF r
<1>. DEFINE x == [calendar[e] EXCEPT !.reply = r]
<1>5. calendar[e] \in EventShapes
  BY <1>2, ExistingEvent DEF CalendarInv
<1>6. x \in EventShapes /\ x.reply = r
  BY <1>3, <1>5, RepliedEvent DEF EventReplies
<1>7. calendar' = [calendar EXCEPT ![e] = x]
  BY <1>4
<1>. HIDE DEF x
<1>. QED BY <1>1, <1>3, <1>6, <1>7

LEMMA GoogleWritesInv ==
  ASSUME CalendarInv, NEW c \in Callers,
         Cal!GooglePatchesEvent(c) \/ Cal!GoogleWritesReplies(c) \/ Cal!CallFails(c)
  PROVE  CalendarInv'
<1>1. /\ eventCall' = [eventCall EXCEPT ![c] = Cal!Idle]
      /\ UNCHANGED <<elsewhere, provider, eventEdits>>
      /\ eventEdits' \in Int
  BY DEF Cal!GooglePatchesEvent, Cal!GoogleWritesReplies, Cal!CallFails, CalendarInv, EventsInv
<1>2. CASE UNCHANGED calendar
  BY <1>1, <1>2, NoSearch, CallStep DEF EventCalling
<1>3. CASE Cal!GooglePatchesEvent(c) /\ Cal!Exists(eventCall[c].event)
  <2>1. PICK x \in EventShapes :
           /\ calendar' = [calendar EXCEPT ![eventCall[c].event] = x]
           /\ eventCall[c] \in EventUpdates
    BY <1>3, PatchesEvent
  <2>2. eventCall[c].event \in Events
    BY <2>1 DEF EventUpdates
  <2>. QED BY <1>1, <1>3, <2>1, <2>2, EventStep
<1>4. CASE Cal!GoogleWritesReplies(c) /\ Cal!Exists(eventCall[c].event)
  <2>1. PICK x \in EventShapes :
           /\ calendar' = [calendar EXCEPT ![eventCall[c].event] = x]
           /\ eventCall[c] \in EventResponses
    BY <1>4, WritesReplies
  <2>2. eventCall[c].event \in Events
    BY <2>1 DEF EventResponses
  <2>. QED BY <1>1, <1>4, <2>1, <2>2, EventStep
<1>. QED BY <1>2, <1>3, <1>4 DEF Cal!GooglePatchesEvent, Cal!GoogleWritesReplies, Cal!CallFails

LEMMA BusyIsSpans ==
  ASSUME EventsInv, NEW known, NEW from \in Int, NEW to \in Int
  PROVE  /\ Cal!GetFreeBusy(known, from, to) \in SUBSET Spans
         /\ \A b \in Cal!GetFreeBusy(known, from, to) : b.start < to
<1>1. \A e \in Events : Cal!Exists(e) => calendar[e].time \in Spans
  BY ExistingEvent DEF EventShapes
<1>2. Cal!GetFreeBusy(known, from, to) \subseteq Spans
  BY <1>1 DEF Cal!GetFreeBusy, EventsInv
<1>3. ASSUME NEW b \in Cal!GetFreeBusy(known, from, to) PROVE b.start < to
  <2>1. Cal!Overlap(b, [start |-> from, end |-> to])
    BY DEF Cal!GetFreeBusy
  <2>. QED BY <2>1 DEF Cal!Overlap
<1>. QED BY <1>2, <1>3

LEMMA ScheduleIsSpans == ASSUME EventsInv PROVE Cal!GraphSchedule \in SUBSET Spans
<1>1. \A e \in Events : Cal!Exists(e) => calendar[e].time \in Spans
  BY ExistingEvent DEF EventShapes
<1>. QED BY <1>1 DEF Cal!GraphSchedule, EventsInv

LEMMA GoogleFindsInv ==
  ASSUME CalendarInv, NEW c \in Callers, Cal!GoogleFinds(c)
  PROVE  CalendarInv'
<1>1. PICK known \in SUBSET Guests, w \in Cal!Intervals, duration \in 1..Horizon :
        LET busy == Cal!GetFreeBusy(known, w.start, w.end) IN
        eventCall' = [eventCall EXCEPT ![c] =
         [op |-> "find", pc |-> "looping", busy |-> busy, left |-> busy, from |-> w.start,
          to |-> w.end, duration |-> duration, current |-> w.start, picks |-> <<>>,
          off |-> FALSE]]
  BY DEF Cal!GoogleFinds
<1>. DEFINE busy == Cal!GetFreeBusy(known, w.start, w.end)
<1>2. w.start \in Int /\ w.end \in Int /\ duration \in Int
  <2>1. w \in Spans
    BY IntervalIsSpan
  <2>2. duration \in Int
    BY EventsAssumption
  <2>. QED BY <2>1, <2>2, SpanTimes
<1>3. busy \in SUBSET Spans /\ \A b \in busy : b.start < w.end
  BY <1>2, BusyIsSpans DEF CalendarInv
<1>4. UNCHANGED <<calendar, elsewhere, provider>> /\ eventEdits' \in Int
  BY DEF Cal!GoogleFinds, CalendarInv, EventsInv
<1>. HIDE DEF busy
<1>. DEFINE x == [op |-> "find", pc |-> "looping", busy |-> busy, left |-> busy,
                  from |-> w.start, to |-> w.end, duration |-> duration, current |-> w.start,
                  picks |-> <<>>, off |-> FALSE]
<1>5. eventCall' = [eventCall EXCEPT ![c] = x]
  BY <1>1 DEF busy
<1>6. /\ x \in EventSearches /\ x.pc = "looping" /\ x.busy = busy /\ x.left = busy
      /\ x.from = w.start /\ x.to = w.end /\ x.duration = duration /\ x.current = w.start
      /\ x.picks = <<>>
  BY <1>2, <1>3 DEF EventSearches
<1>. HIDE DEF x
<1>7. FreePicks(x)
  BY <1>6 DEF FreePicks
<1>8. SearchGoesOn(x)
  <2>1. w.start <= w.start
    BY <1>2
  <2>2. \A t \in Fits(x) : t >= w.start
    BY <1>2, <1>6, FitsAreTimes
  <2>. QED BY <1>3, <1>6, <2>1, <2>2 DEF SearchGoesOn
<1>9. SearchDue(x)
  BY <1>6, <1>7, <1>8 DEF SearchDue
<1>. QED BY <1>4, <1>5, <1>6, <1>9, CallStep DEF EventCalling

LEMMA SearchStepInv ==
  ASSUME CalendarInv, NEW c \in Callers, Cal!NextBusy(c) \/ Cal!Remaining(c)
  PROVE  CalendarInv'
<1>. DEFINE s == eventCall[c]
<1>1. /\ s \in EventSearches /\ FreePicks(s) /\ SearchGoesOn(s)
      /\ s.op = "find" /\ s.pc = "looping"
  <2>1. s.op = "find" /\ s.pc = "looping"
    BY DEF Cal!NextBusy, Cal!Remaining
  <2>. QED BY <2>1, EventCallsByTheirOp DEF CalendarInv, SearchInv, SearchDue
<1>2. /\ s.left \in SUBSET Spans /\ s.to \in Int /\ s.current \in Int /\ s.duration \in Int
      /\ s.busy \in SUBSET Spans
  BY <1>1 DEF EventSearches
<1>3. UNCHANGED <<calendar, elsewhere, provider>> /\ eventEdits' \in Int
  BY DEF Cal!NextBusy, Cal!Remaining, CalendarInv, EventsInv
<1>4. CASE Cal!NextBusy(c)
  <2>1. PICK b \in Cal!Earliest(s.left) :
         LET picks == Cal!Pick(s, b.start) IN
         eventCall' = [eventCall EXCEPT ![c] =
           IF Len(picks) > Len(s.picks) /\ Len(picks) >= MaxSuggestions
           THEN [s EXCEPT !.picks = picks, !.pc = "done"]
           ELSE [s EXCEPT !.picks = picks, !.left = @ \ {b}, !.current = Cal!Pass(s, b)]]
    BY <1>4 DEF Cal!NextBusy
  <2>. DEFINE picks == Cal!Pick(s, b.start)
  <2>2. b \in s.left /\ \A a \in s.left : b.start <= a.start
    BY DEF Cal!Earliest
  <2>3. b \in s.busy /\ b.start \in Int /\ b.start <= s.to
    <3>1. b \in s.busy /\ b.start \in Int
      BY <1>1, <1>2, <2>2, SpanTimes DEF SearchGoesOn
    <3>2. b.start < s.to
      BY <1>1, <3>1 DEF SearchGoesOn
    <3>. QED BY <1>2, <3>1, <3>2
  <2>4. CASE Len(picks) > Len(s.picks) /\ Len(picks) >= MaxSuggestions
    <3>. DEFINE x == [s EXCEPT !.picks = picks, !.pc = "done"]
    <3>1. eventCall' = [eventCall EXCEPT ![c] = x]
      BY <2>1, <2>4
    <3>2. b.start - s.current >= s.duration
      <4>1. Cal!Pick(s, b.start) = s.picks => ~(Len(picks) > Len(s.picks))
        <5>1. Len(s.picks) \in Nat
          BY <1>1 DEF EventSearches
        <5>. QED BY <5>1
      <4>. QED BY <1>1, <2>3, <2>4, <4>1, Picked
    <3>. HIDE DEF s
    <3>3. x \in EventSearches /\ FreePicks(x) /\ SearchEnded(x) /\ x.op = s.op /\ x.pc = "done"
      BY <1>1, <2>2, <2>3, <3>2, SearchEnds
    <3>. HIDE DEF x
    <3>4. SearchDue(x)
      BY <3>3 DEF SearchDue
    <3>. QED BY <1>3, <3>1, <3>3, <3>4, CallStep DEF EventCalling
  <2>5. CASE ~(Len(picks) > Len(s.picks) /\ Len(picks) >= MaxSuggestions)
    <3>. DEFINE x == [s EXCEPT !.picks = picks, !.left = s.left \ {b}, !.current = Cal!Pass(s, b)]
    <3>1. eventCall' = [eventCall EXCEPT ![c] = x]
      BY <2>1, <2>5
    <3>. HIDE DEF s
    <3>2. x \in EventSearches /\ FreePicks(x) /\ SearchGoesOn(x) /\ x.op = s.op /\ x.pc = s.pc
      BY <1>1, SearchPasses
    <3>. HIDE DEF x
    <3>3. SearchDue(x)
      BY <1>1, <3>2 DEF SearchDue
    <3>. QED BY <1>3, <3>1, <3>2, <3>3, CallStep DEF EventCalling
  <2>. QED BY <2>4, <2>5
<1>5. CASE Cal!Remaining(c)
  <2>. DEFINE x == [s EXCEPT !.picks = Cal!Pick(s, s.to), !.pc = "done"]
  <2>1. eventCall' = [eventCall EXCEPT ![c] = x] /\ s.left = {}
    BY <1>5 DEF Cal!Remaining
  <2>. HIDE DEF s
  <2>2. x \in EventSearches /\ FreePicks(x) /\ SearchEnded(x) /\ x.op = s.op /\ x.pc = "done"
    <3>1. s.to <= s.to /\ \A b \in s.left : s.to <= b.start
      BY <1>2, <2>1
    <3>2. s.to - s.current >= s.duration \/ (s.left = {} /\ s.to = s.to)
      BY <2>1
    <3>. QED BY <1>1, <1>2, <3>1, <3>2, SearchEnds
  <2>. HIDE DEF x
  <2>3. SearchDue(x)
    BY <2>2 DEF SearchDue
  <2>. QED BY <1>3, <2>1, <2>2, <2>3, CallStep DEF EventCalling
<1>. QED BY <1>4, <1>5

\* Where nobody's clock is ahead of UTC's, the window that Graph is asked for and the
\* answer that is read are those of the caller.
LEMMA CandidatesAreFree ==
  ASSUME EventsInv, NEW w \in Spans, NEW zone \in Int, NEW server \in Int, NEW duration \in Int,
         NEW i \in Cal!Candidates(Cal!GraphReads(Cal!ToGraphDateTime([asked |-> w, zone |-> zone])),
                                  duration)
  PROVE  LET pick == Cal!Earlier(i, server) IN
         /\ pick \in Spans /\ pick.end - pick.start = duration
         /\ zone = 0 /\ server = 0 =>
              w.start <= pick.start /\ pick.end <= w.end /\ Cal!IsFree(pick, Cal!GraphSchedule)
<1>. DEFINE window == Cal!Earlier(w, zone)
<1>1. Cal!GraphReads(Cal!ToGraphDateTime([asked |-> w, zone |-> zone])) = window
  BY DEF Cal!GraphReads, Cal!ToGraphDateTime
<1>2. /\ window.start \in Int /\ window.end \in Int /\ w.start \in Int /\ w.end \in Int
      /\ window.start = w.start - zone /\ window.end = w.end - zone
  BY EarlierIsSpan, SpanTimes
<1>. HIDE DEF window
<1>3. PICK t \in window.start..(window.end - duration) :
        i = Cal!Slot(t, duration) /\ Cal!IsFree(Cal!Slot(t, duration), Cal!GraphSchedule)
  BY <1>1 DEF Cal!Candidates
<1>4. t \in Int /\ window.start <= t /\ t + duration <= window.end
  BY <1>2, <1>3
<1>5. i \in Spans /\ i.start = t /\ i.end = t + duration
  BY <1>3, <1>4, SlotIsSpan
<1>. DEFINE pick == Cal!Earlier(i, server)
<1>6. pick \in Spans /\ pick.start = t - server /\ pick.end = (t + duration) - server
  BY <1>5, EarlierIsSpan
<1>7. pick.end - pick.start = duration
  BY <1>4, <1>6
<1>8. ASSUME zone = 0, server = 0
      PROVE  w.start <= pick.start /\ pick.end <= w.end /\ Cal!IsFree(pick, Cal!GraphSchedule)
  <2>1. pick.start = i.start /\ pick.end = i.end
    BY <1>4, <1>5, <1>6, <1>8
  <2>2. w.start <= pick.start /\ pick.end <= w.end
    BY <1>2, <1>4, <1>5, <1>8, <2>1
  <2>3. Cal!IsFree(i, Cal!GraphSchedule)
    BY <1>3
  <2>. QED BY <2>1, <2>2, <2>3 DEF Cal!IsFree, Cal!Overlap
<1>. QED BY <1>6, <1>7, <1>8

LEMMA GraphFindsInv ==
  ASSUME CalendarInv, NEW c \in Callers, Cal!GraphFinds(c)
  PROVE  CalendarInv'
<1>1. PICK w \in Cal!Intervals, zone \in Zones, server \in Zones, duration \in 1..Horizon :
       LET window == Cal!GraphReads(Cal!ToGraphDateTime([asked |-> w, zone |-> zone]))
           answers == {<<>>} \union {<<Cal!Earlier(i, server)>> : i \in Cal!Candidates(window, duration)} IN
       \E picks \in answers :
         eventCall' = [eventCall EXCEPT ![c] =
           [op |-> "find", pc |-> "done", busy |-> Cal!GraphSchedule, left |-> {}, from |-> w.start,
            to |-> w.end, duration |-> duration, current |-> w.start, picks |-> picks,
            off |-> {zone, server} # {0}]]
  BY DEF Cal!GraphFinds
<1>. DEFINE window == Cal!GraphReads(Cal!ToGraphDateTime([asked |-> w, zone |-> zone]))
<1>2. PICK picks \in {<<>>} \union {<<Cal!Earlier(i, server)>> : i \in Cal!Candidates(window, duration)} :
         eventCall' = [eventCall EXCEPT ![c] =
           [op |-> "find", pc |-> "done", busy |-> Cal!GraphSchedule, left |-> {}, from |-> w.start,
            to |-> w.end, duration |-> duration, current |-> w.start, picks |-> picks,
            off |-> {zone, server} # {0}]]
  BY <1>1
<1>3. /\ w \in Spans /\ w.start \in Int /\ w.end \in Int
      /\ duration \in Int /\ zone \in Int /\ server \in Int
  <2>1. w \in Spans
    BY IntervalIsSpan
  <2>2. duration \in Int /\ zone \in Int /\ server \in Int
    BY EventsAssumption
  <2>. QED BY <2>1, <2>2, SpanTimes
<1>4. /\ UNCHANGED <<calendar, elsewhere, provider>> /\ eventEdits' \in Int
      /\ provider = "MICROSOFT"
  BY DEF Cal!GraphFinds, CalendarInv, EventsInv
<1>5. /\ picks \in Seq(Spans)
      /\ \A n \in DOMAIN picks :
           \E i \in Cal!Candidates(window, duration) : picks[n] = Cal!Earlier(i, server)
  <2>1. CASE picks = <<>>
    BY <2>1
  <2>2. ASSUME NEW i \in Cal!Candidates(window, duration), picks = <<Cal!Earlier(i, server)>>
        PROVE  <1>5
    <3>1. Cal!Earlier(i, server) \in Spans
      BY <1>3, CandidatesAreFree DEF CalendarInv
    <3>. QED BY <2>2, <3>1
  <2>. QED BY <2>1, <2>2
<1>. DEFINE x == [op |-> "find", pc |-> "done", busy |-> Cal!GraphSchedule, left |-> {},
                  from |-> w.start, to |-> w.end, duration |-> duration, current |-> w.start,
                  picks |-> picks, off |-> {zone, server} # {0}]
<1>6. eventCall' = [eventCall EXCEPT ![c] = x]
  BY <1>2
<1>7. /\ x \in EventSearches /\ x.pc = "done" /\ x.busy = Cal!GraphSchedule
      /\ x.from = w.start /\ x.to = w.end /\ x.duration = duration
      /\ x.picks = picks /\ x.off = ({zone, server} # {0})
  BY <1>3, <1>5, ScheduleIsSpans DEF EventSearches, CalendarInv
<1>. HIDE DEF x
<1>8. ASSUME NEW n \in DOMAIN picks PROVE FreePick(x, picks[n])
  <2>1. PICK i \in Cal!Candidates(window, duration) : picks[n] = Cal!Earlier(i, server)
    BY <1>5
  <2>2. ~x.off => zone = 0 /\ server = 0
    BY <1>7
  <2>3. /\ picks[n].end - picks[n].start = duration
        /\ zone = 0 /\ server = 0 =>
              /\ w.start <= picks[n].start /\ picks[n].end <= w.end
              /\ Cal!IsFree(picks[n], Cal!GraphSchedule)
    BY <1>3, <2>1, CandidatesAreFree DEF CalendarInv
  <2>. QED BY <1>7, <2>2, <2>3 DEF FreePick
<1>9. SearchDue(x)
  BY <1>4, <1>7, <1>8 DEF SearchDue, FreePicks
<1>. QED BY <1>4, <1>6, <1>7, <1>9, CallStep DEF EventCalling

LEMMA CalendarNext == ASSUME CalendarInv, Cal!Next PROVE CalendarInv' /\ UNCHANGED provider
<1>1. CalendarInv'
  BY CreateEventInv, OthersEditInv, GoogleReadsInv, GoogleWritesInv, GoogleFindsInv,
     SearchStepInv, GraphFindsInv DEF Cal!Next
<1>2. UNCHANGED provider
  BY DEF Cal!Next, Cal!CreateEvent, Cal!OwnerEdits, Cal!GuestAnswers, Cal!DeleteEvent,
         Cal!GraphPatchesEvent, Cal!GraphResponds, Cal!GoogleReadsEvent, Cal!GoogleReadsReplies,
         Cal!GooglePatchesEvent, Cal!GoogleWritesReplies, Cal!CallFails, Cal!GoogleFinds,
         Cal!NextBusy, Cal!Remaining, Cal!GraphFinds
<1>. QED BY <1>1, <1>2

LEMMA InitCalendar == Cal!Init => CalendarInv
<1>1. ASSUME Cal!Init, NEW c \in Callers PROVE eventCall[c] = Cal!Idle
  BY <1>1 DEF Cal!Init
<1>. QED BY <1>1, InitEvents, NoSearch DEF CalendarInv, SearchInv

LEMMA SearchesAreSound == CalendarInv => SuggestionsAreSound
<1>. SUFFICES ASSUME CalendarInv PROVE Cal!SuggestionsAreSound
  BY DEF SuggestionsAreSound
<1>1. ASSUME NEW c \in Cal!Searches
      PROVE  c \in Callers /\ eventCall[c] \in EventSearches /\ SearchDue(eventCall[c]) /\ eventCall[c].op = "find"
  BY EventCallsByTheirOp DEF Cal!Searches, CalendarInv, SearchInv
<1>2. Cal!SuggestionsAreFree
  BY <1>1 DEF Cal!SuggestionsAreFree, SearchDue, FreePicks, FreePick
<1>3. Cal!EarliestIsOffered
  BY <1>1 DEF Cal!EarliestIsOffered, SearchDue, SearchEnded, Fits, OffersBy
<1>. QED BY <1>2, <1>3 DEF Cal!SuggestionsAreSound

-----------------------------------------------------------------------------
(* What a call of the calendar does not name                               *)

EventKeeps ==
  \A c \in Callers : eventCall'[c] = Cal!Idle /\ eventCall[c].op \in {"update", "respond"} =>
    LET u == eventCall[c] IN Cal!Exists(u.event) =>
    LET old == calendar[u.event] new == calendar'[u.event] IN
    IF u.op = "update"
    THEN \A f \in Cal!Fields \ u.give :
           \/ new.details[f] = old.details[f] \/ new.details[f] >= u.read[f]
           \/ f = "title" /\ u.read[f] = Cal!NoTitle
    ELSE \A p \in Guests \ {Me} :
           new.reply[p] = old.reply[p] \/ new.reply[p] >= u.read[p]

LEMMA EventCallEnds ==
  ASSUME EventCallsInv, NEW c \in Callers, eventCall[c].op \in {"update", "respond"},
         eventCall'[c] = Cal!Idle, [Cal!Next]_(Cal!vars)
  PROVE  \/ Cal!GooglePatchesEvent(c)
         \/ Cal!GoogleWritesReplies(c)
         \/ UNCHANGED calendar
<1>1. Cal!Idle.op = "idle"
  BY DEF Cal!Idle
<1>2. eventCall'[c] # eventCall[c]
  BY <1>1
<1>3. ~UNCHANGED Cal!vars /\ ~Cal!CreateEvent
  BY <1>2 DEF Cal!vars, Cal!CreateEvent
<1>4. ASSUME NEW e \in Events, \/ Cal!OwnerEdits(e) \/ Cal!GuestAnswers(e) \/ Cal!DeleteEvent(e)
                               \/ Cal!GraphPatchesEvent(e) \/ Cal!GraphResponds(e)
      PROVE  FALSE
  BY <1>2, <1>4 DEF Cal!OwnerEdits, Cal!GuestAnswers, Cal!DeleteEvent, Cal!GraphPatchesEvent,
         Cal!GraphResponds
<1>5. ASSUME NEW d \in Callers, Cal!GooglePatchesEvent(d) \/ Cal!GoogleWritesReplies(d)
      PROVE  Cal!GooglePatchesEvent(c) \/ Cal!GoogleWritesReplies(c)
  <2>1. \A k \in Callers \ {d} : eventCall'[k] = eventCall[k]
    BY <1>5 DEF Cal!GooglePatchesEvent, Cal!GoogleWritesReplies, EventCallsInv
  <2>2. c = d
    BY <1>2, <2>1
  <2>. QED BY <1>5, <2>2
<1>6. ASSUME NEW d \in Callers,
             \/ \E e \in Events : Cal!GoogleReadsEvent(d, e) \/ Cal!GoogleReadsReplies(d, e)
             \/ Cal!CallFails(d) \/ Cal!GoogleFinds(d) \/ Cal!NextBusy(d) \/ Cal!Remaining(d)
             \/ Cal!GraphFinds(d)
      PROVE  UNCHANGED calendar
  BY <1>6 DEF Cal!GoogleReadsEvent, Cal!GoogleReadsReplies, Cal!CallFails, Cal!GoogleFinds,
         Cal!NextBusy, Cal!Remaining, Cal!GraphFinds
<1>. QED BY <1>3, <1>4, <1>5, <1>6 DEF Cal!Next

LEMMA EventsKeep == CalendarInv /\ [Cal!Next]_(Cal!vars) => EventKeeps
<1>. SUFFICES ASSUME CalendarInv, [Cal!Next]_(Cal!vars), NEW c \in Callers,
                     eventCall'[c] = Cal!Idle, eventCall[c].op \in {"update", "respond"},
                     Cal!Exists(eventCall[c].event)
              PROVE  IF eventCall[c].op = "update"
                     THEN \A f \in Cal!Fields \ eventCall[c].give :
                            \/ calendar'[eventCall[c].event].details[f] = calendar[eventCall[c].event].details[f]
                            \/ calendar'[eventCall[c].event].details[f] >= eventCall[c].read[f]
                     ELSE \A p \in Guests \ {Me} :
                            \/ calendar'[eventCall[c].event].reply[p] = calendar[eventCall[c].event].reply[p]
                            \/ calendar'[eventCall[c].event].reply[p] >= eventCall[c].read[p]
  BY DEF EventKeeps
<1>. DEFINE u == eventCall[c]
<1>1. CASE UNCHANGED calendar
  BY <1>1
<1>2. CASE Cal!GooglePatchesEvent(c)
  <2>1. PICK x \in EventShapes :
           /\ calendar' = [calendar EXCEPT ![u.event] = x]
           /\ u \in EventUpdates
           /\ \A f \in Cal!Fields \ u.give : x.details[f] = u.read[f] /\ u.read[f] \in Int
    BY <1>2, PatchesEvent
  <2>2. u.event \in Events /\ u.op = "update"
    BY <2>1 DEF EventUpdates
  <2>3. calendar'[u.event] = x
    BY <2>1, <2>2 DEF CalendarInv, EventsInv
  <2>4. \A f \in Cal!Fields \ u.give : x.details[f] >= u.read[f]
    BY <2>1
  <2>. QED BY <2>2, <2>3, <2>4
<1>3. CASE Cal!GoogleWritesReplies(c)
  <2>1. PICK x \in EventShapes :
           /\ calendar' = [calendar EXCEPT ![u.event] = x]
           /\ u \in EventResponses
           /\ \A p \in Guests \ {Me} : x.reply[p] = u.read[p] /\ u.read[p] \in Int
    BY <1>3, WritesReplies
  <2>2. u.event \in Events /\ u.op = "respond"
    BY <2>1 DEF EventResponses
  <2>3. calendar'[u.event] = x
    BY <2>1, <2>2 DEF CalendarInv, EventsInv
  <2>4. \A p \in Guests \ {Me} : x.reply[p] >= u.read[p]
    BY <2>1
  <2>. QED BY <2>2, <2>3, <2>4
<1>. QED BY <1>1, <1>2, <1>3, EventCallEnds DEF CalendarInv

-----------------------------------------------------------------------------
(* Conversations: the order of a finite set of messages                     *)

\* B[m] is what stands before m. The numbers of those are the places of the elements.
Ranks(S, B) ==
  /\ B \in [S -> SUBSET S]
  /\ \A m \in S : m \notin B[m]
  /\ \A m, k \in S : m = k \/ k \in B[m] \/ m \in B[k]
  /\ \A m, k \in S : k \in B[m] => B[k] \subseteq B[m]

LEMMA RanksFill ==
  ASSUME NEW S, IsFiniteSet(S), NEW B, Ranks(S, B)
  PROVE  /\ Cardinality(S) \in Nat
         /\ \A m \in S : Cardinality(B[m]) \in 0..(Cardinality(S) - 1)
         /\ \A m, k \in S : k \in B[m] <=> Cardinality(B[k]) < Cardinality(B[m])
         /\ \A i \in 0..(Cardinality(S) - 1) : \E m \in S : Cardinality(B[m]) = i
<1>. DEFINE n == Cardinality(S)
            f == [m \in S |-> Cardinality(B[m])]
<1>. USE DEF Ranks
<1>1. n \in Nat
  BY FS_CardinalityType
<1>2. \A m \in S : IsFiniteSet(B[m]) /\ Cardinality(B[m]) \in Nat
  BY FS_Subset, FS_CardinalityType
<1>3. ASSUME NEW m \in S PROVE Cardinality(B[m]) < n
  <2>1. Cardinality(B[m]) <= n /\ (n = Cardinality(B[m]) => S = B[m])
    BY FS_Subset
  <2>2. S # B[m]
    OBVIOUS
  <2>. QED BY <1>1, <1>2, <2>1, <2>2
<1>4. ASSUME NEW m \in S, NEW k \in B[m] PROVE Cardinality(B[k]) < Cardinality(B[m])
  <2>1. k \in S /\ B[k] \in SUBSET B[m] /\ B[m] # B[k]
    OBVIOUS
  <2>2. /\ Cardinality(B[k]) <= Cardinality(B[m])
        /\ Cardinality(B[m]) = Cardinality(B[k]) => B[m] = B[k]
    BY <1>2, <2>1, FS_Subset
  <2>. QED BY <1>2, <2>1, <2>2
<1>5. \A m, k \in S : k \in B[m] <=> Cardinality(B[k]) < Cardinality(B[m])
  <2>1. ASSUME NEW m \in S, NEW k \in S, Cardinality(B[k]) < Cardinality(B[m]), k \notin B[m]
        PROVE  FALSE
    <3>1. Cardinality(B[m]) < Cardinality(B[k]) \/ m = k
      BY <1>4, <2>1
    <3>. QED BY <1>2, <2>1, <3>1
  <2>. QED BY <1>4, <2>1
<1>6. f \in Injection(S, 0..(n - 1))
  <2>1. f \in [S -> 0..(n - 1)]
    BY <1>1, <1>2, <1>3
  <2>2. ASSUME NEW m \in S, NEW k \in S, f[m] = f[k] PROVE m = k
    <3>1. ~(Cardinality(B[k]) < Cardinality(B[m])) /\ ~(Cardinality(B[m]) < Cardinality(B[k]))
      BY <1>2, <2>2
    <3>. QED BY <1>5, <3>1
  <2>. HIDE DEF f
  <2>. QED BY <2>1, <2>2 DEF Injection, IsInjective
<1>7. f \in Surjection(S, 0..(n - 1))
  <2>1. IsFiniteSet(0..(n - 1)) /\ Cardinality(0..(n - 1)) = n
    BY <1>1, FS_Interval
  <2>. HIDE DEF f, n
  <2>. QED BY <1>6, <2>1, FS_Injection DEF n
<1>8. \A i \in 0..(n - 1) : \E m \in S : Cardinality(B[m]) = i
  <2>1. \A i \in 0..(n - 1) : \E m \in S : f[m] = i
    <3>. HIDE DEF f, n
    <3>. QED BY <1>7 DEF Surjection
  <2>. QED BY <2>1
<1>9. \A m \in S : Cardinality(B[m]) \in 0..(n - 1)
  BY <1>1, <1>2, <1>3
<1>. QED BY <1>1, <1>5, <1>8, <1>9

\* The elements in the order of their places.
InPlace(S, B) == [i \in 1..Cardinality(S) |-> CHOOSE m \in S : Cardinality(B[m]) = i - 1]

LEMMA InPlaceOrders ==
  ASSUME NEW S, IsFiniteSet(S), NEW B, Ranks(S, B), NEW s, s = InPlace(S, B)
  PROVE  /\ Cardinality(S) \in Nat /\ s \in [1..Cardinality(S) -> S]
         /\ \A m \in S : \E i \in 1..Cardinality(S) : s[i] = m
         /\ \A i, j \in 1..Cardinality(S) : i < j => s[i] \in B[s[j]]
<1>. DEFINE n == Cardinality(S)
<1>1. /\ n \in Nat
      /\ \A m \in S : Cardinality(B[m]) \in 0..(n - 1)
      /\ \A m, k \in S : k \in B[m] <=> Cardinality(B[k]) < Cardinality(B[m])
      /\ \A i \in 0..(n - 1) : \E m \in S : Cardinality(B[m]) = i
  BY RanksFill
<1>2. \A i \in 1..n : s[i] \in S /\ Cardinality(B[s[i]]) = i - 1
  <2>1. ASSUME NEW i \in 1..n PROVE s[i] \in S /\ Cardinality(B[s[i]]) = i - 1
    <3>1. i - 1 \in 0..(n - 1)
      BY <1>1
    <3>2. \E m \in S : Cardinality(B[m]) = i - 1
      BY <1>1, <3>1
    <3>3. s[i] = CHOOSE m \in S : Cardinality(B[m]) = i - 1
      BY DEF InPlace
    <3>. QED BY <3>2, <3>3
  <2>. QED BY <2>1
<1>3. s \in [1..n -> S]
  BY <1>2 DEF InPlace
<1>. HIDE DEF n
<1>4. ASSUME NEW m \in S PROVE \E i \in 1..n : s[i] = m
  <2>. DEFINE i == Cardinality(B[m]) + 1
  <2>1. i \in 1..n /\ i - 1 = Cardinality(B[m])
    BY <1>1
  <2>. HIDE DEF i
  <2>2. s[i] \in S /\ Cardinality(B[s[i]]) = Cardinality(B[m])
    BY <1>2, <2>1
  <2>3. s[i] \notin B[m] /\ m \notin B[s[i]]
    BY <1>1, <2>2
  <2>. QED BY <2>1, <2>2, <2>3 DEF Ranks
<1>5. \A i, j \in 1..n : i < j => s[i] \in B[s[j]]
  BY <1>1, <1>2
<1>. QED BY <1>1, <1>3, <1>4, <1>5 DEF n

LEMMA ToldCount == \A S : Told!Cardinality(S) = Cardinality(S)
  BY Zenon DEF Told!Cardinality, Cardinality

\* Ascending lists a finite set of messages, each before the later ones.
LEMMA AscendingOrders ==
  ASSUME NEW S \in SUBSET Int, IsFiniteSet(S)
  PROVE  /\ Cardinality(S) \in Nat /\ Told!Ascending(S) \in [1..Cardinality(S) -> S]
         /\ \A m \in S : \E i \in 1..Cardinality(S) : Told!Ascending(S)[i] = m
         /\ \A i, j \in 1..Cardinality(S) : i < j => Told!Ascending(S)[i] < Told!Ascending(S)[j]
<1>. DEFINE B == [m \in S |-> {k \in S : k < m}]
            s == Told!Ascending(S)
<1>1. /\ B \in [S -> SUBSET S]
      /\ \A m, k \in S : k \in B[m] <=> k < m
  OBVIOUS
<1>2. \A m \in S : Told!Older(m, S) = B[m]
  BY DEF Told!Older
<1>3. s = InPlace(S, B)
  <2>1. s = [i \in 1..Cardinality(S) |-> CHOOSE m \in S : Cardinality(Told!Older(m, S)) = i - 1]
    BY ToldCount DEF Told!Ascending
  <2>. HIDE DEF B, s
  <2>2. ASSUME NEW i
        PROVE  (CHOOSE m \in S : Cardinality(Told!Older(m, S)) = i - 1)
               = (CHOOSE m \in S : Cardinality(B[m]) = i - 1)
    BY <1>2
  <2>. QED BY <2>1, <2>2 DEF InPlace
<1>. HIDE DEF B, s
<1>4. Ranks(S, B)
  <2>1. \A m \in S : m \notin B[m]
    BY <1>1
  <2>2. \A m, k \in S : m = k \/ k \in B[m] \/ m \in B[k]
    BY <1>1
  <2>3. ASSUME NEW m \in S, NEW k \in B[m], NEW j \in B[k] PROVE j \in B[m]
    <3>1. k \in S /\ j \in S
      BY <1>1
    <3>. QED BY <1>1, <3>1
  <2>. QED BY <1>1, <2>1, <2>2, <2>3 DEF Ranks
<1>5. /\ Cardinality(S) \in Nat /\ s \in [1..Cardinality(S) -> S]
      /\ \A m \in S : \E i \in 1..Cardinality(S) : s[i] = m
      /\ \A i, j \in 1..Cardinality(S) : i < j => s[i] \in B[s[j]]
  BY <1>1, <1>3, <1>4, InPlaceOrders
<1>6. \A i, j \in 1..Cardinality(S) : i < j => s[i] < s[j]
  BY <1>1, <1>5
<1>. QED BY <1>5, <1>6 DEF s

\* Descending lists it the other way round.
LEMMA DescendingOrders ==
  ASSUME NEW S \in SUBSET Int, IsFiniteSet(S)
  PROVE  /\ Cardinality(S) \in Nat /\ Told!Descending(S) \in [1..Cardinality(S) -> S]
         /\ \A m \in S : \E i \in 1..Cardinality(S) : Told!Descending(S)[i] = m
         /\ \A i, j \in 1..Cardinality(S) : i < j => Told!Descending(S)[j] < Told!Descending(S)[i]
<1>. DEFINE B == [m \in S |-> {k \in S : k > m}]
            s == Told!Descending(S)
<1>1. /\ B \in [S -> SUBSET S]
      /\ \A m, k \in S : k \in B[m] <=> k > m
  OBVIOUS
<1>2. \A m \in S : Told!Newer(m, S) = B[m]
  BY DEF Told!Newer
<1>3. s = InPlace(S, B)
  <2>1. s = [i \in 1..Cardinality(S) |-> CHOOSE m \in S : Cardinality(Told!Newer(m, S)) = i - 1]
    BY ToldCount DEF Told!Descending
  <2>. HIDE DEF B, s
  <2>2. ASSUME NEW i
        PROVE  (CHOOSE m \in S : Cardinality(Told!Newer(m, S)) = i - 1)
               = (CHOOSE m \in S : Cardinality(B[m]) = i - 1)
    BY <1>2
  <2>. QED BY <2>1, <2>2 DEF InPlace
<1>. HIDE DEF B, s
<1>4. Ranks(S, B)
  <2>1. \A m \in S : m \notin B[m]
    BY <1>1
  <2>2. \A m, k \in S : m = k \/ k \in B[m] \/ m \in B[k]
    BY <1>1
  <2>3. ASSUME NEW m \in S, NEW k \in B[m], NEW j \in B[k] PROVE j \in B[m]
    <3>1. k \in S /\ j \in S
      BY <1>1
    <3>. QED BY <1>1, <3>1
  <2>. QED BY <1>1, <2>1, <2>2, <2>3 DEF Ranks
<1>5. /\ Cardinality(S) \in Nat /\ s \in [1..Cardinality(S) -> S]
      /\ \A m \in S : \E i \in 1..Cardinality(S) : s[i] = m
      /\ \A i, j \in 1..Cardinality(S) : i < j => s[i] \in B[s[j]]
  BY <1>1, <1>3, <1>4, InPlaceOrders
<1>6. \A i, j \in 1..Cardinality(S) : i < j => s[j] < s[i]
  BY <1>1, <1>5
<1>. QED BY <1>5, <1>6 DEF s

-----------------------------------------------------------------------------
(* Conversations: what is told of them                                      *)

MailShapes == [thread : Threads, unread : BOOLEAN, there : BOOLEAN]

LEMMA MessagesAreFinite ==
  ASSUME mails \in Seq(MailShapes), NEW t
  PROVE  /\ Told!Arrived \in SUBSET Nat /\ Told!Arrived = 1..Len(mails)
         /\ Told!There \in SUBSET Told!Arrived
         /\ Told!Of(t) \in SUBSET Told!There
         /\ IsFiniteSet(Told!Arrived) /\ IsFiniteSet(Told!There) /\ IsFiniteSet(Told!Of(t))
<1>1. Told!Arrived = 1..Len(mails) /\ Len(mails) \in Nat
  BY DEF Told!Arrived
<1>2. IsFiniteSet(Told!Arrived)
  BY <1>1, FS_Interval
<1>3. Told!There \in SUBSET Told!Arrived /\ Told!Of(t) \in SUBSET Told!There
  BY DEF Told!There, Told!Of
<1>4. IsFiniteSet(Told!There)
  BY <1>2, <1>3, FS_Subset
<1>5. IsFiniteSet(Told!Of(t))
  BY <1>3, <1>4, FS_Subset
<1>6. Told!Arrived \in SUBSET Nat
  BY <1>1
<1>. QED BY <1>1, <1>2, <1>3, <1>4, <1>5, <1>6

\* All messages in the order of their dates.
LEMMA TellsAll ==
  ASSUME NEW S \in SUBSET Int, IsFiniteSet(S), S # {}, NEW t, NEW known,
         NEW s, s = Told!Told(t, Told!Ascending(S), known)
  PROVE  /\ s.thread = t /\ s.messages = S /\ s.known = known
         /\ s.first \in S /\ s.last \in S
         /\ Told!Oldest(s) /\ Told!Latest(s)
<1>. DEFINE seq == Told!Ascending(S)
            n == Cardinality(S)
<1>1. /\ n \in Nat /\ seq \in [1..n -> S]
      /\ \A m \in S : \E i \in 1..n : seq[i] = m
      /\ \A i, j \in 1..n : i < j => seq[i] < seq[j]
  BY AscendingOrders
<1>. HIDE DEF seq, n
<1>2. n # 0
  <2>1. PICK m : m \in S
    OBVIOUS
  <2>2. PICK i \in 1..n : seq[i] = m
    BY <1>1, <2>1
  <2>. QED BY <1>1, <2>2
<1>3. Len(seq) = n
  BY <1>1
<1>4. Told!ToSet(seq) = S
  BY <1>1 DEF Told!ToSet
<1>5. /\ s.thread = t /\ s.messages = S /\ s.known = known
      /\ s.first = seq[1] /\ s.last = seq[n]
  BY <1>3, <1>4 DEF Told!Told, seq
<1>6. ASSUME NEW m \in S PROVE seq[1] <= m /\ m <= seq[n]
  <2>1. PICK i \in 1..n : seq[i] = m
    BY <1>1
  <2>2. 1 \in 1..n /\ n \in 1..n /\ (i = 1 \/ 1 < i) /\ (i = n \/ i < n)
    BY <1>1, <1>2
  <2>3. seq[1] \in Int /\ seq[n] \in Int /\ m \in Int
    BY <1>1, <2>2
  <2>. QED BY <1>1, <2>1, <2>2, <2>3
<1>7. seq[1] \in S /\ seq[n] \in S
  BY <1>1, <1>2
<1>. QED BY <1>5, <1>6, <1>7 DEF Told!Oldest, Told!Latest

\* The first page of them: the oldest ones, and all of them unless the page is full.
LEMMA TellsPage ==
  ASSUME NEW S \in SUBSET Int, IsFiniteSet(S), NEW limit \in Nat \ {0}, NEW t, NEW known,
         NEW s, s = Told!GraphTold(t, Told!FirstOf(Told!Ascending(S), limit), known)
  PROVE  /\ s.thread = t /\ s.messages \in SUBSET S /\ s.known \in {known, {}}
         /\ Told!Oldest(s) /\ Told!Latest(s)
         /\ s.messages = S \/ Cardinality(s.messages) = limit
<1>. DEFINE seq == Told!Ascending(S)
            n == Cardinality(S)
            L == IF n < limit THEN n ELSE limit
            page == Told!FirstOf(seq, limit)
<1>1. /\ n \in Nat /\ seq \in [1..n -> S]
      /\ \A m \in S : \E i \in 1..n : seq[i] = m
      /\ \A i, j \in 1..n : i < j => seq[i] < seq[j]
  BY AscendingOrders
<1>2. s = Told!GraphTold(t, page, known)
  OBVIOUS
<1>. HIDE DEF seq, n
<1>3. Len(seq) = n /\ seq \in Seq(S)
  BY <1>1
<1>4. L \in Nat /\ L <= n /\ L <= limit /\ (L = n \/ L = limit)
  BY <1>1
<1>5. page = SubSeq(seq, 1, L)
  BY <1>3 DEF Told!FirstOf
<1>. HIDE DEF page, L
<1>6. page = [i \in 1..L |-> seq[i]]
  BY <1>1, <1>3, <1>4, <1>5
<1>7. page \in Seq(S) /\ Len(page) = L /\ \A i \in 1..L : page[i] = seq[i] /\ seq[i] \in S
  BY <1>1, <1>4, <1>6
<1>8. CASE L = 0
  <2>1. page = <<>> /\ n = 0
    BY <1>4, <1>7, <1>8
  <2>2. S = {}
    BY <1>1, <2>1
  <2>3. s = Told!ToldEmpty(t)
    BY <1>2, <2>1 DEF Told!GraphTold
  <2>. QED BY <2>2, <2>3 DEF Told!ToldEmpty, Told!Oldest, Told!Latest
<1>9. CASE L # 0
  <2>1. page # <<>>
    BY <1>7, <1>9
  <2>2. s = Told!Told(t, page, known)
    BY <1>2, <2>1 DEF Told!GraphTold
  <2>. DEFINE ms == {seq[i] : i \in 1..L}
  <2>3. Told!ToSet(page) = ms
    BY <1>4, <1>7 DEF Told!ToSet
  <2>4. /\ s.thread = t /\ s.messages = ms /\ s.known = known
        /\ s.first = seq[1] /\ s.last = seq[L]
    BY <1>4, <1>7, <1>9, <2>2, <2>3 DEF Told!Told
  <2>5. ASSUME NEW i \in 1..L PROVE seq[1] <= seq[i] /\ seq[i] <= seq[L]
    <3>1. 1 \in 1..n /\ L \in 1..n /\ i \in 1..n /\ (i = 1 \/ 1 < i) /\ (i = L \/ i < L)
      BY <1>1, <1>4, <1>9
    <3>2. seq[1] \in Int /\ seq[L] \in Int /\ seq[i] \in Int
      BY <1>1, <3>1
    <3>. QED BY <1>1, <3>1, <3>2
  <2>6. Told!Oldest(s) /\ Told!Latest(s)
    BY <2>4, <2>5 DEF Told!Oldest, Told!Latest
  <2>7. CASE L = n
    <3>1. ms = S
      BY <1>1, <1>7, <2>7
    <3>. HIDE DEF ms
    <3>. QED BY <2>4, <2>6, <3>1
  <2>8. CASE L = limit
    <3>1. page \in Bijection(1..L, ms)
      <4>1. page \in [1..L -> ms] /\ \A m \in ms : \E i \in 1..L : page[i] = m
        BY <1>6
      <4>2. ASSUME NEW i \in 1..L, NEW j \in 1..L, page[i] = page[j] PROVE i = j
        <5>1. i \in 1..n /\ j \in 1..n /\ (i < j \/ j < i \/ i = j)
          BY <1>1, <1>4
        <5>2. seq[i] \in Int /\ seq[j] \in Int /\ seq[i] = seq[j]
          BY <1>1, <1>7, <4>2, <5>1
        <5>. QED BY <1>1, <5>1, <5>2
      <4>. HIDE DEF ms
      <4>. QED BY <4>1, <4>2 DEF Bijection, Injection, Surjection, IsInjective
    <3>2. IsFiniteSet(1..L) /\ Cardinality(1..L) = L
      BY <1>4, <1>9, FS_Interval
    <3>3. Cardinality(ms) = L
      <4>. HIDE DEF ms
      <4>. QED BY <3>1, <3>2, FS_Bijection DEF ExistsBijection
    <3>4. ms \in SUBSET S
      BY <1>7
    <3>. HIDE DEF ms
    <3>. QED BY <2>4, <2>6, <2>8, <3>3, <3>4
  <2>. QED BY <1>4, <2>7, <2>8
<1>. QED BY <1>8, <1>9

\* A group of messages, the newest first.
LEMMA TellsGroup ==
  ASSUME NEW S \in SUBSET Int, IsFiniteSet(S), NEW t, NEW known,
         NEW s, s = Told!GraphTold(t, Told!Descending(S), known)
  PROVE  s.thread = t /\ s.messages = S /\ s.known \in {known, {}}
<1>. DEFINE seq == Told!Descending(S)
            n == Cardinality(S)
<1>1. /\ n \in Nat /\ seq \in [1..n -> S]
      /\ \A m \in S : \E i \in 1..n : seq[i] = m
      /\ \A i, j \in 1..n : i < j => seq[j] < seq[i]
  BY DescendingOrders
<1>2. s = Told!GraphTold(t, seq, known)
  OBVIOUS
<1>. HIDE DEF seq, n
<1>3. CASE n = 0
  <2>1. seq = <<>> /\ S = {}
    BY <1>1, <1>3
  <2>. QED BY <1>2, <2>1 DEF Told!GraphTold, Told!ToldEmpty
<1>4. CASE n # 0
  <2>1. seq # <<>>
    BY <1>1, <1>4
  <2>2. Told!ToSet(seq) = S
    BY <1>1 DEF Told!ToSet
  <2>. QED BY <1>2, <2>1, <2>2 DEF Told!GraphTold, Told!Told
<1>. QED BY <1>3, <1>4

-----------------------------------------------------------------------------
(* Conversations: every step                                                *)

\* What is true of an answer of each kind, and stays true while mail comes and goes.
WholeTold(s) ==
  s.known \in SUBSET Told!Arrived /\ Told!Oldest(s) /\ Told!Latest(s) /\ Told!Complete(s)
PageTold(s) ==
  /\ s.known \in SUBSET Told!Arrived /\ Told!Oldest(s) /\ Told!Latest(s)
  /\ Told!Complete(s) \/ Cardinality(s.messages) = GraphPage
GroupTold(s) == s.known \in SUBSET Told!Arrived /\ Told!Recent(s)

ListingInv ==
  /\ listing = [todo |-> listing.todo, done |-> listing.done,
                known |-> listing.known, open |-> listing.open]
  /\ listing.done \in Seq(Told!ToSet(listing.done))
  /\ listing.known \in SUBSET Told!Arrived
  /\ listing.open => provider = "GOOGLE"
  /\ \A s \in Told!ToSet(listing.done) : WholeTold(s)

AnswerInv ==
  /\ provider \in {"GOOGLE", "MICROSOFT"} /\ asked \in {"listing", "thread"}
  /\ provider = "GOOGLE" => \A s \in Told!ToSet(items) : WholeTold(s)
  /\ provider = "MICROSOFT" /\ asked = "thread" => \A s \in Told!ToSet(items) : PageTold(s)
  /\ provider = "MICROSOFT" /\ asked = "listing" => \A s \in Told!ToSet(items) : GroupTold(s)

ThreadsInv == mails \in Seq(MailShapes) /\ ListingInv /\ AnswerInv

LEMMA EmptyAnswer == Told!ToSet(<<>>) = {}
  BY DEF Told!ToSet

LEMMA OneAnswer == ASSUME NEW x PROVE Told!ToSet(<<x>>) = {x}
  BY DEF Told!ToSet

LEMMA AnswerAdded ==
  ASSUME NEW seq, seq \in Seq(Told!ToSet(seq)), NEW x
  PROVE  /\ Told!ToSet(Append(seq, x)) = Told!ToSet(seq) \union {x}
         /\ Append(seq, x) \in Seq(Told!ToSet(seq) \union {x})
<1>. DEFINE D == Told!ToSet(seq) \union {x}
<1>1. /\ Len(seq) \in Nat /\ DOMAIN seq = 1..Len(seq)
      /\ seq \in Seq(D)
  OBVIOUS
<1>2. Told!ToSet(seq) = {seq[i] : i \in 1..Len(seq)}
  BY <1>1 DEF Told!ToSet
<1>. HIDE DEF D
<1>3. x \in D
  BY DEF D
<1>4. Append(seq, x) \in Seq(D)
  BY <1>1, <1>3
<1>. DEFINE new == Append(seq, x)
<1>5. /\ DOMAIN new = 1..(Len(seq) + 1) /\ new[Len(seq) + 1] = x
      /\ \A i \in 1..Len(seq) : new[i] = seq[i]
  BY <1>1, <1>3
<1>. HIDE DEF new
<1>6. Told!ToSet(new) = {new[i] : i \in 1..(Len(seq) + 1)}
  BY <1>5 DEF Told!ToSet
<1>7. \A i \in 1..(Len(seq) + 1) : i \in 1..Len(seq) \/ i = Len(seq) + 1
  BY <1>1
<1>8. 1..Len(seq) \subseteq 1..(Len(seq) + 1) /\ Len(seq) + 1 \in 1..(Len(seq) + 1)
  BY <1>1
<1>9. Told!ToSet(new) = Told!ToSet(seq) \union {x}
  BY <1>2, <1>5, <1>6, <1>7, <1>8
<1>. QED BY <1>4, <1>9 DEF new, D

LEMMA InitThreads == Told!Init => ThreadsInv
<1>. SUFFICES ASSUME Told!Init PROVE ThreadsInv
  OBVIOUS
<1>1. mails \in Seq(MailShapes)
  BY DEF Told!Init
<1>2. ListingInv
  <2>1. listing = Told!NoListing
    BY DEF Told!Init
  <2>. QED BY <2>1, EmptyAnswer DEF ListingInv, Told!NoListing
<1>3. AnswerInv
  BY EmptyAnswer DEF AnswerInv, Told!Init
<1>. QED BY <1>1, <1>2, <1>3 DEF ThreadsInv

\* What arrives is new, and what is read or deleted was there.
MailsGoOn ==
  /\ mails' \in Seq(MailShapes)
  /\ Told!Arrived \subseteq Told!Arrived'
  /\ \A t, m : m \in Told!Arrived /\ m \in Told!Of(t)' => m \in Told!Of(t)

LEMMA StillTold ==
  ASSUME MailsGoOn, NEW s
  PROVE  /\ WholeTold(s) => WholeTold(s)'
         /\ PageTold(s) => PageTold(s)'
         /\ GroupTold(s) => GroupTold(s)'
<1>1. /\ Told!Oldest(s) => Told!Oldest(s)'
      /\ Told!Latest(s) => Told!Latest(s)'
  BY DEF Told!Oldest, Told!Latest
<1>2. s.known \in SUBSET Told!Arrived => s.known \in SUBSET Told!Arrived'
  BY DEF MailsGoOn
<1>3. s.known \in SUBSET Told!Arrived /\ Told!Complete(s) => Told!Complete(s)'
  BY DEF MailsGoOn, Told!Complete
<1>4. s.known \in SUBSET Told!Arrived /\ Told!Recent(s) => Told!Recent(s)'
  BY DEF MailsGoOn, Told!Recent
<1>. QED BY <1>1, <1>2, <1>3, <1>4 DEF WholeTold, PageTold, GroupTold

LEMMA ArrivesGoesOn ==
  ASSUME mails \in Seq(MailShapes), NEW t \in Threads, Told!Arrives(t)
  PROVE  MailsGoOn
<1>. DEFINE new == [thread |-> t, unread |-> TRUE, there |-> TRUE]
            n == Len(mails)
<1>1. mails' = Append(mails, new)
  BY DEF Told!Arrives
<1>2. new \in MailShapes
  BY DEF MailShapes
<1>. HIDE DEF new
<1>3. /\ mails' \in Seq(MailShapes) /\ n \in Nat
      /\ DOMAIN mails = 1..n /\ DOMAIN mails' = 1..(n + 1)
      /\ \A m \in 1..n : mails'[m] = mails[m]
  BY <1>1, <1>2
<1>. HIDE DEF n
<1>4. 1..n \subseteq 1..(n + 1)
  BY <1>3
<1>5. ASSUME NEW u, NEW m \in Told!Arrived, m \in Told!Of(u)' PROVE m \in Told!Of(u)
  BY <1>3, <1>5 DEF Told!Of, Told!There, Told!Arrived
<1>. QED BY <1>3, <1>4, <1>5 DEF MailsGoOn, Told!Arrived

LEMMA OwnerGoesOn ==
  ASSUME mails \in Seq(MailShapes), NEW m \in Told!Arrived,
         Told!OwnerReads(m) \/ Told!OwnerDeletes(m)
  PROVE  MailsGoOn
<1>1. m \in DOMAIN mails /\ mails[m] \in MailShapes
  BY DEF Told!Arrived
<1>2. PICK x \in MailShapes :
        /\ mails' = [mails EXCEPT ![m] = x]
        /\ x.thread = mails[m].thread /\ (x.there => mails[m].there)
  <2>1. CASE Told!OwnerReads(m)
    <3>1. mails' = [mails EXCEPT ![m] = [mails[m] EXCEPT !.unread = FALSE]]
      BY <2>1 DEF Told!OwnerReads
    <3>. QED BY <1>1, <3>1 DEF MailShapes
  <2>2. CASE Told!OwnerDeletes(m)
    <3>1. mails' = [mails EXCEPT ![m] = [mails[m] EXCEPT !.there = FALSE]]
      BY <2>2 DEF Told!OwnerDeletes
    <3>. QED BY <1>1, <3>1 DEF MailShapes
  <2>. QED BY <2>1, <2>2
<1>3. /\ mails' \in Seq(MailShapes) /\ DOMAIN mails' = DOMAIN mails
      /\ mails'[m] = x /\ \A k \in DOMAIN mails : k # m => mails'[k] = mails[k]
  BY <1>1, <1>2
<1>4. ASSUME NEW u, NEW k \in Told!Arrived, k \in Told!Of(u)' PROVE k \in Told!Of(u)
  BY <1>1, <1>2, <1>3, <1>4 DEF Told!Of, Told!There, Told!Arrived
<1>. QED BY <1>3, <1>4 DEF MailsGoOn, Told!Arrived

LEMMA MailStepInv ==
  ASSUME ThreadsInv, MailsGoOn, UNCHANGED <<provider, listing, asked, items>>
  PROVE  ThreadsInv'
<1>1. ListingInv'
  <2>1. \A s \in Told!ToSet(listing.done) : WholeTold(s)'
    BY StillTold DEF ThreadsInv, ListingInv
  <2>2. listing.known \in SUBSET Told!Arrived'
    BY DEF ThreadsInv, ListingInv, MailsGoOn
  <2>3. Told!ToSet(listing.done)' = Told!ToSet(listing.done)
    BY DEF Told!ToSet
  <2>. QED BY <2>1, <2>2, <2>3 DEF ThreadsInv, ListingInv
<1>2. AnswerInv'
  <2>1. Told!ToSet(items)' = Told!ToSet(items)
    BY DEF Told!ToSet
  <2>. QED BY <2>1, StillTold DEF ThreadsInv, AnswerInv
<1>. QED BY <1>1, <1>2 DEF ThreadsInv, MailsGoOn

\* What is told while the mailbox stands still.
LEMMA ToldWhole ==
  ASSUME mails \in Seq(MailShapes), NEW t, Told!Of(t) # {},
         NEW known, known \in SUBSET Told!Arrived, NEW s,
         s = Told!Told(t, Told!Ascending(Told!Of(t)), known)
  PROVE  WholeTold(s)
<1>1. /\ Told!Of(t) \in SUBSET Int /\ IsFiniteSet(Told!Of(t))
  BY MessagesAreFinite
<1>2. /\ s.thread = t /\ s.messages = Told!Of(t) /\ s.known = known
      /\ Told!Oldest(s) /\ Told!Latest(s)
  BY <1>1, TellsAll
<1>. QED BY <1>2 DEF WholeTold, Told!Complete

LEMMA ToldPage ==
  ASSUME mails \in Seq(MailShapes), NEW t, NEW s,
         s = Told!GraphTold(t, Told!FirstOf(Told!Ascending(Told!Of(t)), GraphPage), Told!Of(t))
  PROVE  PageTold(s)
<1>1. /\ Told!Of(t) \in SUBSET Int /\ IsFiniteSet(Told!Of(t))
      /\ Told!Of(t) \in SUBSET Told!Arrived
  BY MessagesAreFinite
<1>2. GraphPage \in Nat \ {0}
  BY PagesAssumption
<1>3. /\ s.thread = t /\ s.known \in {Told!Of(t), {}}
      /\ Told!Oldest(s) /\ Told!Latest(s)
      /\ s.messages = Told!Of(t) \/ Cardinality(s.messages) = GraphPage
  BY <1>1, <1>2, TellsPage
<1>. QED BY <1>1, <1>3 DEF PageTold, Told!Complete

LEMMA ToldGroups ==
  ASSUME mails \in Seq(MailShapes), NEW onlyUnread, NEW page,
         page = Told!FirstOf(Told!Descending(Told!GraphMatching(onlyUnread)), MaxListed),
         NEW s \in Told!ToSet(Told!Grouped(page))
  PROVE  GroupTold(s)
<1>. DEFINE S == Told!There
            seq == Told!Descending(S)
            n == Cardinality(S)
            L == IF n < MaxListed THEN n ELSE MaxListed
<1>1. S \in SUBSET Int /\ IsFiniteSet(S)
  BY MessagesAreFinite
<1>2. /\ n \in Nat /\ seq \in [1..n -> S]
      /\ \A m \in S : \E i \in 1..n : seq[i] = m
      /\ \A i, j \in 1..n : i < j => seq[j] < seq[i]
  BY <1>1, DescendingOrders
<1>3. page = Told!FirstOf(seq, MaxListed)
  BY DEF Told!GraphMatching
<1>0. /\ S \in SUBSET Told!Arrived
      /\ \A u, m : m \in Told!Of(u) => m \in S /\ mails[m].thread = u
  BY DEF Told!There, Told!Of
<1>. HIDE DEF S, seq, n
<1>4. L \in Nat /\ L <= n
  BY <1>2, PagesAssumption
<1>5. page = SubSeq(seq, 1, L)
  <2>1. Len(seq) = n
    BY <1>2
  <2>. QED BY <1>3, <2>1 DEF Told!FirstOf
<1>. HIDE DEF L
<1>6. page = [i \in 1..L |-> seq[i]]
  BY <1>2, <1>4, <1>5
<1>7. Told!ToSet(page) = {seq[i] : i \in 1..L} /\ Told!ToSet(page) \in SUBSET S
  BY <1>2, <1>4, <1>6 DEF Told!ToSet
\* What is not on the page comes after it.
<1>70. ASSUME NEW m \in S \ Told!ToSet(page), NEW k \in Told!ToSet(page) PROVE m < k
  <2>1. PICK i \in 1..n : seq[i] = m
    BY <1>2
  <2>2. PICK j \in 1..L : seq[j] = k
    BY <1>7
  <2>3. i \notin 1..L
    BY <1>7, <2>1
  <2>4. j < i /\ j \in 1..n
    BY <1>2, <1>4, <2>3
  <2>. QED BY <1>2, <2>1, <2>2, <2>4
<1>8. PICK t : s = Told!GraphTold(t, Told!Descending({m \in Told!ToSet(page) : mails[m].thread = t}), Told!There)
  BY DEF Told!ToSet, Told!Grouped
<1>. DEFINE group == {m \in Told!ToSet(page) : mails[m].thread = t}
<1>9. group \in SUBSET S
  BY <1>7
<1>10. group \in SUBSET Int /\ IsFiniteSet(group)
  <2>. HIDE DEF group
  <2>. QED BY <1>1, <1>9, FS_Subset
<1>11. s = Told!GraphTold(t, Told!Descending(group), Told!There)
  BY <1>8
<1>12. \A m \in S \ group : mails[m].thread = t => m \notin Told!ToSet(page)
  OBVIOUS
<1>13. group \in SUBSET Told!ToSet(page)
  OBVIOUS
<1>. HIDE DEF group
<1>14. s.thread = t /\ s.messages = group /\ s.known \in {Told!There, {}}
  BY <1>10, <1>11, TellsGroup
<1>15. s.known \in SUBSET S
  BY <1>14 DEF S
<1>16. ASSUME NEW m \in (s.known \intersect Told!Of(t)) \ group, NEW k \in group PROVE m < k
  BY <1>0, <1>12, <1>13, <1>15, <1>16, <1>70
<1>. QED BY <1>0, <1>14, <1>15, <1>16 DEF GroupTold, Told!Recent

\* Steps that leave the mailbox as it is.
LEMMA ListingStays ==
  ASSUME ListingInv, UNCHANGED <<provider, mails, listing>>
  PROVE  ListingInv'
  BY DEF ListingInv, WholeTold, Told!Oldest, Told!Latest, Told!Complete, Told!Of, Told!There,
         Told!Arrived, Told!ToSet

LEMMA WholeStays ==
  ASSUME UNCHANGED mails, NEW s
  PROVE  (WholeTold(s)' <=> WholeTold(s)) /\ (PageTold(s)' <=> PageTold(s))
         /\ (GroupTold(s)' <=> GroupTold(s))
  BY DEF WholeTold, PageTold, GroupTold, Told!Oldest, Told!Latest, Told!Complete, Told!Of,
         Told!There, Told!Arrived, Told!Recent

LEMMA GmailListsInv ==
  ASSUME ThreadsInv, NEW onlyUnread \in BOOLEAN, Told!GmailLists(onlyUnread)
  PROVE  ThreadsInv'
<1>1. PICK todo : listing' = [todo |-> todo, done |-> <<>>, known |-> Told!There, open |-> TRUE]
  BY DEF Told!GmailLists
<1>2. provider = "GOOGLE" /\ items' = <<>> /\ UNCHANGED <<provider, mails, asked>>
  BY DEF Told!GmailLists
<1>3. Told!There \in SUBSET Told!Arrived /\ Told!Arrived' = Told!Arrived
  BY <1>2 DEF Told!There, Told!Arrived
<1>4. Told!ToSet(<<>>)' = {}
  BY DEF Told!ToSet
<1>5. ListingInv'
  <2>1. listing'.done = <<>> /\ listing'.known = Told!There
    BY <1>1
  <2>2. Told!ToSet(listing.done)' = {}
    BY <2>1 DEF Told!ToSet
  <2>3. listing.done' \in Seq({})
    BY <2>1
  <2>. QED BY <1>1, <1>2, <1>3, <2>1, <2>2, <2>3 DEF ListingInv
<1>6. AnswerInv'
  <2>1. Told!ToSet(items)' = {}
    BY <1>2 DEF Told!ToSet
  <2>. QED BY <1>2, <2>1 DEF ThreadsInv, AnswerInv
<1>. QED BY <1>2, <1>5, <1>6 DEF ThreadsInv

LEMMA AnswerStays ==
  ASSUME AnswerInv, UNCHANGED <<provider, mails, asked, items>>
  PROVE  AnswerInv'
<1>1. Told!ToSet(items)' = Told!ToSet(items)
  BY DEF Told!ToSet
<1>. QED BY <1>1, WholeStays DEF AnswerInv

LEMMA ListingEnds ==
  ASSUME listing' = Told!NoListing
  PROVE  ListingInv'
<1>1. listing' = [todo |-> <<>>, done |-> <<>>, known |-> {}, open |-> FALSE]
  BY DEF Told!NoListing
<1>2. Told!ToSet(listing.done)' = {}
  BY <1>1 DEF Told!ToSet
<1>3. <<>> \in Seq({})
  OBVIOUS
<1>. QED BY <1>1, <1>2, <1>3 DEF ListingInv

LEMMA GmailReadsInv ==
  ASSUME ThreadsInv, Told!GmailReadsNext
  PROVE  ThreadsInv'
<1>. DEFINE t == Head(listing.todo)
            x == Told!Told(t, Told!Ascending(Told!Of(t)), listing.known)
<1>1. UNCHANGED <<provider, mails, asked, items>> /\ listing.open
  BY DEF Told!GmailReadsNext, Told!answer
<1>2. AnswerInv'
  BY <1>1, AnswerStays DEF ThreadsInv
<1>3. CASE Told!Of(t) = {}
  <2>1. listing' = Told!NoListing
    BY <1>3 DEF Told!GmailReadsNext
  <2>. QED BY <1>1, <1>2, <2>1, ListingEnds DEF ThreadsInv
<1>4. CASE Told!Of(t) # {}
  <2>. DEFINE new == Append(listing.done, x)
              D == Told!ToSet(listing.done)
  <2>1. listing' = [listing EXCEPT !.todo = Tail(listing.todo), !.done = new]
    BY <1>4 DEF Told!GmailReadsNext
  <2>2. listing.known \in SUBSET Told!Arrived
    BY DEF ThreadsInv, ListingInv
  <2>3. WholeTold(x)
    <3>. HIDE DEF t
    <3>1. \A s : s = x => WholeTold(s)
      BY <1>4, <2>2, ToldWhole DEF ThreadsInv
    <3>. QED BY <3>1
  <2>. HIDE DEF x, t
  <2>4. Told!ToSet(new) = D \union {x} /\ new \in Seq(D \union {x})
    BY AnswerAdded DEF ThreadsInv, ListingInv
  <2>. HIDE DEF new
  <2>5. /\ listing' = [todo |-> Tail(listing.todo), done |-> new,
                       known |-> listing.known, open |-> listing.open]
    BY <2>1 DEF ThreadsInv, ListingInv
  <2>6. Told!ToSet(listing.done)' = D \union {x}
    BY <2>4, <2>5 DEF Told!ToSet
  <2>7. \A s \in D \union {x} : WholeTold(s)'
    BY <1>1, <2>3, WholeStays DEF ThreadsInv, ListingInv
  <2>8. listing.known' \in SUBSET Told!Arrived'
    BY <1>1, <2>2, <2>5 DEF Told!Arrived
  <2>9. ListingInv'
    BY <1>1, <2>4, <2>5, <2>6, <2>7, <2>8 DEF ThreadsInv, ListingInv
  <2>. QED BY <1>1, <1>2, <2>9 DEF ThreadsInv
<1>. QED BY <1>3, <1>4

LEMMA GmailAnswersInv ==
  ASSUME ThreadsInv, Told!GmailAnswers
  PROVE  ThreadsInv'
<1>1. /\ asked' = "listing" /\ items' = listing.done /\ listing' = Told!NoListing
      /\ UNCHANGED <<provider, mails>> /\ provider = "GOOGLE"
  BY DEF Told!GmailAnswers, ThreadsInv, ListingInv
<1>2. Told!ToSet(items)' = Told!ToSet(listing.done)
  BY <1>1 DEF Told!ToSet
<1>3. \A s \in Told!ToSet(items)' : WholeTold(s)'
  BY <1>1, <1>2, WholeStays DEF ThreadsInv, ListingInv
<1>4. AnswerInv'
  BY <1>1, <1>3 DEF AnswerInv
<1>. QED BY <1>1, <1>4, ListingEnds DEF ThreadsInv

LEMMA GraphListsInv ==
  ASSUME ThreadsInv, NEW onlyUnread \in BOOLEAN, Told!GraphLists(onlyUnread)
  PROVE  ThreadsInv'
<1>. DEFINE page == Told!FirstOf(Told!Descending(Told!GraphMatching(onlyUnread)), MaxListed)
<1>1. /\ asked' = "listing" /\ items' = Told!Grouped(page)
      /\ UNCHANGED <<provider, mails, listing>> /\ provider = "MICROSOFT"
  BY DEF Told!GraphLists
<1>2. \A p : p = page => \A s \in Told!ToSet(Told!Grouped(p)) : GroupTold(s)
  BY ToldGroups DEF ThreadsInv
<1>. HIDE DEF page
<1>3. Told!ToSet(items)' = Told!ToSet(Told!Grouped(page))
  BY <1>1 DEF Told!ToSet
<1>4. \A s \in Told!ToSet(items)' : GroupTold(s)'
  BY <1>1, <1>2, <1>3, WholeStays
<1>5. AnswerInv'
  BY <1>1, <1>4 DEF AnswerInv
<1>. QED BY <1>1, <1>5, ListingStays DEF ThreadsInv

LEMMA OpensInv ==
  ASSUME ThreadsInv, NEW t \in Threads, Told!GmailOpens(t) \/ Told!GraphOpens(t)
  PROVE  ThreadsInv'
<1>1. asked' = "thread" /\ UNCHANGED <<provider, mails, listing>>
  BY DEF Told!GmailOpens, Told!GraphOpens
<1>2. AnswerInv'
  <2>1. CASE Told!GmailOpens(t)
    <3>. DEFINE x == Told!Told(t, Told!Ascending(Told!Of(t)), Told!Of(t))
    <3>1. provider = "GOOGLE" /\ Told!Of(t) # {} /\ items' = <<x>>
      BY <2>1 DEF Told!GmailOpens
    <3>2. Told!Of(t) \in SUBSET Told!Arrived
      BY DEF Told!Of, Told!There
    <3>3. \A s : s = x => WholeTold(s)
      BY <3>1, <3>2, ToldWhole DEF ThreadsInv
    <3>. HIDE DEF x
    <3>4. Told!ToSet(items)' = {x}
      BY <3>1 DEF Told!ToSet
    <3>5. \A s \in Told!ToSet(items)' : WholeTold(s)'
      BY <1>1, <3>3, <3>4, WholeStays
    <3>. QED BY <1>1, <3>1, <3>5 DEF AnswerInv
  <2>2. CASE Told!GraphOpens(t)
    <3>. DEFINE x == Told!GraphTold(t, Told!FirstOf(Told!Ascending(Told!Of(t)), GraphPage), Told!Of(t))
    <3>1. provider = "MICROSOFT" /\ items' = <<x>>
      BY <2>2 DEF Told!GraphOpens
    <3>2. \A s : s = x => PageTold(s)
      BY ToldPage DEF ThreadsInv
    <3>. HIDE DEF x
    <3>3. Told!ToSet(items)' = {x}
      BY <3>1 DEF Told!ToSet
    <3>4. \A s \in Told!ToSet(items)' : PageTold(s)'
      BY <1>1, <3>2, <3>3, WholeStays
    <3>. QED BY <1>1, <3>1, <3>4 DEF AnswerInv
  <2>. QED BY <2>1, <2>2
<1>. QED BY <1>1, <1>2, ListingStays DEF ThreadsInv

LEMMA ThreadsStepInv == ThreadsInv /\ [Told!Next]_(Told!vars) => ThreadsInv'
<1>. SUFFICES ASSUME ThreadsInv, [Told!Next]_(Told!vars) PROVE ThreadsInv'
  OBVIOUS
<1>1. ASSUME NEW t \in Threads, Told!Arrives(t) PROVE ThreadsInv'
  <2>1. UNCHANGED <<provider, listing, asked, items>>
    BY <1>1 DEF Told!Arrives, Told!answer
  <2>. QED BY <1>1, <2>1, ArrivesGoesOn, MailStepInv DEF ThreadsInv
<1>2. ASSUME NEW m \in Told!Arrived, Told!OwnerReads(m) \/ Told!OwnerDeletes(m) PROVE ThreadsInv'
  <2>1. UNCHANGED <<provider, listing, asked, items>>
    BY <1>2 DEF Told!OwnerReads, Told!OwnerDeletes, Told!answer
  <2>. QED BY <1>2, <2>1, OwnerGoesOn, MailStepInv DEF ThreadsInv
<1>3. CASE UNCHANGED Told!vars
  BY <1>3, ListingStays, AnswerStays DEF Told!vars, ThreadsInv
<1>4. CASE Told!Next
  BY <1>1, <1>2, <1>4, GmailListsInv, GmailReadsInv, GmailAnswersInv, GraphListsInv, OpensInv
  DEF Told!Next
<1>. QED BY <1>3, <1>4

LEMMA ThreadsInvTells == ThreadsInv => Told!ThreadsAreTold
<1>. SUFFICES ASSUME ThreadsInv, NEW s \in Told!ToSet(items)
     PROVE  CASE provider = "GOOGLE" -> Told!Oldest(s) /\ Told!Latest(s) /\ Told!Complete(s)
              [] provider = "MICROSOFT" /\ asked = "thread" ->
                   /\ Told!Oldest(s) /\ Told!Latest(s)
                   /\ Told!Complete(s) \/ Told!Cardinality(s.messages) = GraphPage
              [] OTHER -> Told!Recent(s)
  BY DEF Told!ThreadsAreTold
<1>1. CASE provider = "GOOGLE"
  BY <1>1 DEF ThreadsInv, AnswerInv, WholeTold
<1>2. CASE provider = "MICROSOFT" /\ asked = "thread"
  <2>1. PageTold(s)
    BY <1>2 DEF ThreadsInv, AnswerInv
  <2>. QED BY <1>2, <2>1, ToldCount DEF PageTold
<1>3. CASE provider = "MICROSOFT" /\ asked = "listing"
  <2>1. GroupTold(s)
    BY <1>3 DEF ThreadsInv, AnswerInv
  <2>. QED BY <1>3, <2>1 DEF GroupTold
<1>. QED BY <1>1, <1>2, <1>3 DEF ThreadsInv, AnswerInv

-----------------------------------------------------------------------------
(* The account                                                             *)

\* The three adapters share the account's provider, which no step changes.
LEMMA ToldKeepsProvider == Told!Next => UNCHANGED provider
  BY DEF Told!Next, Told!Arrives, Told!OwnerReads, Told!OwnerDeletes, Told!GmailLists,
         Told!GmailReadsNext, Told!GmailAnswers, Told!GraphLists, Told!GmailOpens, Told!GraphOpens

LEMMA MailKeepsProvider == MailboxInv /\ Next => UNCHANGED provider
<1>. SUFFICES ASSUME Next PROVE UNCHANGED provider
  OBVIOUS
<1>1. CASE CreateDraft \/ \E i \in Ids : OwnerEdits(i) \/ DeleteDraft(i) \/ GraphPatchesDraft(i)
  BY <1>1 DEF CreateDraft, OwnerEdits, DeleteDraft, GraphPatchesDraft
<1>2. ASSUME NEW c \in Drafting, Draft(c) PROVE UNCHANGED provider
  BY <1>2 DEF Draft, GmailReadsDraft, BeginSend, GmailWritesDraft, UpdateFails, SendDraft,
         SendUnknownDraft, LookForSent, MarkExecuted, SendFails
<1>3. ASSUME NEW c \in Batches, Bulk(c) PROVE UNCHANGED provider
  BY <1>3 DEF Bulk, BeginBulk, RepeatBulk, ApplyLabels, BulkFails, TrashOne, TrashFails,
         SetReadStatus, Move, NoSuchMessage
<1>. QED BY <1>1, <1>2, <1>3 DEF Next

AccountInv == MailboxInv /\ CalendarInv

LEMMA AccountStep ==
  ASSUME AccountInv, [AdaptersNext]_account
  PROVE  [Next]_vars /\ [Cal!Next]_(Cal!vars) /\ AccountInv'
<1>1. CASE MailStep
  <2>1. Next /\ UNCHANGED events /\ UNCHANGED provider
    BY <1>1, MailKeepsProvider DEF MailStep, AccountInv
  <2>2. UNCHANGED Cal!vars
    BY <2>1 DEF events, Cal!vars
  <2>3. CalendarInv'
    BY <2>1 DEF AccountInv, CalendarInv, EventsInv, EventCallsInv, SearchInv, SearchDue, events
  <2>. QED BY <2>1, <2>2, <2>3, MailboxStep DEF AccountInv
<1>2. CASE CalendarStep
  <2>1. Cal!Next /\ UNCHANGED <<box, call, log, had, edits, unwritten, faults>>
    BY <1>2 DEF CalendarStep
  <2>2. CalendarInv' /\ UNCHANGED provider
    BY <2>1, CalendarNext DEF AccountInv
  <2>3. UNCHANGED vars
    BY <2>1, <2>2 DEF vars
  <2>. QED BY <2>1, <2>2, <2>3, MailboxStep DEF AccountInv
<1>3. CASE ThreadsStep \/ UNCHANGED account
  <2>1. UNCHANGED vars /\ UNCHANGED events
    BY <1>3, ToldKeepsProvider DEF ThreadsStep, account, vars, events
  <2>2. UNCHANGED Cal!vars
    BY <2>1 DEF vars, events, Cal!vars
  <2>3. CalendarInv'
    BY <2>1 DEF AccountInv, CalendarInv, EventsInv, EventCallsInv, SearchInv, SearchDue, events, vars
  <2>. QED BY <2>1, <2>2, <2>3, MailboxStep DEF AccountInv
<1>. QED BY <1>1, <1>2, <1>3 DEF AdaptersNext

LEMMA InitAccount == AdaptersInit => AccountInv
  BY InitMailInv, InitCallInv, InitDue, InitCalendar DEF AdaptersInit, AccountInv, MailboxInv

LEMMA AccountAlways == AdaptersSpec => []AccountInv
<1>1. AccountInv /\ [AdaptersNext]_account => AccountInv'
  BY AccountStep
<1>. QED BY <1>1, InitAccount, PTL DEF AdaptersSpec

LEMMA ThreadsAlways == AdaptersSpec => []ThreadsInv
<1>1. AdaptersInit => ThreadsInv
  BY InitThreads DEF AdaptersInit
<1>2. ASSUME AccountInv, [AdaptersNext]_account PROVE [Told!Next]_(Told!vars)
  <2>1. CASE ThreadsStep
    BY <2>1 DEF ThreadsStep
  <2>2. CASE MailStep \/ CalendarStep \/ UNCHANGED account
    <3>1. UNCHANGED <<provider, threads>>
      <4>1. CASE MailStep
        BY <1>2, <4>1, MailKeepsProvider DEF MailStep, AccountInv
      <4>2. CASE CalendarStep
        BY <1>2, <4>2, CalendarNext DEF CalendarStep, AccountInv
      <4>3. CASE UNCHANGED account
        BY <4>3 DEF account, vars
      <4>. QED BY <2>2, <4>1, <4>2, <4>3
    <3>. QED BY <3>1 DEF threads, Told!vars
  <2>. QED BY <1>2, <2>1, <2>2 DEF AdaptersNext
<1>3. AccountInv /\ ThreadsInv /\ [AdaptersNext]_account => ThreadsInv'
  BY <1>2, ThreadsStepInv
<1>. QED BY <1>1, <1>3, AccountAlways, PTL DEF AdaptersSpec

\* However often the send route is called again after a failure, whoever else sends, edits,
\* moves or deletes the draft, and whatever fails before or after the delivery: no draft is
\* delivered twice (the send route of routes/index.ts with sendDraft of both adapters).
THEOREM DraftsLeaveOnce == AdaptersSpec => []DraftLeavesOnce
<1>1. AccountInv => DraftLeavesOnce
  BY DEF AccountInv, MailboxInv, MailInv
<1>. QED BY <1>1, AccountAlways, PTL

\* The message in the answer of sendDraft is the one that was sent, except that Graph's
\* adapter may name another one where someone else sent or moved in between; and a call for
\* many messages that reports success, also the repetition of one that stopped in the
\* middle, has given each of their mails its due (sendDraft, applyLabels, setReadStatus,
\* archiveMessages and trashMessages of both adapters).
THEOREM AnswersHold == AdaptersSpec => []AnswersAreTrue
<1>1. AccountInv => AnswersAreTrue
  <2>. SUFFICES ASSUME AccountInv PROVE AnswerNamesSent /\ OkMeansDone
    BY DEF AnswersAreTrue
  <2>1. \A c \in Calls : BulkDue(c) /\ SendDue(c)
    BY DEF AccountInv, MailboxInv, DueInv, Due
  <2>2. AnswerNamesSent
    BY <2>1 DEF AnswerNamesSent, SendDue, Calls
  <2>3. OkMeansDone
    BY <2>1 DEF OkMeansDone, BulkDue, Calls
  <2>. QED BY <2>2, <2>3
<1>. QED BY <1>1, AccountAlways, PTL

\* Whatever is busy and however busy times overlap, contain or touch each other: a
\* suggested time is free, of the right length and in the window, and whenever a meeting
\* fits, a suggestion begins then or earlier (findAvailableTimes of calendar.adapter.ts;
\* of graph-calendar.adapter.ts, which leaves the choice to Graph, the first half).
THEOREM SuggestionsHold == AdaptersSpec => []SuggestionsAreSound
<1>1. AccountInv => SuggestionsAreSound
  BY SearchesAreSound DEF AccountInv
<1>. QED BY <1>1, AccountAlways, PTL

\* What an update of a draft or of an event, or an answer to an invitation, does not name
\* stays as it is, or is set back by no more than what came after the call began: of a
\* draft the subject and the body, of an event the title and the place, and everyone
\* else's answer (updateDraft of the Gmail adapter, which loses the attachments and the
\* thread, updateEvent and respondToEvent of both).
THEOREM EditsStayLocal == AdaptersSpec => EditsAreLocal
<1>1. AccountInv /\ [AdaptersNext]_account => [UpdateKeeps]_vars
  BY AccountStep, UpdatesKeep DEF AccountInv
<1>2. AccountInv /\ [AdaptersNext]_account => [EventKeeps]_(Cal!vars)
  BY AccountStep, EventsKeep DEF AccountInv
<1>3. AdaptersSpec => [][UpdateKeeps]_vars
  BY <1>1, AccountAlways, PTL DEF AdaptersSpec
<1>4. AdaptersSpec => [][EventKeeps]_(Cal!vars)
  BY <1>2, AccountAlways, PTL DEF AdaptersSpec
<1>5. [][UpdateKeeps]_vars => UpdateKeepsTheRest
  BY DEF UpdateKeeps, UpdateKeepsTheRest
<1>6. [][EventKeeps]_(Cal!vars) => Cal!OthersAreKept
  BY DEF EventKeeps, Cal!OthersAreKept
<1>. QED BY <1>3, <1>4, <1>5, <1>6 DEF EditsAreLocal

\* Though mail comes and goes while a listing reads its threads one by one, what Gmail's
\* adapter tells of a conversation is true of the whole of it, what Graph's tells of one that
\* is opened of as much as its page holds, and a listing of Graph's leaves out only what is
\* older than all that it tells (normalizeThread, listThreads and getThread of both).
THEOREM AccountTold == AdaptersSpec => []AccountIsTold
<1>1. ThreadsInv => AccountIsTold
  BY ThreadsInvTells DEF AccountIsTold
<1>. QED BY <1>1, ThreadsAlways, PTL
=============================================================================
