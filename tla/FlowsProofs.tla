---------------------------- MODULE FlowsProofs ----------------------------
(***************************************************************************)
(* What TLAPS proves of the parts of MCFlows, for constants of any size.   *)
(* ProviderSend: a sender is asked with its own account only, the preview  *)
(* is what is sent, and the result says what the providers took.  Inbound: *)
(* what was answered with success is accounted for, and replays change     *)
(* nothing.  Hydration: what a boot makes of the file and the platform's   *)
(* variables, row by row of the table of settings, is what the order of    *)
(* precedence says.  ClientEvents: what a 200 says of an event is so, and  *)
(* a list posted again reports twice only after a loss.  Resolver: nobody *)
(* reads another's values, calls are few, lookups fail locally, and counts *)
(* agree with what is rendered.                                            *)
(***************************************************************************)
EXTENDS MCFlows, Sequences, SequenceTheorems, WellFoundedInduction, FiniteSetTheorems, TLAPS

-----------------------------------------------------------------------------
(* Senders and requests (ProviderSend).                                      *)

\* What a sender of the file, or one made of the environment, is.
Known(s) ==
  /\ s.provider \in {"ses", "sendgrid", "gupshup", "freshchat"}
  /\ s.id \notin {"shared", "mixed", "nobody", "role"}

\* Whose credentials a sender may use.
Owns(s, account) == account = s.id \/ (Keyless(s) /\ account \in {"role", "shared"})

\* The message of a recipient is taken at most as often as the result says, where every answer was clear.
Counted ==
  \A r \in DOMAIN Recipients :
    /\ r >= Now => result[r] = "none"
    /\ r \notin unclear =>
         /\ result[r] = "sent" => took[r] = 1
         /\ result[r] # "sent" => took[r] = 0

SendInv ==
  /\ senders \in Seq({senders[i] : i \in DOMAIN senders})
  /\ \A i \in DOMAIN senders : Known(senders[i])
  /\ pc \in {"boot", "not started"} \/ Valid(senders)
  /\ pc \in {"boot", "not started"} => request = None
  /\ chain \in Seq(Enabled)
  /\ todo \in Seq({Recipients[r] : r \in DOMAIN Recipients}) /\ Len(todo) <= Len(Recipients)
  /\ pc \in {"send", "answer"} => todo # <<>> /\ chain # <<>>
  /\ OwnAccountOnly /\ PreviewIsSent
  /\ DOMAIN result = DOMAIN Recipients /\ DOMAIN took = DOMAIN Recipients
  /\ Counted

LEMMA RequestIsNotNone ==
  ASSUME NEW g, NEW a, NEW t, NEW m, NEW i
  PROVE  Request(g, a, t, m, i) # None /\ Request(g, a, t, m, i).account = a
BY DEF Request, None

\* A sender the boot let through has every field of one of its ways.
LEMMA SesCredentials ==
  ASSUME NEW s, Known(s), s.enabled, ValidSender(s), s.provider = "ses"
  PROVE  Owns(s, SesAccount(s))
<1>1. Ways(s) = IF Keyless(s) THEN {{}} ELSE {{s.key, s.secret}}
  BY Zenon DEF Ways
<1>2. Satisfied(s)
  BY DEF ValidSender
<1>3. Keyless(s) \/ (Present(s.key) /\ Present(s.secret))
  BY <1>1, <1>2 DEF Satisfied
<1>4. CASE Keyless(s)
  <2>1. Own(s, s.key, "AWS_KEYS") \in {"shared", "nobody"} /\ Own(s, s.secret, "AWS_KEYS") = Own(s, s.key, "AWS_KEYS")
    BY <1>4 DEF Keyless, Own, Present
  <2>2. QED BY <1>4, <2>1 DEF SesAccount, Owns
<1>5. CASE Present(s.key) /\ Present(s.secret)
  BY <1>5 DEF SesAccount, Own, Owns, Known
<1>6. QED BY <1>3, <1>4, <1>5

LEMMA KeyCredentials ==
  ASSUME NEW s, Known(s), s.enabled, ValidSender(s), s.provider \in {"sendgrid", "freshchat"}
  PROVE  Own(s, s.key, "no such variable") = s.id /\ FreshchatAccount(s) = s.id
<1>1. Ways(s) = {{s.key}}
  BY Zenon DEF Ways
<1>2. Satisfied(s)
  BY DEF ValidSender
<1>3. Present(s.key)
  BY <1>1, <1>2 DEF Satisfied
<1>4. QED BY <1>3 DEF FreshchatAccount, Own

LEMMA GupshupAccount ==
  ASSUME NEW s, NEW m, Gupshup(s, m) # None
  PROVE  Gupshup(s, m).account = s.id
<1> DEFINE template_request == CASE m.template = None \/ m.template.id = "none" -> None
           [] m.template # None /\ GupshupMode(s) = "apikey" ->
                 IF Present(s.key) /\ Present(s.src) /\ s.source THEN ViaApiKey(s, m) ELSE None
           [] OTHER -> IF Present(s.user) THEN ViaEnterprise(s, m) ELSE None
<1>1. template_request \in {None, ViaApiKey(s, m), ViaEnterprise(s, m)}
  BY Zenon
<1>2. Gupshup(s, m) \in {None, ViaMedia(s, m), ViaText(s, m), template_request}
  BY Zenon DEF Gupshup
<1>3. /\ ViaMedia(s, m).account = s.id /\ ViaText(s, m).account = s.id
      /\ ViaApiKey(s, m).account = s.id /\ ViaEnterprise(s, m).account = s.id
  BY RequestIsNotNone DEF ViaMedia, ViaText, ViaApiKey, ViaEnterprise
<1> HIDE DEF template_request
<1>4. QED BY <1>1, <1>2, <1>3

LEMMA PreviewIsRequest ==
  ASSUME NEW s, NEW m, Gupshup(s, m) # None, Preview(s, m) # None
  PROVE  Preview(s, m) = Gupshup(s, m)
<1>1. CASE m.text # "none" /\ m.media # "none"
  <2>1. Preview(s, m) = ViaMedia(s, m)
    BY <1>1, Zenon DEF Preview
  <2>2. Gupshup(s, m) \in {None, ViaMedia(s, m)}
    BY <1>1, Zenon DEF Gupshup
  <2>3. QED BY <2>1, <2>2
<1>2. CASE m.text # "none" /\ m.media = "none"
  <2>1. Preview(s, m) = ViaText(s, m)
    BY <1>2, Zenon DEF Preview
  <2>2. Gupshup(s, m) \in {None, ViaText(s, m)}
    BY <1>2, Zenon DEF Gupshup
  <2>3. QED BY <2>1, <2>2
<1>3. CASE m.text = "none" /\ (m.template = None \/ m.template.id = "none")
  <2>1. Preview(s, m) = None
    BY <1>3, Zenon DEF Preview
  <2>2. QED BY <2>1
<1>4. CASE m.text = "none" /\ m.template # None /\ m.template.id # "none" /\ GupshupMode(s) = "apikey"
  <2>1. Preview(s, m) = ViaApiKey(s, m)
    BY <1>4, Zenon DEF Preview
  <2>2. Gupshup(s, m) \in {None, ViaApiKey(s, m)}
    BY <1>4, Zenon DEF Gupshup
  <2>3. QED BY <2>1, <2>2
<1>5. CASE m.text = "none" /\ m.template # None /\ m.template.id # "none" /\ GupshupMode(s) # "apikey"
  <2>1. Preview(s, m) = ViaEnterprise(s, m)
    BY <1>5, Zenon DEF Preview
  <2>2. Gupshup(s, m) \in {None, ViaEnterprise(s, m)}
    BY <1>5, Zenon DEF Gupshup
  <2>3. QED BY <2>1, <2>2
<1>6. QED BY <1>1, <1>2, <1>3, <1>4, <1>5

LEMMA OwnAccount ==
  ASSUME NEW s, NEW m, Known(s), s.enabled, ValidSender(s), RequestOf(s, m) # None
  PROVE  Owns(s, RequestOf(s, m).account)
<1> USE DEF Owns
<1>1. CASE s.provider = "gupshup"
  <2>1. RequestOf(s, m) = Gupshup(s, m)
    BY <1>1, Zenon DEF RequestOf
  <2>2. QED BY <2>1, GupshupAccount
<1>2. CASE s.provider = "freshchat"
  <2>1. RequestOf(s, m) = Freshchat(s, m)
    BY <1>2, Zenon DEF RequestOf
  <2>2. Freshchat(s, m).account = FreshchatAccount(s)
    BY <2>1, RequestIsNotNone DEF Freshchat
  <2>3. QED BY <2>1, <2>2, <1>2, KeyCredentials
<1>3. CASE s.provider = "ses"
  <2>1. RequestOf(s, m) = Ses(s)
    BY <1>3, Zenon DEF RequestOf
  <2>2. Ses(s).account = SesAccount(s)
    BY RequestIsNotNone DEF Ses
  <2>3. QED BY <2>1, <2>2, <1>3, SesCredentials
<1>4. CASE s.provider = "sendgrid"
  <2>1. RequestOf(s, m) = Sendgrid(s)
    BY <1>4, Zenon DEF RequestOf
  <2>2. Sendgrid(s).account = SendgridAccount(s)
    BY <2>1, RequestIsNotNone DEF Sendgrid
  <2>3. QED BY <2>1, <2>2, <1>4, KeyCredentials DEF SendgridAccount
<1>5. QED BY <1>1, <1>2, <1>3, <1>4 DEF Known

LEMMA GupshupRequest ==
  ASSUME NEW s, NEW m, s.provider = "gupshup"
  PROVE  RequestOf(s, m) = Gupshup(s, m)
BY Zenon DEF RequestOf

LEMMA SynthesizedKnown ==
  /\ Synthesized \in Seq({Synthesized[i] : i \in DOMAIN Synthesized})
  /\ \A i \in DOMAIN Synthesized : Known(Synthesized[i])
<1> DEFINE aws == IF "AWS_KEYS" \in env THEN "env" ELSE "none"
           email == IF "EMAIL_PROVIDER" \in env THEN [Blank EXCEPT !.provider = "sendgrid", !.key = Named("SENDGRID_API_KEY")]
                    ELSE [Blank EXCEPT !.key = aws, !.secret = aws]
           whatsapp == [Blank EXCEPT !.channel = "whatsapp", !.src = "inline", !.source = TRUE]
           gupshup == [whatsapp EXCEPT !.id = "default-wa", !.provider = "gupshup",
                                       !.key = Named("GUPSHUP_API_KEY"), !.user = Named("GUPSHUP_USER")]
           freshchat == [whatsapp EXCEPT !.id = "default-freshchat", !.provider = "freshchat", !.key = Named("FRESHCHAT_API_KEY")]
<1>1. Known(email) /\ Known(gupshup) /\ Known(freshchat)
  BY DEF Known, Blank
<1> HIDE DEF aws, email, whatsapp, gupshup, freshchat
<1>2. Synthesized \in {<<email>> \o <<gupshup>>, <<email>> \o <<freshchat>>, <<email>> \o <<>>}
  BY Zenon DEF Synthesized, aws, email, whatsapp, gupshup, freshchat
<1>3. Synthesized \in {<<email, gupshup>>, <<email, freshchat>>, <<email>>}
  BY <1>2
<1>4. QED BY <1>1, <1>3

LEMMA SendInit == ProviderSendAssumption /\ Init => SendInv
<1> SUFFICES ASSUME ProviderSendAssumption, Init PROVE SendInv
  OBVIOUS
<1>1. PICK given \in Yaml : senders = IF given = <<>> THEN Synthesized ELSE given
  BY DEF Init
<1>2. senders \in Seq({senders[i] : i \in DOMAIN senders}) /\ \A i \in DOMAIN senders : Known(senders[i])
  BY <1>1, SynthesizedKnown DEF ProviderSendAssumption, Known
<1>3. todo \in Seq({Recipients[r] : r \in DOMAIN Recipients}) /\ Len(todo) <= Len(Recipients)
  BY DEF Init, ProviderSendAssumption
<1>4. Counted /\ DOMAIN result = DOMAIN Recipients /\ DOMAIN took = DOMAIN Recipients
  BY DEF Init, Counted
<1>5. chain \in Seq(Enabled)
  BY DEF Init
<1>6. QED BY <1>2, <1>3, <1>4, <1>5 DEF Init, SendInv, OwnAccountOnly, PreviewIsSent

\* A chain is a sequence of enabled senders.
LEMMA ChainsOfEnabled ==
  ASSUME ProviderSendAssumption, SendInv, NEW c \in Chains
  PROVE  c \in Seq(Enabled)
<1> DEFINE length == IF Cardinality(Enabled) < MaxAttempts THEN Cardinality(Enabled) ELSE MaxAttempts
<1>0. senders \in Seq({senders[i] : i \in DOMAIN senders})
  BY DEF SendInv
<1>1. DOMAIN senders = 1 .. Len(senders) /\ Len(senders) \in Nat
  BY <1>0, LenProperties
<1>2. IsFiniteSet(Enabled)
  <2>1. IsFiniteSet(1 .. Len(senders))
    BY <1>1, FS_Interval
  <2>2. Enabled \subseteq 1 .. Len(senders)
    BY <1>1 DEF Enabled
  <2>3. QED BY <2>1, <2>2, FS_Subset
<1>3. Cardinality(Enabled) \in Nat
  BY <1>2, FS_CardinalityType
<1>4. length \in Nat
  BY <1>3 DEF ProviderSendAssumption
<1>5. c \in [1 .. length -> Enabled]
  BY DEF Chains
<1>6. QED BY <1>4, <1>5

\* Where nothing a conjunct speaks of has moved.
LEMMA SendStutter ==
  ASSUME SendInv, UNCHANGED <<senders, todo, chain, request, shown, result, took, unclear>>,
         pc' \in {"boot", "not started"} \/ Valid(senders),
         pc' \in {"boot", "not started"} => request = None,
         pc' \in {"send", "answer"} => todo # <<>> /\ chain # <<>>,
         pc' \in {pc, "parse", "not started", "next", "failed"}
  PROVE  SendInv'
<1>1. Enabled' = Enabled /\ Now' = Now
  BY DEF Enabled, Channel, Now
<1>2. Valid(senders)' <=> Valid(senders)
  OBVIOUS
<1>3. Counted'
  BY <1>1 DEF SendInv, Counted
<1>4. QED BY <1>1, <1>2, <1>3 DEF SendInv, OwnAccountOnly, PreviewIsSent

LEMMA SendBoot == SendInv /\ Boot => SendInv'
<1> SUFFICES ASSUME SendInv, Boot PROVE SendInv'
  OBVIOUS
<1>1. UNCHANGED <<senders, todo, chain, request, shown, result, took, unclear>> /\ request = None
  BY DEF Boot, SendInv
<1>2. pc' \in {"boot", "not started"} \/ Valid(senders)
  BY DEF Boot
<1>3. pc' \in {"parse", "not started"}
  BY DEF Boot
<1>4. QED BY <1>1, <1>2, <1>3, SendStutter

LEMMA SendParse == SendInv /\ Parse => SendInv'
<1> SUFFICES ASSUME SendInv, Parse PROVE SendInv'
  OBVIOUS
<1>1. UNCHANGED <<senders, todo, chain, request, shown, result, took, unclear>> /\ pc = "parse"
  BY DEF Parse
<1>2. pc' \in {"next", "failed"}
  BY DEF Parse
<1>3. Valid(senders)
  BY <1>1 DEF SendInv
<1>4. QED BY <1>1, <1>2, <1>3, SendStutter

LEMMA SendPrepare ==
  ASSUME ProviderSendAssumption, SendInv, NEW c \in Chains, Prepare(c)
  PROVE  SendInv'
<1>1. UNCHANGED <<senders, todo, request, shown, result, took, unclear>>
  BY DEF Prepare
<1>2. Valid(senders) /\ todo # <<>> /\ c # <<>> /\ c \in Seq(Enabled)
  BY ChainsOfEnabled DEF Prepare, SendInv
<1>3. \/ pc' = "failed" /\ chain' = chain
      \/ pc' = "send" /\ chain' = c
  BY DEF Prepare
<1>4. chain' \in Seq(Enabled) /\ (pc' = "send" => chain' # <<>>)
  BY <1>2, <1>3 DEF SendInv
<1>5. Enabled' = Enabled /\ Now' = Now
  BY <1>1 DEF Enabled, Channel, Now
<1>6. Counted'
  BY <1>1, <1>5 DEF SendInv, Counted
<1>7. Valid(senders)'
  BY <1>1, <1>2
<1>8. pc' \notin {"boot", "not started", "answer"}
  BY <1>3
<1>9. OwnAccountOnly' /\ PreviewIsSent'
  BY <1>1, <1>8 DEF SendInv, OwnAccountOnly, PreviewIsSent
<1>10. QED BY <1>1, <1>2, <1>4, <1>5, <1>6, <1>7, <1>8, <1>9 DEF SendInv

\* The recipient at hand, and the one after it.
LEMMA NowAndNext ==
  ASSUME ProviderSendAssumption, SendInv, todo # <<>>
  PROVE  /\ Now \in DOMAIN Recipients /\ Now \in Nat
         /\ \A r \in DOMAIN Recipients : r \in Nat
         /\ Tail(todo) \in Seq({Recipients[r] : r \in DOMAIN Recipients})
         /\ Len(Tail(todo)) <= Len(Recipients)
         /\ Len(Recipients) - Len(Tail(todo)) + 1 = Now + 1
<1>1. Recipients \in Seq({Recipients[r] : r \in DOMAIN Recipients}) /\ todo \in Seq({Recipients[r] : r \in DOMAIN Recipients})
      /\ Len(todo) <= Len(Recipients)
  BY DEF ProviderSendAssumption, SendInv
<1>2. Len(Recipients) \in Nat /\ Len(todo) \in Nat /\ DOMAIN Recipients = 1 .. Len(Recipients)
  BY <1>1, LenProperties
<1>3. Len(todo) > 0 /\ Tail(todo) \in Seq({Recipients[r] : r \in DOMAIN Recipients}) /\ Len(Tail(todo)) = Len(todo) - 1
  BY <1>1, EmptySeq, HeadTailProperties
<1>4. Now = Len(Recipients) - Len(todo) + 1
  BY DEF Now
<1>5. QED BY <1>1, <1>2, <1>3, <1>4

\* The counts after the recipient at hand is done with.
LEMMA NowCounts ==
  ASSUME ProviderSendAssumption, SendInv, todo # <<>>
  PROVE  result[Now] = "none" /\ (Now \notin unclear => took[Now] = 0)
<1>1. Now \in DOMAIN Recipients /\ Now \in Nat
  BY NowAndNext
<1>2. Counted
  BY DEF SendInv
<1>3. result[Now] = "none"
  <2>1. Now >= Now
    BY <1>1
  <2>2. QED BY <1>1, <1>2, <2>1 DEF Counted
<1>4. QED BY <1>1, <1>2, <1>3 DEF Counted

LEMMA DoneCounts ==
  ASSUME ProviderSendAssumption, SendInv, todo # <<>>, NEW outcome, Done(outcome),
         UNCHANGED senders, DOMAIN took' = DOMAIN Recipients, unclear \subseteq unclear',
         \A r \in DOMAIN Recipients \ {Now} : took'[r] = took[r] /\ (r \in unclear' => r \in unclear),
         Now \notin unclear' => (outcome = "sent" => took'[Now] = 1) /\ (outcome # "sent" => took'[Now] = 0)
  PROVE  Counted' /\ DOMAIN result' = DOMAIN Recipients
<1>1. /\ Now \in DOMAIN Recipients /\ Now \in Nat /\ \A r \in DOMAIN Recipients : r \in Nat
      /\ Now' = Now + 1
  BY NowAndNext DEF Done, Now
<1>2. result' = [result EXCEPT ![Now] = outcome] /\ DOMAIN result = DOMAIN Recipients
  BY DEF Done, SendInv
<1>3. result'[Now] = outcome /\ \A r \in DOMAIN Recipients \ {Now} : result'[r] = result[r]
  BY <1>1, <1>2
<1>4. ASSUME NEW r \in DOMAIN Recipients
      PROVE  /\ r >= Now' => result'[r] = "none"
             /\ r \notin unclear' =>
                  /\ result'[r] = "sent" => took'[r] = 1
                  /\ result'[r] # "sent" => took'[r] = 0
  <2>1. CASE r = Now
    BY <2>1, <1>1, <1>3
  <2>2. CASE r # Now
    <3>1. result'[r] = result[r] /\ took'[r] = took[r] /\ (r \notin unclear' => r \notin unclear)
      BY <2>2, <1>3
    <3>2. r >= Now' => r >= Now
      BY <1>1
    <3>3. /\ r >= Now => result[r] = "none"
          /\ r \notin unclear =>
               /\ result[r] = "sent" => took[r] = 1
               /\ result[r] # "sent" => took[r] = 0
      BY DEF SendInv, Counted
    <3>4. QED BY <3>1, <3>2, <3>3
  <2>3. QED BY <2>1, <2>2
<1>5. Counted'
  BY <1>4 DEF Counted
<1>6. QED BY <1>2, <1>5

\* The sender at the head of a chain passed the boot check.
LEMMA SenderAtHand ==
  ASSUME SendInv, pc \in {"send", "answer"}
  PROVE  /\ Known(senders[Head(chain)]) /\ senders[Head(chain)].enabled /\ ValidSender(senders[Head(chain)])
         /\ Head(chain) \in Enabled /\ Tail(chain) \in Seq(Enabled)
<1>1. chain \in Seq(Enabled) /\ chain # <<>>
  BY DEF SendInv
<1>2. Head(chain) \in Enabled /\ Tail(chain) \in Seq(Enabled)
  BY <1>1, HeadTailProperties
<1>3. Head(chain) \in DOMAIN senders /\ senders[Head(chain)].enabled
  BY <1>2 DEF Enabled
<1>4. Valid(senders) /\ \A i \in DOMAIN senders : Known(senders[i])
  BY DEF SendInv
<1>5. QED BY <1>2, <1>3, <1>4 DEF Valid

LEMMA SendSend == ProviderSendAssumption /\ SendInv /\ Send => SendInv'
<1> SUFFICES ASSUME ProviderSendAssumption, SendInv, Send PROVE SendInv'
  OBVIOUS
<1> DEFINE s == senders[Head(chain)]
<1>1. /\ pc = "send" /\ request' = RequestOf(s, message)
      /\ shown' = IF s.provider = "gupshup" THEN Preview(s, message) ELSE None
      /\ UNCHANGED <<senders, took, unclear>>
  BY DEF Send
<1>2. Known(s) /\ s.enabled /\ ValidSender(s) /\ todo # <<>> /\ chain # <<>> /\ Valid(senders)
  BY <1>1, SenderAtHand DEF SendInv
<1>3. RequestOf(s, message) # None => Owns(s, RequestOf(s, message).account)
  BY <1>2, OwnAccount
<1>4. PreviewIsSent'
  <2>1. s.provider = "gupshup" /\ RequestOf(s, message) # None /\ Preview(s, message) # None =>
          Preview(s, message) = RequestOf(s, message)
    BY GupshupRequest, PreviewIsRequest
  <2> HIDE DEF s
  <2>2. QED BY <2>1, <1>1 DEF PreviewIsSent
<1>5. Enabled' = Enabled
  BY <1>1 DEF Enabled, Channel
<1>6. CASE RequestOf(s, message) = None
  <2>1. Done("failed")
    BY <1>6, <1>1 DEF Send
  <2>2. Now \in DOMAIN Recipients /\ Now \in Nat
    BY <1>2, NowAndNext
  <2>3. Now \notin unclear => took[Now] = 0
    BY <1>2, NowCounts
  <2>4. DOMAIN took' = DOMAIN Recipients
    BY <1>1 DEF SendInv
  <2>5. Counted' /\ DOMAIN result' = DOMAIN Recipients
    BY <2>1, <2>3, <2>4, <1>1, <1>2, DoneCounts
  <2>6. /\ todo' \in Seq({Recipients[r] : r \in DOMAIN Recipients}) /\ Len(todo') <= Len(Recipients)
        /\ pc' = "next" /\ chain' = <<>>
    BY <2>1, <1>2, NowAndNext DEF Done
  <2>7. chain' \in Seq(Enabled')
    BY <2>6
  <2>8. Valid(senders)' /\ OwnAccountOnly'
    BY <1>1, <1>2, <2>6 DEF OwnAccountOnly
  <2>9. QED BY <1>1, <1>4, <1>5, <2>4, <2>5, <2>6, <2>7, <2>8 DEF SendInv
<1>7. CASE RequestOf(s, message) # None
  <2>1. pc' = "answer" /\ UNCHANGED <<todo, chain, result>>
    BY <1>7, <1>1 DEF Send
  <2>2. Counted' /\ Valid(senders)'
    BY <2>1, <1>1, <1>2 DEF SendInv, Counted, Now
  <2>3. OwnAccountOnly'
    BY <1>1, <1>3, <1>7, <2>1 DEF OwnAccountOnly, Owns, Keyless
  <2>4. QED BY <1>1, <1>2, <1>4, <1>5, <2>1, <2>2, <2>3 DEF SendInv
<1>8. QED BY <1>6, <1>7

\* What a clear answer means: it was taken, and the client says so, or neither.
LEMMA ClearAnswers ==
  ASSUME NEW s, Known(s), NEW answer,
         answer \in {"accepted", "refused", "busy", "reset", "timeout", "page"},
         answer \notin {"reset", "timeout"}, ~(s.provider = "freshchat" /\ answer = "page")
  PROVE  /\ Success(s, answer) => MayTake(answer) = {1}
         /\ ~Success(s, answer) => MayTake(answer) = {0}
<1>1. MayTake("accepted") = {1} /\ (answer # "accepted" => MayTake(answer) = {0})
  BY Zenon DEF MayTake
<1>2. CASE s.provider = "gupshup"
  <2>1. Success(s, answer) <=> answer = "accepted"
    BY <1>2, Zenon DEF Success, GupshupSuccess
  <2>2. QED BY <2>1, <1>1
<1>3. CASE s.provider = "freshchat"
  <2>1. Success(s, answer) <=> answer \in {"accepted", "page"}
    BY <1>3, Zenon DEF Success, FreshchatSuccess
  <2>2. answer # "page"
    BY <1>3
  <2>3. QED BY <2>1, <2>2, <1>1
<1>4. CASE s.provider \notin {"gupshup", "freshchat"}
  <2>1. Success(s, answer) <=> answer = "accepted"
    BY <1>4, Zenon DEF Success, EmailSuccess
  <2>2. QED BY <2>1, <1>1
<1>5. QED BY <1>2, <1>3, <1>4

LEMMA LongTail ==
  ASSUME NEW S, NEW s \in Seq(S), Len(s) > 1
  PROVE  Tail(s) # <<>>
<1>1. s # <<>> /\ Len(s) \in Nat
  BY LenProperties, EmptySeq
<1> DEFINE n == Len(s)
           m == Len(Tail(s))
<1>2. m = n - 1 /\ n \in Nat /\ n > 1
  BY <1>1, HeadTailProperties
<1> HIDE DEF n, m
<1>3. m # 0
  BY <1>2
<1>4. Len(<<>>) = 0
  OBVIOUS
<1>5. QED BY <1>3, <1>4, Zenon DEF m

LEMMA SendAnswer ==
  ASSUME ProviderSendAssumption, SendInv,
         NEW answer \in {"accepted", "refused", "busy", "reset", "timeout", "page"}, Answer(answer)
  PROVE  SendInv'
<1> DEFINE s == senders[Head(chain)]
<1>1. pc = "answer" /\ UNCHANGED <<senders, request, shown>>
  BY DEF Answer
<1>2. Known(s) /\ todo # <<>> /\ Valid(senders) /\ Tail(chain) \in Seq(Enabled)
  BY <1>1, SenderAtHand DEF SendInv
<1>3. PICK n \in MayTake(answer) : took' = [took EXCEPT ![Now] = @ + n]
  BY DEF Answer
<1>4. unclear' = IF answer \in {"reset", "timeout"} \/ (s.provider = "freshchat" /\ answer = "page")
                 THEN unclear \cup {Now} ELSE unclear
  BY DEF Answer
<1>5. Now \in DOMAIN Recipients /\ Now \in Nat /\ \A r \in DOMAIN Recipients : r \in Nat
  BY <1>2, NowAndNext
<1>6. /\ DOMAIN took' = DOMAIN Recipients /\ took'[Now] = took[Now] + n
      /\ \A r \in DOMAIN Recipients \ {Now} : took'[r] = took[r]
  BY <1>3, <1>5 DEF SendInv
<1>7. unclear \subseteq unclear' /\ \A r \in DOMAIN Recipients \ {Now} : r \in unclear' => r \in unclear
  BY <1>4
<1>8. Now \notin unclear' => took[Now] = 0 /\ result[Now] = "none"
  BY <1>2, <1>7, NowCounts
<1>9. Now \notin unclear' => /\ Success(s, answer) => took'[Now] = 1
                             /\ ~Success(s, answer) => took'[Now] = 0
  <2> SUFFICES ASSUME Now \notin unclear'
               PROVE  /\ Success(s, answer) => took'[Now] = 1
                      /\ ~Success(s, answer) => took'[Now] = 0
    OBVIOUS
  <2>1. answer \notin {"reset", "timeout"} /\ ~(s.provider = "freshchat" /\ answer = "page")
    BY <1>4
  <2>2. /\ Success(s, answer) => n = 1
        /\ ~Success(s, answer) => n = 0
    BY <2>1, <1>2, <1>3, ClearAnswers
  <2>3. QED BY <2>2, <1>6, <1>8
<1>10. /\ Success(s, answer) => Done("sent")
       /\ ~Success(s, answer) =>
            \/ chain' = Tail(chain) /\ pc' = "send" /\ Len(chain) > 1 /\ UNCHANGED <<todo, message, result>>
            \/ Done("failed")
  BY DEF Answer
<1>11. Enabled' = Enabled /\ Valid(senders)' /\ PreviewIsSent' /\ (pc' # "answer" => OwnAccountOnly')
  BY <1>1, <1>2 DEF Enabled, Channel, SendInv, OwnAccountOnly, PreviewIsSent
<1>12. CASE ~Success(s, answer) /\ chain' = Tail(chain) /\ pc' = "send" /\ Len(chain) > 1 /\ UNCHANGED <<todo, message, result>>
  <2>1. Tail(chain) # <<>>
    <3>1. chain \in Seq(Enabled)
      BY DEF SendInv
    <3>2. QED BY <3>1, <1>12, LongTail
  <2>2. Counted'
    <3>1. Now' = Now
      BY <1>12 DEF Now
    <3>2. ASSUME NEW r \in DOMAIN Recipients
          PROVE  /\ r >= Now' => result'[r] = "none"
                 /\ r \notin unclear' =>
                      /\ result'[r] = "sent" => took'[r] = 1
                      /\ result'[r] # "sent" => took'[r] = 0
      <4>1. CASE r = Now
        <5>1. result[Now] = "none"
          BY <1>2, NowCounts
        <5>2. QED BY <4>1, <5>1, <3>1, <1>9, <1>12
      <4>2. CASE r # Now
        BY <4>2, <3>1, <1>6, <1>7, <1>12 DEF SendInv, Counted
      <4>3. QED BY <4>1, <4>2
    <3>3. QED BY <3>2 DEF Counted
  <2>3. DOMAIN result' = DOMAIN Recipients
    BY <1>12 DEF SendInv
  <2>4. /\ todo' \in Seq({Recipients[r] : r \in DOMAIN Recipients}) /\ Len(todo') <= Len(Recipients)
        /\ todo' # <<>> /\ chain' # <<>> /\ chain' \in Seq(Enabled') /\ pc' = "send"
    BY <1>2, <1>11, <1>12, <2>1 DEF SendInv
  <2>5. QED BY <1>1, <1>6, <1>11, <2>2, <2>3, <2>4 DEF SendInv
<1>13. ASSUME NEW outcome, Done(outcome), outcome = "sent" <=> Success(s, answer)
       PROVE  SendInv'
  <2>1. Now \notin unclear' => (outcome = "sent" => took'[Now] = 1) /\ (outcome # "sent" => took'[Now] = 0)
    BY <1>9, <1>13
  <2>2. Counted' /\ DOMAIN result' = DOMAIN Recipients
    BY <2>1, <1>1, <1>2, <1>6, <1>7, <1>13, DoneCounts
  <2>3. /\ todo' \in Seq({Recipients[r] : r \in DOMAIN Recipients}) /\ Len(todo') <= Len(Recipients)
        /\ pc' = "next" /\ chain' = <<>>
    BY <1>13, <1>2, NowAndNext DEF Done
  <2>4. chain' \in Seq(Enabled')
    BY <2>3
  <2>5. QED BY <1>1, <1>6, <1>11, <2>2, <2>3, <2>4 DEF SendInv
<1>14. QED BY <1>10, <1>12, <1>13

LEMMA SendStep == ProviderSendAssumption /\ SendInv /\ Next => SendInv'
<1> SUFFICES ASSUME ProviderSendAssumption, SendInv, Next PROVE SendInv'
  OBVIOUS
<1>1. CASE \E answer \in {"accepted", "refused", "busy", "reset", "timeout", "page"} : Answer(answer)
  BY <1>1, SendAnswer
<1>2. CASE \E c \in Chains : Prepare(c)
  BY <1>2, SendPrepare
<1>3. QED BY <1>1, <1>2, SendBoot, SendParse, SendSend DEF Next

\* Only the part chosen moves, so another part's invariant is kept by a stutter of its variables.
LEMMA SendUnchanged == SendInv /\ UNCHANGED vars => SendInv'
<1> SUFFICES ASSUME SendInv, UNCHANGED vars PROVE SendInv'
  OBVIOUS
<1>1. UNCHANGED <<senders, pc, todo, chain, request, shown, result, took, unclear>>
  BY DEF vars
<1>2. QED BY <1>1, SendStutter DEF SendInv

LEMMA SendInvSays == SendInv => OwnAccountOnly /\ PreviewIsSent /\ ReportIsTrue
<1> SUFFICES ASSUME SendInv PROVE ReportIsTrue
  BY DEF SendInv
<1>1. QED BY DEF SendInv, Counted, ReportIsTrue

\* A message goes out on the account of its own sender, the preview logged is the request made,
\* and what the run reports is what the provider said, for any senders, contents and environment.
THEOREM SendsHoldAlways == MCSpec => []SendsHold
<1>1. MCInit => SendInv
  BY SendInit, ProviderSendAssumption DEF MCInit
<1>2. SendInv /\ [MCNext]_<<part, vars, inbound, client, values, meter, settings>> => SendInv'
  BY SendStep, SendUnchanged, ProviderSendAssumption DEF MCNext
<1>3. SendInv => SendsHold
  BY SendInvSays DEF SendsHold
<1>4. QED BY <1>1, <1>2, <1>3, PTL DEF MCSpec

-----------------------------------------------------------------------------
(* Provider webhooks (Inbound).                                              *)

ItemsOf(batch) == {batch[k] : k \in DOMAIN batch}
Items(c) == UNION {ItemsOf(b) : b \in c.batches}
OccsOf(batch) == {i.occ : i \in ItemsOf(batch)}
Wanted(i) == I!Allowed(i) /\ I!Correlated(i) /\ I!Event(i) # "none"

\* Answered 200 by the handler, or past a step of it.
Told(r) == reqs[r].pc = "answered" /\ reqs[r].answer = 200 /\ cfg.enabled
Past(r, steps) == reqs[r].pc \in steps \cup {"end", "refused", "answered, refused"} \/ Told(r)

Handled(r) ==
  Past(r, {"persist", "enqueue", "forward"}) =>
    /\ \A i \in ItemsOf(reqs[r].batch) : Wanted(i) => \E e \in reqs[r].kept : e.occ = i.occ /\ e.url = I!Url(i)
    /\ \A i \in ItemsOf(reqs[r].batch) : I!Receipt(i) => i.occ \in reqs[r].receipts
    /\ reqs[r].receipts \subseteq OccsOf(reqs[r].batch)
    /\ \A e \in reqs[r].kept : \E i \in ItemsOf(reqs[r].batch) :
         e.occ = i.occ /\ (e.key = I!Key(i) \/ i.time = 0)
Persisted(r) ==
  Past(r, {"enqueue", "forward"}) => \A e \in reqs[r].kept : r \in missed \/ \E row \in events : row.key = e.key
Enqueued(r) ==
  Past(r, {"forward"}) => \A e \in reqs[r].kept : e.url => outbox[e.occ] > 0
Delivered(r) ==
  /\ reqs[r].pc \in {"route", "verify", "persist", "enqueue", "forward"} => reqs[r].attempt <= MaxRetries
  /\ reqs[r].pc = "end" \/ Told(r) =>
       \A o \in reqs[r].receipts : heard[o] > 0 \/ reqs[r].attempt = MaxRetries + 1 \/ ~I!Destination

RequestInv(r) ==
  /\ reqs[r].pc # "idle" => reqs[r].batch \in cfg.batches
  /\ reqs[r].answer # 0 => reqs[r].pc \in {"answered", "answered, refused"}
  /\ Handled(r) /\ Persisted(r) /\ Enqueued(r) /\ Delivered(r)

\* Requests whose enqueue is to come, and those the backend may still hear of.
Owing(o) == {r \in Requests : reqs[r].pc \in {"route", "verify", "persist", "enqueue"} /\ o \in OccsOf(reqs[r].batch)}
Hearing(o) ==
  {r \in Requests : reqs[r].pc \in {"route", "verify", "persist", "enqueue", "forward"} /\ o \in OccsOf(reqs[r].batch)}

EventsInv ==
  \A row \in events : \E i \in Items(cfg) :
    row = [key |-> row.key, occ |-> i.occ] /\ (row.key = I!Key(i) \/ i.time = 0)

CountsInv ==
  \A o \in I!Occs : /\ outbox[o] + Cardinality(Owing(o)) <= posts[o]
                    /\ heard[o] + Cardinality(Hearing(o)) <= posts[o] + lost

Places ==
  {"idle", "route", "hung", "verify", "persist", "enqueue", "forward", "end", "refused", "answered", "answered, refused"}

InboundType ==
  /\ cfg \in Configs
  /\ \E K, P : reqs \in [Requests -> [pc : Places, batch : {<<>>} \cup cfg.batches, proof : P, kept : K,
                                      receipts : SUBSET I!Occs, attempt : Nat, answer : Nat]]
  /\ {outbox, heard, posts} \subseteq [I!Occs -> Nat] /\ lost \in Nat

InboundInv == InboundType /\ (\A r \in Requests : RequestInv(r)) /\ EventsInv /\ CountsInv

\* The instance has its own copy of the standard definitions.
LEMMA InboundSets ==
  /\ \A S : I!IsFiniteSet(S) <=> IsFiniteSet(S)
  /\ \A S : I!Cardinality(S) = Cardinality(S)
<1>1. ASSUME NEW S PROVE I!IsFiniteSet(S) <=> IsFiniteSet(S)
  BY DEF I!IsFiniteSet, IsFiniteSet
<1>2. ASSUME NEW S PROVE I!Cardinality(S) = Cardinality(S)
  BY DEF I!Cardinality, Cardinality
<1>3. QED BY <1>1, <1>2

LEMMA RequestsAreFinite ==
  ASSUME NEW S \in SUBSET Requests
  PROVE  IsFiniteSet(S) /\ Cardinality(S) \in Nat
<1>1. IsFiniteSet(Requests)
  BY FlowsAssumption, InboundSets DEF I!InboundAssumption
<1>2. QED BY <1>1, FS_Subset, FS_CardinalityType

\* A set of requests that loses, keeps or gains one.
LEMMA RequestSetSizes ==
  ASSUME NEW S \in SUBSET Requests, NEW T \in SUBSET Requests, NEW r \in Requests
  PROVE  /\ T \subseteq S => Cardinality(T) <= Cardinality(S)
         /\ T \subseteq S \ {r} /\ r \in S => Cardinality(T) + 1 <= Cardinality(S)
         /\ T \subseteq S \cup {r} => Cardinality(T) <= Cardinality(S) + 1
<1>1. /\ IsFiniteSet(S) /\ IsFiniteSet(T) /\ Cardinality(S) \in Nat /\ Cardinality(T) \in Nat
  BY RequestsAreFinite
<1>2. T \subseteq S => Cardinality(T) <= Cardinality(S)
  BY <1>1, FS_Subset
<1>3. ASSUME T \subseteq S \ {r}, r \in S PROVE Cardinality(T) + 1 <= Cardinality(S)
  <2>1. IsFiniteSet(S \ {r}) /\ Cardinality(S \ {r}) = Cardinality(S) - 1
    BY <1>1, <1>3, FS_RemoveElement
  <2>2. Cardinality(T) <= Cardinality(S \ {r})
    BY <2>1, <1>3, FS_Subset
  <2>3. QED BY <2>1, <2>2, <1>1
<1>4. ASSUME T \subseteq S \cup {r} PROVE Cardinality(T) <= Cardinality(S) + 1
  <2>1. IsFiniteSet(S \cup {r}) /\ Cardinality(S \cup {r}) \in {Cardinality(S), Cardinality(S) + 1}
    BY <1>1, FS_AddElement
  <2>2. Cardinality(T) <= Cardinality(S \cup {r})
    BY <2>1, <1>4, FS_Subset
  <2>3. QED BY <2>1, <2>2, <1>1
<1>5. QED BY <1>2, <1>3, <1>4

\* What the endpoint makes of an item follows from its configuration, and the key too where the item has a time.
LEMMA ReadingIsFixed ==
  ASSUME NEW i, cfg' = cfg
  PROVE  /\ Wanted(i)' <=> Wanted(i)
         /\ I!Receipt(i)' <=> I!Receipt(i)
         /\ I!Url(i)' = I!Url(i)
         /\ i.time # 0 => I!Key(i)' = I!Key(i)
<1>1. I!Event(i)' = I!Event(i)
  BY DEF I!Event
<1>2. I!Allowed(i)' <=> I!Allowed(i)
  BY <1>1, Zenon DEF I!Allowed
<1>3. Wanted(i)' <=> Wanted(i)
  BY <1>1, <1>2 DEF Wanted, I!Correlated
<1>4. I!Receipt(i)' <=> I!Receipt(i)
  BY <1>1 DEF I!Receipt, I!Correlated
<1>5. I!Url(i)' = I!Url(i)
  BY DEF I!Url
<1>6. i.time # 0 => I!Key(i)' = I!Key(i)
  BY <1>1 DEF I!Key, I!Time
<1>7. QED BY <1>3, <1>4, <1>5, <1>6

LEMMA OccsOfConfig ==
  ASSUME cfg \in Configs, NEW b \in cfg.batches
  PROVE  OccsOf(b) \subseteq I!Occs /\ ItemsOf(b) \subseteq Items(cfg)
BY DEF OccsOf, ItemsOf, Items, I!Occs

LEMMA RequestRecord ==
  ASSUME NEW B, NEW P, NEW K, NEW O, NEW pc_ \in Places, NEW b \in B, NEW p \in P, NEW k \in K, NEW o \in O,
         NEW t \in Nat, NEW a \in Nat
  PROVE  [pc |-> pc_, batch |-> b, proof |-> p, kept |-> k, receipts |-> o, attempt |-> t, answer |-> a]
            \in [pc : Places, batch : B, proof : P, kept : K, receipts : O, attempt : Nat, answer : Nat]
OBVIOUS

LEMMA InboundInit == FlowsAssumption /\ I!Init => InboundInv
<1> SUFFICES ASSUME FlowsAssumption, I!Init PROVE InboundInv
  OBVIOUS
<1>1. reqs = [r \in Requests |-> [pc |-> "idle", batch |-> <<>>, proof |-> "none", kept |-> {}, receipts |-> {},
                                  attempt |-> 0, answer |-> 0]]
  BY DEF I!Init, I!Idle
<1>2. InboundType
  <2>1. reqs \in [Requests -> [pc : Places, batch : {<<>>} \cup cfg.batches, proof : {"none"}, kept : {{}},
                               receipts : SUBSET I!Occs, attempt : Nat, answer : Nat]]
    <3>1. [pc |-> "idle", batch |-> <<>>, proof |-> "none", kept |-> {}, receipts |-> {}, attempt |-> 0, answer |-> 0]
             \in [pc : Places, batch : {<<>>} \cup cfg.batches, proof : {"none"}, kept : {{}},
                  receipts : SUBSET I!Occs, attempt : Nat, answer : Nat]
      <4>1. {} \in SUBSET I!Occs /\ <<>> \in {<<>>} \cup cfg.batches
        BY Zenon
      <4>2. "none" \in {"none"} /\ {} \in {{}} /\ "idle" \in Places /\ 0 \in Nat
        BY DEF Places
      <4>3. QED BY <4>1, <4>2, RequestRecord, Zenon
    <3>2. QED BY <1>1, <3>1
  <2>2. {outbox, heard, posts} \subseteq [I!Occs -> Nat] /\ lost \in Nat /\ cfg \in Configs
    BY DEF I!Init
  <2>3. QED BY <2>1, <2>2 DEF InboundType
<1>3. ASSUME NEW r \in Requests PROVE reqs[r].pc = "idle" /\ reqs[r].answer = 0
  BY <1>1
<1>4. \A r \in Requests : RequestInv(r)
  BY <1>3 DEF RequestInv, Handled, Persisted, Enqueued, Delivered, Past, Told
<1>5. EventsInv
  BY DEF I!Init, EventsInv
<1>6. CountsInv
  <2>1. ASSUME NEW o \in I!Occs PROVE Owing(o) = {} /\ Hearing(o) = {}
    BY <1>3 DEF Owing, Hearing
  <2>2. Cardinality({}) = 0
    BY FS_EmptySet
  <2>3. \A o \in I!Occs : outbox[o] = 0 /\ heard[o] = 0 /\ posts[o] = 0 /\ lost = 0
    BY DEF I!Init
  <2>4. QED BY <2>1, <2>2, <2>3 DEF CountsInv
<1>7. QED BY <1>2, <1>4, <1>5, <1>6 DEF InboundInv

\* A request that does not move keeps what holds of it, as the stores only grow.
LEMMA OtherRequests ==
  ASSUME InboundInv, cfg' = cfg, events \subseteq events', missed \subseteq missed',
         \A o \in I!Occs : outbox[o] > 0 => outbox'[o] > 0,
         \A o \in I!Occs : heard[o] > 0 => heard'[o] > 0,
         NEW q \in Requests, reqs'[q] = reqs[q]
  PROVE  RequestInv(q)'
<1>1. RequestInv(q) /\ cfg \in Configs
  BY DEF InboundInv, InboundType
<1>2. \A steps : Past(q, steps)' <=> Past(q, steps)
  BY DEF Past, Told
<1>3. Past(q, {"persist", "enqueue", "forward"}) => reqs[q].batch \in cfg.batches
  BY <1>1 DEF RequestInv, Past, Told
<1>4. Handled(q)'
  <2> SUFFICES ASSUME Past(q, {"persist", "enqueue", "forward"})'
               PROVE  Handled(q)'
    BY DEF Handled
  <2>1. /\ \A i \in ItemsOf(reqs[q].batch) : Wanted(i) => \E e \in reqs[q].kept : e.occ = i.occ /\ e.url = I!Url(i)
        /\ \A i \in ItemsOf(reqs[q].batch) : I!Receipt(i) => i.occ \in reqs[q].receipts
        /\ reqs[q].receipts \subseteq OccsOf(reqs[q].batch)
        /\ \A e \in reqs[q].kept : \E i \in ItemsOf(reqs[q].batch) : e.occ = i.occ /\ (e.key = I!Key(i) \/ i.time = 0)
    BY <1>1, <1>2 DEF RequestInv, Handled
  <2>2. \A i \in ItemsOf(reqs'[q].batch) : Wanted(i)' => \E e \in reqs'[q].kept : e.occ = i.occ /\ e.url = I!Url(i)'
    BY <2>1, ReadingIsFixed
  <2>3. \A i \in ItemsOf(reqs'[q].batch) : I!Receipt(i)' => i.occ \in reqs'[q].receipts
    BY <2>1, ReadingIsFixed
  <2>4. \A e \in reqs'[q].kept : \E i \in ItemsOf(reqs'[q].batch) : e.occ = i.occ /\ (e.key = I!Key(i)' \/ i.time = 0)
    BY <2>1, ReadingIsFixed
  <2>5. reqs'[q].receipts \subseteq OccsOf(reqs'[q].batch)
    BY <2>1
  <2>6. QED BY <2>2, <2>3, <2>4, <2>5 DEF Handled
<1>5. Persisted(q)'
  BY <1>1, <1>2 DEF RequestInv, Persisted
<1>6. Past(q, {"forward"}) => /\ \A e \in reqs[q].kept : e.occ \in I!Occs
                              /\ reqs[q].receipts \subseteq I!Occs
  BY <1>1, <1>3, OccsOfConfig DEF RequestInv, Handled, Past, OccsOf
<1>7. Enqueued(q)'
  BY <1>1, <1>2, <1>6 DEF RequestInv, Enqueued
<1>8. Delivered(q)'
  <2>1. I!Destination' <=> I!Destination
    BY DEF I!Destination
  <2>2. (reqs[q].pc = "end" \/ Told(q)) => Past(q, {"forward"})
    BY DEF Past
  <2>3. Told(q)' <=> Told(q)
    BY DEF Told
  <2>4. QED BY <1>1, <1>6, <2>1, <2>2, <2>3 DEF RequestInv, Delivered
<1>9. QED BY <1>1, <1>4, <1>5, <1>7, <1>8 DEF RequestInv

\* What the handler made of a batch stays what it made of it.
LEMMA HandledStays ==
  ASSUME NEW r, cfg' = cfg, Handled(r), Past(r, {"persist", "enqueue", "forward"}),
         reqs'[r].batch = reqs[r].batch, reqs'[r].kept = reqs[r].kept, reqs'[r].receipts = reqs[r].receipts
  PROVE  Handled(r)'
<1>1. /\ \A i \in ItemsOf(reqs[r].batch) : Wanted(i) => \E e \in reqs[r].kept : e.occ = i.occ /\ e.url = I!Url(i)
      /\ \A i \in ItemsOf(reqs[r].batch) : I!Receipt(i) => i.occ \in reqs[r].receipts
      /\ reqs[r].receipts \subseteq OccsOf(reqs[r].batch)
      /\ \A e \in reqs[r].kept : \E i \in ItemsOf(reqs[r].batch) : e.occ = i.occ /\ (e.key = I!Key(i) \/ i.time = 0)
  BY DEF Handled
<1>2. \A i \in ItemsOf(reqs[r].batch) : Wanted(i)' => \E e \in reqs[r].kept : e.occ = i.occ /\ e.url = I!Url(i)'
  BY <1>1, ReadingIsFixed
<1>3. \A i \in ItemsOf(reqs[r].batch) : I!Receipt(i)' => i.occ \in reqs[r].receipts
  BY <1>1, ReadingIsFixed
<1>4. \A e \in reqs[r].kept : \E i \in ItemsOf(reqs[r].batch) : e.occ = i.occ /\ (e.key = I!Key(i)' \/ i.time = 0)
  BY <1>1, ReadingIsFixed
<1>5. QED BY <1>1, <1>2, <1>3, <1>4 DEF Handled

LEMMA EventsStay ==
  ASSUME InboundInv, cfg' = cfg, events' = events
  PROVE  EventsInv'
<1> SUFFICES ASSUME NEW row \in events
             PROVE  \E i \in Items(cfg) : row = [key |-> row.key, occ |-> i.occ] /\ (row.key = I!Key(i)' \/ i.time = 0)
  BY DEF EventsInv
<1>1. PICK i \in Items(cfg) : row = [key |-> row.key, occ |-> i.occ] /\ (row.key = I!Key(i) \/ i.time = 0)
  BY DEF InboundInv, EventsInv
<1>2. QED BY <1>1, ReadingIsFixed

\* Where no request comes nearer to a store or the backend, the counts stay.
LEMMA CountsStay ==
  ASSUME InboundInv, UNCHANGED <<outbox, heard, posts, lost>>,
         \A o \in I!Occs : Owing(o)' \subseteq Owing(o) /\ Hearing(o)' \subseteq Hearing(o)
  PROVE  CountsInv'
<1> SUFFICES ASSUME NEW o \in I!Occs
             PROVE  /\ outbox[o] + Cardinality(Owing(o)') <= posts[o]
                    /\ heard[o] + Cardinality(Hearing(o)') <= posts[o] + lost
  BY DEF CountsInv
<1>1. Owing(o) \in SUBSET Requests /\ Hearing(o) \in SUBSET Requests
  BY DEF Owing, Hearing
<1>2. Owing(o)' \in SUBSET Requests /\ Hearing(o)' \in SUBSET Requests
  BY DEF Owing, Hearing
<1>3. Owing(o)' \subseteq Owing(o) /\ Hearing(o)' \subseteq Hearing(o)
  OBVIOUS
<1>4. CASE Requests = {}
  BY <1>1, <1>2, <1>4 DEF InboundInv, CountsInv
<1>5. CASE Requests # {}
  <2>1. PICK r \in Requests : TRUE
    BY <1>5
  <2>2. Cardinality(Owing(o)') <= Cardinality(Owing(o)) /\ Cardinality(Hearing(o)') <= Cardinality(Hearing(o))
    BY <1>1, <1>2, <1>3, <2>1, RequestSetSizes
  <2>3. /\ Cardinality(Owing(o)) \in Nat /\ Cardinality(Owing(o)') \in Nat
        /\ Cardinality(Hearing(o)) \in Nat /\ Cardinality(Hearing(o)') \in Nat
    BY <1>1, <1>2, RequestsAreFinite
  <2>4. outbox[o] \in Nat /\ heard[o] \in Nat /\ posts[o] \in Nat /\ lost \in Nat
    BY DEF InboundInv, InboundType
  <2>5. /\ outbox[o] + Cardinality(Owing(o)) <= posts[o]
        /\ heard[o] + Cardinality(Hearing(o)) <= posts[o] + lost
    BY DEF InboundInv, CountsInv
  <2>6. QED BY <2>2, <2>3, <2>4, <2>5
<1>6. QED BY <1>4, <1>5

\* A request goes to another place; the other requests stay.
LEMMA GotoMoves ==
  ASSUME InboundType, NEW r \in Requests, NEW x \in Places, I!Goto(r, x), UNCHANGED <<cfg, outbox, heard, posts, lost>>
  PROVE  /\ InboundType'
         /\ reqs'[r].pc = x /\ reqs'[r].batch = reqs[r].batch /\ reqs'[r].kept = reqs[r].kept
         /\ reqs'[r].receipts = reqs[r].receipts /\ reqs'[r].attempt = reqs[r].attempt
         /\ reqs'[r].answer = reqs[r].answer
         /\ \A q \in Requests \ {r} : reqs'[q] = reqs[q]
<1>1. PICK K, P : reqs \in [Requests -> [pc : Places, batch : {<<>>} \cup cfg.batches, proof : P, kept : K,
                                         receipts : SUBSET I!Occs, attempt : Nat, answer : Nat]]
  BY DEF InboundType
<1>2. reqs' = [reqs EXCEPT ![r].pc = x]
  BY DEF I!Goto
<1>3. reqs' \in [Requests -> [pc : Places, batch : {<<>>} \cup cfg.batches, proof : P, kept : K,
                              receipts : SUBSET I!Occs, attempt : Nat, answer : Nat]]
  BY <1>1, <1>2
<1>4. InboundType'
  BY <1>3 DEF InboundType
<1>5. QED BY <1>1, <1>2, <1>4

LEMMA AnswerMoves ==
  ASSUME InboundType, NEW r \in Requests, NEW x \in Places, NEW n \in Nat,
         reqs' = [reqs EXCEPT ![r].pc = x, ![r].answer = n], UNCHANGED <<cfg, outbox, heard, posts, lost>>
  PROVE  /\ InboundType'
         /\ reqs'[r].pc = x /\ reqs'[r].batch = reqs[r].batch /\ reqs'[r].kept = reqs[r].kept
         /\ reqs'[r].receipts = reqs[r].receipts /\ reqs'[r].attempt = reqs[r].attempt /\ reqs'[r].answer = n
         /\ \A q \in Requests \ {r} : reqs'[q] = reqs[q]
<1>1. PICK K, P : reqs \in [Requests -> [pc : Places, batch : {<<>>} \cup cfg.batches, proof : P, kept : K,
                                         receipts : SUBSET I!Occs, attempt : Nat, answer : Nat]]
  BY DEF InboundType
<1>2. reqs' \in [Requests -> [pc : Places, batch : {<<>>} \cup cfg.batches, proof : P, kept : K,
                              receipts : SUBSET I!Occs, attempt : Nat, answer : Nat]]
  BY <1>1
<1>3. InboundType'
  BY <1>2 DEF InboundType
<1>4. QED BY <1>1, <1>3

LEMMA ReplyMoves ==
  ASSUME InboundType, NEW r \in Requests, NEW n \in Nat, I!Reply(r, n), UNCHANGED <<cfg, outbox, heard, posts, lost>>
  PROVE  /\ InboundType'
         /\ reqs'[r].pc = "answered" /\ reqs'[r].answer = n /\ reqs'[r].batch = reqs[r].batch
         /\ \A q \in Requests \ {r} : reqs'[q] = reqs[q]
<1>1. reqs' = [reqs EXCEPT ![r].pc = "answered", ![r].answer = n] /\ "answered" \in Places
  BY DEF I!Reply, Places
<1>2. QED BY <1>1, AnswerMoves

\* A request that is answered otherwise than 200, or hangs, promises nothing.
LEMMA LeavesTheHandler ==
  ASSUME InboundInv, NEW r \in Requests, UNCHANGED <<cfg, events, outbox, heard, posts, lost>>, missed \subseteq missed',
         InboundType', \A q \in Requests \ {r} : reqs'[q] = reqs[q],
         reqs'[r].batch = reqs[r].batch, reqs[r].pc # "idle",
         \/ reqs'[r].pc = "answered" /\ ~(reqs'[r].answer = 200 /\ cfg.enabled)
         \/ reqs'[r].pc \in {"hung", "verify"} /\ reqs'[r].answer = 0,
         reqs'[r].pc = "verify" => reqs[r].pc = "route" /\ reqs'[r].attempt = reqs[r].attempt
  PROVE  InboundInv'
<1>1. RequestInv(r)'
  BY DEF RequestInv, Handled, Persisted, Enqueued, Delivered, Past, Told, InboundInv
<1>2. ASSUME NEW q \in Requests PROVE RequestInv(q)'
  BY <1>1, OtherRequests
<1>3. \A o \in I!Occs : Owing(o)' \subseteq Owing(o) /\ Hearing(o)' \subseteq Hearing(o)
  BY DEF Owing, Hearing
<1>4. CountsInv' /\ EventsInv'
  BY <1>3, CountsStay, EventsStay
<1>5. QED BY <1>2, <1>4 DEF InboundInv

LEMMA InboundRoute ==
  ASSUME InboundInv, NEW r \in Requests, I!Route(r)
  PROVE  InboundInv'
<1>1. UNCHANGED <<cfg, clock, events, outbox, heard, posts, lost, missed>> /\ reqs[r].pc = "route"
  BY DEF I!Route
<1>2. \/ ~cfg.enabled /\ I!Reply(r, 200)
      \/ I!Reply(r, 404)
      \/ I!Goto(r, "hung")
      \/ I!Goto(r, "verify")
  BY Zenon DEF I!Route
<1>3. InboundType /\ reqs[r].answer = 0
  BY <1>1 DEF InboundInv, RequestInv
<1>4. CASE ~cfg.enabled /\ I!Reply(r, 200)
  <2>1. /\ InboundType' /\ reqs'[r].pc = "answered" /\ reqs'[r].batch = reqs[r].batch
        /\ \A q \in Requests \ {r} : reqs'[q] = reqs[q]
    BY <1>1, <1>3, <1>4, ReplyMoves
  <2>2. QED BY <2>1, <1>1, <1>4, LeavesTheHandler
<1>5. CASE I!Reply(r, 404)
  <2>1. /\ InboundType' /\ reqs'[r].pc = "answered" /\ reqs'[r].batch = reqs[r].batch /\ reqs'[r].answer = 404
        /\ \A q \in Requests \ {r} : reqs'[q] = reqs[q]
    BY <1>1, <1>3, <1>5, ReplyMoves
  <2>2. QED BY <2>1, <1>1, LeavesTheHandler
<1>6. ASSUME NEW x \in {"hung", "verify"}, I!Goto(r, x) PROVE InboundInv'
  <2>1. /\ InboundType' /\ reqs'[r].pc = x /\ reqs'[r].batch = reqs[r].batch /\ reqs'[r].answer = 0
        /\ reqs'[r].attempt = reqs[r].attempt
        /\ \A q \in Requests \ {r} : reqs'[q] = reqs[q]
    BY <1>1, <1>3, <1>6, GotoMoves DEF Places
  <2>2. QED BY <2>1, <1>1, LeavesTheHandler
<1>7. QED BY <1>2, <1>4, <1>5, <1>6

\* A batch is posted, or posted again.
LEMMA NewRequest ==
  ASSUME NEW b, NEW p
  PROVE  [I!Idle EXCEPT !.pc = "route", !.batch = b, !.proof = p]
           = [pc |-> "route", batch |-> b, proof |-> p, kept |-> {}, receipts |-> {}, attempt |-> 0, answer |-> 0]
<1> DEFINE new == [I!Idle EXCEPT !.pc = "route", !.batch = b, !.proof = p]
<1>1. /\ DOMAIN I!Idle = {"pc", "batch", "proof", "kept", "receipts", "attempt", "answer"}
      /\ I!Idle.kept = {} /\ I!Idle.receipts = {} /\ I!Idle.attempt = 0 /\ I!Idle.answer = 0
  BY DEF I!Idle
<1>2. DOMAIN new = {"pc", "batch", "proof", "kept", "receipts", "attempt", "answer"}
  BY <1>1
<1>3. /\ new.pc = "route" /\ new.batch = b /\ new.proof = p /\ new.kept = {} /\ new.receipts = {}
      /\ new.attempt = 0 /\ new.answer = 0
  BY <1>1
<1>4. new = [f \in DOMAIN new |-> new[f]]
  OBVIOUS
<1> HIDE DEF new
<1>5. new = [pc |-> "route", batch |-> b, proof |-> p, kept |-> {}, receipts |-> {}, attempt |-> 0, answer |-> 0]
  BY <1>2, <1>3, <1>4
<1>6. QED BY <1>5 DEF new

LEMMA InboundOpen ==
  ASSUME FlowsAssumption, InboundInv, NEW r \in Requests, NEW b \in cfg.batches, NEW proof, I!Open(r, b, proof)
  PROVE  InboundInv'
<1> DEFINE rec == [pc |-> "route", batch |-> b, proof |-> proof, kept |-> {}, receipts |-> {}, attempt |-> 0, answer |-> 0]
<1>1. /\ reqs[r].pc = "idle" /\ reqs' = [reqs EXCEPT ![r] = rec]
      /\ posts' = [o \in I!Occs |-> posts[o] + Cardinality({i \in DOMAIN b : b[i].occ = o})]
      /\ UNCHANGED <<cfg, clock, events, outbox, heard, missed, lost>>
  <2>1. posts' = [o \in I!Occs |-> posts[o] + I!Cardinality({i \in DOMAIN b : b[i].occ = o})]
    BY DEF I!Open, I!Posted
  <2>2. \A o : I!Cardinality({i \in DOMAIN b : b[i].occ = o}) = Cardinality({i \in DOMAIN b : b[i].occ = o})
    BY InboundSets
  <2>3. posts' = [o \in I!Occs |-> posts[o] + Cardinality({i \in DOMAIN b : b[i].occ = o})]
    BY <2>1, <2>2, Zenon
  <2>4. reqs[r].pc = "idle" /\ UNCHANGED <<cfg, clock, events, outbox, heard, missed, lost>>
    BY DEF I!Open
  <2>5. [I!Idle EXCEPT !.pc = "route", !.batch = b, !.proof = proof] = rec
    BY NewRequest, Zenon
  <2>6. reqs' = [reqs EXCEPT ![r] = rec]
    BY <2>5, Zenon DEF I!Open
  <2>7. QED BY <2>3, <2>4, <2>6
<1>2. PICK K, P : reqs \in [Requests -> [pc : Places, batch : {<<>>} \cup cfg.batches, proof : P, kept : K,
                                         receipts : SUBSET I!Occs, attempt : Nat, answer : Nat]]
  BY DEF InboundInv, InboundType
<1>3. cfg \in Configs /\ OccsOf(b) \subseteq I!Occs
  BY OccsOfConfig DEF InboundInv, InboundType
<1>4. b \in Seq(ItemsOf(b))
  BY <1>3, FlowsAssumption DEF I!InboundAssumption, ItemsOf
<1>5. ASSUME NEW o
      PROVE  /\ Cardinality({i \in DOMAIN b : b[i].occ = o}) \in Nat
             /\ o \in OccsOf(b) => Cardinality({i \in DOMAIN b : b[i].occ = o}) > 0
  <2> DEFINE S == {i \in DOMAIN b : b[i].occ = o}
  <2>1. DOMAIN b = 1 .. Len(b) /\ Len(b) \in Nat
    BY <1>4, LenProperties
  <2>2. IsFiniteSet(S)
    <3>1. IsFiniteSet(1 .. Len(b))
      BY <2>1, FS_Interval
    <3>2. S \subseteq 1 .. Len(b)
      BY <2>1
    <3>3. QED BY <3>1, <3>2, FS_Subset
  <2>3. Cardinality(S) \in Nat /\ (Cardinality(S) = 0 <=> S = {})
    BY <2>2, FS_CardinalityType, FS_EmptySet
  <2>4. o \in OccsOf(b) => S # {}
    BY DEF OccsOf, ItemsOf
  <2>5. QED BY <2>3, <2>4
<1>6. rec \in [pc : Places, batch : {<<>>} \cup cfg.batches, proof : P \cup {proof}, kept : K \cup {{}},
               receipts : SUBSET I!Occs, attempt : Nat, answer : Nat]
  <2>1. "route" \in Places /\ b \in {<<>>} \cup cfg.batches /\ proof \in P \cup {proof} /\ {} \in K \cup {{}} /\ 0 \in Nat
    BY DEF Places
  <2>2. {} \in SUBSET I!Occs
    BY Zenon
  <2>3. QED BY <2>1, <2>2, RequestRecord, Zenon
<1>7. InboundType'
  <2>1. reqs' \in [Requests -> [pc : Places, batch : {<<>>} \cup cfg.batches, proof : P \cup {proof}, kept : K \cup {{}},
                                receipts : SUBSET I!Occs, attempt : Nat, answer : Nat]]
    <3>1. \A q \in Requests : reqs[q] \in [pc : Places, batch : {<<>>} \cup cfg.batches, proof : P \cup {proof},
                                           kept : K \cup {{}}, receipts : SUBSET I!Occs, attempt : Nat, answer : Nat]
      BY <1>2
    <3> HIDE DEF rec
    <3>2. QED BY <1>1, <1>2, <1>6, <3>1
  <2>2. posts' \in [I!Occs -> Nat]
    <3>1. \A o \in I!Occs : posts[o] \in Nat
      BY DEF InboundInv, InboundType
    <3>2. ASSUME NEW o \in I!Occs PROVE posts[o] + Cardinality({i \in DOMAIN b : b[i].occ = o}) \in Nat
      <4>1. posts[o] \in Nat /\ Cardinality({i \in DOMAIN b : b[i].occ = o}) \in Nat
        BY <3>1, <1>5
      <4>2. QED BY <4>1
    <3>3. QED BY <3>2, <1>1
  <2>3. {outbox', heard', posts'} \subseteq [I!Occs -> Nat] /\ lost' \in Nat /\ cfg' \in Configs
    BY <2>2, <1>1 DEF InboundInv, InboundType
  <2>4. \E L, Q : reqs' \in [Requests -> [pc : Places, batch : {<<>>} \cup cfg'.batches, proof : Q, kept : L,
                                         receipts : SUBSET I!Occs, attempt : Nat, answer : Nat]]
    <3>1. cfg' = cfg
      BY <1>1
    <3> HIDE <1>1, <1>2
    <3>2. QED BY <2>1, <3>1, Zenon
  <2>5. QED BY <2>3, <2>4, Zenon DEF InboundType
<1>8. /\ reqs'[r].pc = "route" /\ reqs'[r].answer = 0 /\ reqs'[r].batch = b /\ reqs'[r].attempt = 0
      /\ \A q \in Requests \ {r} : reqs'[q] = reqs[q]
  BY <1>1, <1>2
<1>14. 0 <= MaxRetries
  BY FlowsAssumption DEF I!InboundAssumption
<1>9. RequestInv(r)'
  BY <1>1, <1>8, <1>14 DEF RequestInv, Handled, Persisted, Enqueued, Delivered, Past, Told
<1>10. \A q \in Requests : RequestInv(q)'
  BY <1>1, <1>8, <1>9, OtherRequests
<1>11. EventsInv'
  BY <1>1, EventsStay
<1>12. CountsInv'
  <2> SUFFICES ASSUME NEW o \in I!Occs
               PROVE  /\ outbox[o] + Cardinality(Owing(o)') <= posts'[o]
                      /\ heard[o] + Cardinality(Hearing(o)') <= posts'[o] + lost
    BY <1>1 DEF CountsInv
  <2>1. /\ Owing(o) \in SUBSET Requests /\ Owing(o)' \in SUBSET Requests
        /\ Hearing(o) \in SUBSET Requests /\ Hearing(o)' \in SUBSET Requests
    BY DEF Owing, Hearing
  <2>2. /\ Owing(o)' \subseteq Owing(o) \cup {r} /\ Hearing(o)' \subseteq Hearing(o) \cup {r}
        /\ o \notin OccsOf(b) => Owing(o)' \subseteq Owing(o) /\ Hearing(o)' \subseteq Hearing(o)
    BY <1>8 DEF Owing, Hearing
  <2>3. /\ Cardinality(Owing(o)') <= Cardinality(Owing(o)) + 1
        /\ Cardinality(Hearing(o)') <= Cardinality(Hearing(o)) + 1
        /\ o \notin OccsOf(b) => /\ Cardinality(Owing(o)') <= Cardinality(Owing(o))
                                 /\ Cardinality(Hearing(o)') <= Cardinality(Hearing(o))
    BY <2>1, <2>2, RequestSetSizes
  <2>4. posts'[o] = posts[o] + Cardinality({i \in DOMAIN b : b[i].occ = o})
    BY <1>1
  <2>5. /\ Cardinality(Owing(o)) \in Nat /\ Cardinality(Owing(o)') \in Nat
        /\ Cardinality(Hearing(o)) \in Nat /\ Cardinality(Hearing(o)') \in Nat
    BY <2>1, RequestsAreFinite
  <2>6. outbox[o] \in Nat /\ heard[o] \in Nat /\ posts[o] \in Nat /\ lost \in Nat
    BY DEF InboundInv, InboundType
  <2>7. /\ outbox[o] + Cardinality(Owing(o)) <= posts[o]
        /\ heard[o] + Cardinality(Hearing(o)) <= posts[o] + lost
    BY DEF InboundInv, CountsInv
  <2>8. Cardinality({i \in DOMAIN b : b[i].occ = o}) \in Nat /\ (o \in OccsOf(b) => Cardinality({i \in DOMAIN b : b[i].occ = o}) > 0)
    BY <1>5
  <2>9. QED BY <2>3, <2>4, <2>5, <2>6, <2>7, <2>8
<1>13. QED BY <1>7, <1>10, <1>11, <1>12 DEF InboundInv

LEMMA InboundVerify ==
  ASSUME InboundInv, NEW r \in Requests, I!Verify(r)
  PROVE  InboundInv'
<1> DEFINE b == reqs[r].batch
           heardOf == {b[i].occ : i \in {i \in DOMAIN b : I!Receipt(b[i])}}
<1>1. UNCHANGED <<cfg, clock, events, outbox, heard, posts, lost, missed>> /\ reqs[r].pc = "verify"
  BY DEF I!Verify
<1>2. \/ \E n \in {400, 401, 404} : I!Reply(r, n)
      \/ I!Goto(r, "hung")
      \/ reqs' = [reqs EXCEPT ![r].pc = "persist", ![r].kept = I!Kept(b), ![r].receipts = heardOf]
  BY DEF I!Verify
<1>3. InboundType /\ reqs[r].answer = 0 /\ cfg \in Configs /\ b \in cfg.batches
  BY <1>1 DEF InboundInv, RequestInv, InboundType
<1>4. ASSUME NEW n \in {400, 401, 404}, I!Reply(r, n) PROVE InboundInv'
  <2>1. /\ InboundType' /\ reqs'[r].pc = "answered" /\ reqs'[r].batch = reqs[r].batch /\ reqs'[r].answer = n
        /\ \A q \in Requests \ {r} : reqs'[q] = reqs[q]
    BY <1>1, <1>3, <1>4, ReplyMoves
  <2>2. QED BY <2>1, <1>1, LeavesTheHandler
<1>5. ASSUME reqs' = [reqs EXCEPT ![r].pc = "persist", ![r].kept = I!Kept(b), ![r].receipts = heardOf]
      PROVE  InboundInv'
  <2>1. PICK K, P : reqs \in [Requests -> [pc : Places, batch : {<<>>} \cup cfg.batches, proof : P, kept : K,
                                           receipts : SUBSET I!Occs, attempt : Nat, answer : Nat]]
    BY <1>3 DEF InboundType
  <2>2. heardOf \subseteq OccsOf(b) /\ OccsOf(b) \subseteq I!Occs
    BY <1>3, OccsOfConfig DEF OccsOf, ItemsOf
  <2>3. /\ reqs'[r].pc = "persist" /\ reqs'[r].batch = b /\ reqs'[r].kept = I!Kept(b) /\ reqs'[r].receipts = heardOf
        /\ reqs'[r].answer = reqs[r].answer /\ reqs'[r].attempt = reqs[r].attempt
        /\ \A q \in Requests \ {r} : reqs'[q] = reqs[q]
    BY <1>5, <2>1
  <2>4. InboundType'
    <3>1. reqs' \in [Requests -> [pc : Places, batch : {<<>>} \cup cfg.batches, proof : P, kept : K \cup {I!Kept(b)},
                                  receipts : SUBSET I!Occs, attempt : Nat, answer : Nat]]
      <4>1. "persist" \in Places
        BY DEF Places
      <4>2. heardOf \in SUBSET I!Occs
        BY <2>2
      <4> DEFINE wide == [pc : Places, batch : {<<>>} \cup cfg.batches, proof : P, kept : K \cup {I!Kept(b)},
                          receipts : SUBSET I!Occs, attempt : Nat, answer : Nat]
                 new  == [reqs[r] EXCEPT !.pc = "persist", !.kept = I!Kept(b), !.receipts = heardOf]
      <4> HIDE DEF heardOf, b
      <4>3. reqs = [q \in Requests |-> reqs[q]] /\ \A q \in Requests : reqs[q] \in wide
        BY <2>1
      <4>4. new \in wide
        BY <4>1, <4>2, <4>3
      <4>5. reqs' = [q \in Requests |-> IF q = r THEN new ELSE reqs[q]]
        BY <1>5, <4>3
      <4> HIDE DEF new, wide
      <4>6. reqs' \in [Requests -> wide]
        BY <4>3, <4>4, <4>5
      <4>7. QED BY <4>6 DEF wide
    <3>2. QED BY <3>1, <1>1 DEF InboundInv, InboundType
  <2>5. Handled(r)'
    <3>1. \A i \in ItemsOf(b) : I!Key(i)' = I!Key(i)
      BY <1>1 DEF I!Key, I!Time, I!Event
    <3>2. \A i \in ItemsOf(b) : Wanted(i) => \E e \in I!Kept(b) : e.occ = i.occ /\ e.url = I!Url(i)
      <4> SUFFICES ASSUME NEW i \in ItemsOf(b), Wanted(i)
                   PROVE  \E e \in I!Kept(b) : e.occ = i.occ /\ e.url = I!Url(i)
        OBVIOUS
      <4>1. PICK k \in DOMAIN b : i = b[k]
        BY DEF ItemsOf
      <4> DEFINE e == [occ |-> b[k].occ, key |-> I!Key(b[k]), url |-> I!Url(b[k])]
      <4>2. e \in I!Kept(b)
        BY <4>1 DEF Wanted, I!Kept
      <4>3. e.occ = i.occ /\ e.url = I!Url(i)
        BY <4>1
      <4>4. QED BY <4>2, <4>3
    <3>3. \A e \in I!Kept(b) : \E i \in ItemsOf(b) : e.occ = i.occ /\ e.key = I!Key(i)
      BY DEF ItemsOf, I!Kept
    <3>4. \A i \in ItemsOf(b) : I!Receipt(i) => i.occ \in heardOf
      BY DEF ItemsOf
    <3> HIDE DEF heardOf, b
    <3>5. \A i \in ItemsOf(b) : Wanted(i)' => \E e \in I!Kept(b) : e.occ = i.occ /\ e.url = I!Url(i)'
      BY <3>2, <1>1, ReadingIsFixed
    <3>6. \A i \in ItemsOf(b) : I!Receipt(i)' => i.occ \in heardOf
      BY <3>4, <1>1, ReadingIsFixed
    <3>7. \A e \in I!Kept(b) : \E i \in ItemsOf(b) : e.occ = i.occ /\ e.key = I!Key(i)'
      BY <3>1, <3>3
    <3>8. QED BY <2>2, <2>3, <3>5, <3>6, <3>7 DEF Handled
  <2>6. RequestInv(r)'
    <3>1. reqs'[r].attempt <= MaxRetries
      BY <1>1, <2>3 DEF InboundInv, RequestInv, Delivered
    <3>2. QED BY <1>1, <1>3, <2>3, <2>5, <3>1 DEF RequestInv, Persisted, Enqueued, Delivered, Past, Told
  <2>7. \A q \in Requests : RequestInv(q)'
    BY <1>1, <2>3, <2>6, OtherRequests
  <2>8. \A o \in I!Occs : Owing(o)' \subseteq Owing(o) /\ Hearing(o)' \subseteq Hearing(o)
    BY <1>1, <2>3 DEF Owing, Hearing
  <2>9. QED BY <1>1, <2>4, <2>7, <2>8, CountsStay, EventsStay DEF InboundInv
<1>6. ASSUME I!Goto(r, "hung") PROVE InboundInv'
  <2>1. /\ InboundType' /\ reqs'[r].pc = "hung" /\ reqs'[r].batch = reqs[r].batch /\ reqs'[r].answer = 0
        /\ \A q \in Requests \ {r} : reqs'[q] = reqs[q]
    BY <1>1, <1>3, <1>6, GotoMoves DEF Places
  <2>2. QED BY <2>1, <1>1, LeavesTheHandler
<1>7. QED BY <1>2, <1>4, <1>5, <1>6

\* A row that is stored names an item that was posted, and its key.
LEMMA InboundPersist ==
  ASSUME InboundInv, NEW r \in Requests, I!Persist(r)
  PROVE  InboundInv'
<1>1. UNCHANGED <<cfg, clock, outbox, heard, posts, lost>> /\ reqs[r].pc = "persist" /\ I!Goto(r, "enqueue")
  BY DEF I!Persist
<1>2. InboundType /\ reqs[r].answer = 0 /\ cfg \in Configs /\ reqs[r].batch \in cfg.batches /\ Handled(r)
  BY <1>1 DEF InboundInv, RequestInv, InboundType
<1>3. /\ InboundType' /\ reqs'[r].pc = "enqueue" /\ reqs'[r].batch = reqs[r].batch /\ reqs'[r].kept = reqs[r].kept
      /\ reqs'[r].receipts = reqs[r].receipts /\ reqs'[r].attempt = reqs[r].attempt /\ reqs'[r].answer = 0
      /\ \A q \in Requests \ {r} : reqs'[q] = reqs[q]
  BY <1>1, <1>2, GotoMoves DEF Places
<1>4. /\ \A i \in ItemsOf(reqs[r].batch) : Wanted(i) => \E e \in reqs[r].kept : e.occ = i.occ /\ e.url = I!Url(i)
      /\ \A i \in ItemsOf(reqs[r].batch) : I!Receipt(i) => i.occ \in reqs[r].receipts
      /\ reqs[r].receipts \subseteq OccsOf(reqs[r].batch)
      /\ \A e \in reqs[r].kept : \E i \in ItemsOf(reqs[r].batch) : e.occ = i.occ /\ (e.key = I!Key(i) \/ i.time = 0)
  BY <1>1, <1>2 DEF Handled, Past
<1>5. \/ /\ \E new \in SUBSET {[key |-> e.key, occ |-> e.occ] : e \in I!Fresh(reqs[r].kept)} :
               /\ \A e \in I!Fresh(reqs[r].kept) : I!Cardinality({row \in new : row.key = e.key}) = 1
               /\ events' = events \cup new
         /\ missed' = missed
      \/ events' = events /\ missed' = missed \cup {r}
  BY DEF I!Persist
<1>6. events \subseteq events' /\ missed \subseteq missed'
  BY <1>5
<1>7. \A e \in reqs[r].kept : r \in missed' \/ \E row \in events' : row.key = e.key
  <2>1. CASE events' = events /\ missed' = missed \cup {r}
    BY <2>1
  <2>2. ASSUME NEW new \in SUBSET {[key |-> e.key, occ |-> e.occ] : e \in I!Fresh(reqs[r].kept)},
               \A e \in I!Fresh(reqs[r].kept) : I!Cardinality({row \in new : row.key = e.key}) = 1,
               events' = events \cup new, NEW e \in reqs[r].kept
        PROVE  \E row \in events' : row.key = e.key
    <3>1. CASE e \in I!Fresh(reqs[r].kept)
      <4>1. Cardinality({row \in new : row.key = e.key}) = 1
        BY <2>2, <3>1, InboundSets
      <4>2. {row \in new : row.key = e.key} # {}
        BY <4>1, FS_EmptySet
      <4>3. QED BY <4>2, <2>2
    <3>2. CASE e \notin I!Fresh(reqs[r].kept)
      BY <3>2, <2>2 DEF I!Fresh
    <3>3. QED BY <3>1, <3>2
  <2>3. QED BY <2>1, <2>2, <1>5
<1>8. Handled(r)'
  BY <1>1, <1>2, <1>3, HandledStays DEF Past
<1>9. RequestInv(r)'
  <2>1. reqs'[r].attempt <= MaxRetries
    BY <1>1, <1>3 DEF InboundInv, RequestInv, Delivered
  <2>2. QED BY <1>1, <1>2, <1>3, <1>7, <1>8, <2>1 DEF RequestInv, Persisted, Enqueued, Delivered, Past, Told
<1>10. \A q \in Requests : RequestInv(q)'
  BY <1>1, <1>3, <1>6, <1>9, OtherRequests
<1>11. EventsInv'
  <2> SUFFICES ASSUME NEW row \in events'
               PROVE  \E i \in Items(cfg) : row = [key |-> row.key, occ |-> i.occ] /\ (row.key = I!Key(i)' \/ i.time = 0)
    BY <1>1 DEF EventsInv
  <2>1. CASE row \in events
    <3>1. PICK i \in Items(cfg) : row = [key |-> row.key, occ |-> i.occ] /\ (row.key = I!Key(i) \/ i.time = 0)
      BY <2>1 DEF InboundInv, EventsInv
    <3>2. QED BY <3>1, <1>1, ReadingIsFixed
  <2>2. CASE row \notin events
    <3>1. PICK e \in reqs[r].kept : row = [key |-> e.key, occ |-> e.occ]
      BY <1>5, <2>2 DEF I!Fresh
    <3>2. PICK i \in ItemsOf(reqs[r].batch) : e.occ = i.occ /\ (e.key = I!Key(i) \/ i.time = 0)
      BY <1>4
    <3>3. i \in Items(cfg)
      BY <1>2, OccsOfConfig
    <3>4. row.key = e.key /\ row = [key |-> row.key, occ |-> i.occ]
      BY <3>1, <3>2
    <3>5. QED BY <3>2, <3>3, <3>4, <1>1, ReadingIsFixed
  <2>3. QED BY <2>1, <2>2
<1>12. \A o \in I!Occs : Owing(o)' \subseteq Owing(o) /\ Hearing(o)' \subseteq Hearing(o)
  BY <1>1, <1>3 DEF Owing, Hearing
<1>13. QED BY <1>1, <1>3, <1>10, <1>11, <1>12, CountsStay DEF InboundInv

LEMMA InboundEnqueue ==
  ASSUME InboundInv, NEW r \in Requests, I!Enqueue(r)
  PROVE  InboundInv'
<1> DEFINE sent == {e.occ : e \in {e \in reqs[r].kept : e.url}}
<1>1. UNCHANGED <<cfg, clock, events, heard, posts, lost, missed>> /\ reqs[r].pc = "enqueue"
  BY DEF I!Enqueue
<1>2. \/ outbox' = [o \in I!Occs |-> outbox[o] + (IF o \in sent THEN 1 ELSE 0)] /\ I!Goto(r, "forward")
      \/ outbox' = outbox /\ I!Goto(r, "hung")
  BY DEF I!Enqueue
<1>3. /\ InboundType /\ reqs[r].answer = 0 /\ cfg \in Configs /\ reqs[r].batch \in cfg.batches
      /\ Handled(r) /\ Persisted(r) /\ reqs[r].attempt \in Nat
  BY <1>1 DEF InboundInv, RequestInv, InboundType
<1>4. CASE outbox' = outbox /\ I!Goto(r, "hung")
  <2>1. /\ InboundType' /\ reqs'[r].pc = "hung" /\ reqs'[r].batch = reqs[r].batch /\ reqs'[r].answer = 0
        /\ \A q \in Requests \ {r} : reqs'[q] = reqs[q]
    BY <1>1, <1>3, <1>4, GotoMoves DEF Places
  <2>2. QED BY <2>1, <1>1, <1>4, LeavesTheHandler
<1>5. ASSUME outbox' = [o \in I!Occs |-> outbox[o] + (IF o \in sent THEN 1 ELSE 0)], I!Goto(r, "forward")
      PROVE  InboundInv'
  <2>1. \A o \in I!Occs : outbox[o] \in Nat /\ heard[o] \in Nat /\ posts[o] \in Nat /\ lost \in Nat
    BY <1>3 DEF InboundType
  <2>2. \A o \in I!Occs : outbox'[o] = outbox[o] + (IF o \in sent THEN 1 ELSE 0)
    BY <1>5
  <2>3. outbox' \in [I!Occs -> Nat] /\ \A o \in I!Occs : outbox[o] > 0 => outbox'[o] > 0
    BY <2>1, <2>2, <1>5
  <2>4. PICK K, P : reqs \in [Requests -> [pc : Places, batch : {<<>>} \cup cfg.batches, proof : P, kept : K,
                                           receipts : SUBSET I!Occs, attempt : Nat, answer : Nat]]
    BY <1>3 DEF InboundType
  <2>5. reqs' = [reqs EXCEPT ![r].pc = "forward"]
    BY <1>5 DEF I!Goto
  <2>6. reqs' \in [Requests -> [pc : Places, batch : {<<>>} \cup cfg.batches, proof : P, kept : K,
                                receipts : SUBSET I!Occs, attempt : Nat, answer : Nat]]
    BY <2>4, <2>5 DEF Places
  <2>7. InboundType'
    BY <2>3, <2>6, <1>1, <1>3 DEF InboundType
  <2>8. /\ reqs'[r].pc = "forward" /\ reqs'[r].batch = reqs[r].batch /\ reqs'[r].kept = reqs[r].kept
        /\ reqs'[r].receipts = reqs[r].receipts /\ reqs'[r].attempt = reqs[r].attempt /\ reqs'[r].answer = 0
        /\ \A q \in Requests \ {r} : reqs'[q] = reqs[q]
    BY <2>4, <2>5, <1>3
  <2>9. \A e \in reqs[r].kept : e.occ \in OccsOf(reqs[r].batch)
    BY <1>1, <1>3 DEF Handled, Past, OccsOf
  <2>10. OccsOf(reqs[r].batch) \subseteq I!Occs
    BY <1>3, OccsOfConfig
  <2>11. \A e \in reqs[r].kept : e.url => outbox'[e.occ] > 0
    <3> SUFFICES ASSUME NEW e \in reqs[r].kept, e.url PROVE outbox'[e.occ] > 0
      OBVIOUS
    <3>1. e.occ \in sent /\ e.occ \in I!Occs
      BY <2>9, <2>10
    <3> HIDE DEF sent
    <3>2. QED BY <3>1, <2>1, <2>2
  <2>12. Handled(r)'
    BY <1>1, <1>3, <2>8, HandledStays DEF Past
  <2>13. Persisted(r)'
    BY <1>1, <1>3, <2>8 DEF Persisted, Past
  <2>14. Delivered(r)' /\ Enqueued(r)'
    <3>1. ~Told(r)'
      BY <2>8 DEF Told
    <3>2. reqs'[r].attempt <= MaxRetries
      BY <2>8, <1>1 DEF InboundInv, RequestInv, Delivered
    <3>3. QED BY <3>1, <3>2, <2>8, <2>11 DEF Delivered, Enqueued
  <2>15. RequestInv(r)'
    BY <1>1, <1>3, <2>8, <2>12, <2>13, <2>14 DEF RequestInv
  <2>16. \A q \in Requests : RequestInv(q)'
    BY <1>1, <2>3, <2>8, <2>15, OtherRequests
  <2>17. CountsInv'
    <3> SUFFICES ASSUME NEW o \in I!Occs
                 PROVE  /\ outbox'[o] + Cardinality(Owing(o)') <= posts[o]
                        /\ heard[o] + Cardinality(Hearing(o)') <= posts[o] + lost
      BY <1>1 DEF CountsInv
    <3>1. /\ Owing(o) \in SUBSET Requests /\ Owing(o)' \in SUBSET Requests
          /\ Hearing(o) \in SUBSET Requests /\ Hearing(o)' \in SUBSET Requests
      BY DEF Owing, Hearing
    <3>2. /\ Owing(o)' \subseteq Owing(o) \ {r} /\ Hearing(o)' \subseteq Hearing(o)
          /\ o \in OccsOf(reqs[r].batch) => r \in Owing(o)
      BY <1>1, <2>8 DEF Owing, Hearing
    <3>3. o \in sent => o \in OccsOf(reqs[r].batch)
      BY <2>9
    <3> HIDE DEF sent
    <3>4. /\ Cardinality(Hearing(o)') <= Cardinality(Hearing(o))
          /\ Cardinality(Owing(o)') <= Cardinality(Owing(o))
          /\ o \in sent => Cardinality(Owing(o)') + 1 <= Cardinality(Owing(o))
      BY <3>1, <3>2, <3>3, RequestSetSizes
    <3>5. /\ Cardinality(Owing(o)) \in Nat /\ Cardinality(Owing(o)') \in Nat
          /\ Cardinality(Hearing(o)) \in Nat /\ Cardinality(Hearing(o)') \in Nat
      BY <3>1, RequestsAreFinite
    <3>6. /\ outbox[o] + Cardinality(Owing(o)) <= posts[o]
          /\ heard[o] + Cardinality(Hearing(o)) <= posts[o] + lost
      BY DEF InboundInv, CountsInv
    <3>7. outbox'[o] = IF o \in sent THEN outbox[o] + 1 ELSE outbox[o]
      BY <2>1, <2>2
    <3>8. QED BY <3>4, <3>5, <3>6, <3>7, <2>1
  <2>18. QED BY <1>1, <2>7, <2>16, <2>17, EventsStay DEF InboundInv
<1>6. QED BY <1>2, <1>4, <1>5

\* The backend hears of the receipts of a request: never more often than they were posted, or its answer was lost.
LEMMA TakeCounts ==
  ASSUME InboundInv, NEW r \in Requests, UNCHANGED <<outbox, posts>>, NEW heardOf,
         heard' = [o \in I!Occs |-> heard[o] + (IF o \in heardOf THEN 1 ELSE 0)],
         \A o \in I!Occs : Owing(o)' \subseteq Owing(o) /\ Hearing(o)' \subseteq Hearing(o),
         \/ lost' = lost + 1
         \/ lost' = lost /\ \A o \in I!Occs : r \notin Hearing(o)' /\ (o \in heardOf => r \in Hearing(o))
  PROVE  CountsInv'
<1> SUFFICES ASSUME NEW o \in I!Occs
             PROVE  /\ outbox[o] + Cardinality(Owing(o)') <= posts[o]
                    /\ heard'[o] + Cardinality(Hearing(o)') <= posts[o] + lost'
  BY DEF CountsInv
<1>1. outbox[o] \in Nat /\ heard[o] \in Nat /\ posts[o] \in Nat /\ lost \in Nat
  BY DEF InboundInv, InboundType
<1>2. heard'[o] = IF o \in heardOf THEN heard[o] + 1 ELSE heard[o]
  BY <1>1
<1>3. /\ Owing(o) \in SUBSET Requests /\ Owing(o)' \in SUBSET Requests
      /\ Hearing(o) \in SUBSET Requests /\ Hearing(o)' \in SUBSET Requests
  BY DEF Owing, Hearing
<1>4. /\ Cardinality(Owing(o)) \in Nat /\ Cardinality(Owing(o)') \in Nat
      /\ Cardinality(Hearing(o)) \in Nat /\ Cardinality(Hearing(o)') \in Nat
  BY <1>3, RequestsAreFinite
<1>5. Cardinality(Owing(o)') <= Cardinality(Owing(o)) /\ Cardinality(Hearing(o)') <= Cardinality(Hearing(o))
  BY <1>3, RequestSetSizes
<1>6. /\ outbox[o] + Cardinality(Owing(o)) <= posts[o]
      /\ heard[o] + Cardinality(Hearing(o)) <= posts[o] + lost
  BY DEF InboundInv, CountsInv
<1>7. CASE lost' = lost + 1
  BY <1>1, <1>2, <1>4, <1>5, <1>6, <1>7
<1>8. CASE lost' = lost /\ r \notin Hearing(o)' /\ (o \in heardOf => r \in Hearing(o))
  <2>1. o \in heardOf => Cardinality(Hearing(o)') + 1 <= Cardinality(Hearing(o))
    <3>1. Hearing(o)' \subseteq Hearing(o) \ {r}
      BY <1>8
    <3>2. QED BY <1>3, <1>8, <3>1, RequestSetSizes
  <2>2. QED BY <1>1, <1>2, <1>4, <1>5, <1>6, <1>8, <2>1
<1>9. QED BY <1>7, <1>8

\* A request past its enqueue, wherever the forwarding takes it.
LEMMA PastEnqueue ==
  ASSUME InboundInv, NEW r \in Requests, UNCHANGED <<cfg, events, outbox, missed>>,
         reqs[r].pc \in {"forward", "end", "refused"},
         reqs'[r].batch = reqs[r].batch, reqs'[r].kept = reqs[r].kept, reqs'[r].receipts = reqs[r].receipts,
         (reqs'[r].pc \in {"forward", "end", "refused"} /\ reqs'[r].answer = 0) \/ reqs'[r].pc \in {"answered", "answered, refused"},
         Delivered(r)'
  PROVE  RequestInv(r)'
<1>1. Handled(r) /\ Persisted(r) /\ Enqueued(r) /\ reqs[r].batch \in cfg.batches
  BY DEF InboundInv, RequestInv
<1>2. Handled(r)'
  BY <1>1, HandledStays DEF Past
<1>3. Persisted(r)' /\ Enqueued(r)'
  BY <1>1 DEF Persisted, Enqueued, Past
<1>4. QED BY <1>1, <1>2, <1>3 DEF RequestInv

LEMMA ForwardingRequest ==
  ASSUME InboundInv, NEW r \in Requests, reqs[r].pc \in {"forward", "end", "refused"}
  PROVE  /\ InboundType /\ cfg \in Configs /\ reqs[r].answer = 0 /\ reqs[r].attempt \in Nat
         /\ reqs[r].receipts \subseteq I!Occs /\ reqs[r].receipts \subseteq OccsOf(reqs[r].batch)
         /\ Delivered(r) /\ RequestInv(r)
<1>1. RequestInv(r) /\ InboundType
  BY DEF InboundInv
<1>2. cfg \in Configs /\ reqs[r].attempt \in Nat /\ reqs[r].receipts \subseteq I!Occs
  BY <1>1 DEF InboundType
<1>3. reqs[r].receipts \subseteq OccsOf(reqs[r].batch)
  BY <1>1 DEF RequestInv, Handled, Past
<1>4. QED BY <1>1, <1>2, <1>3 DEF RequestInv

LEMMA InboundAccepted ==
  ASSUME InboundInv, NEW r \in Requests, I!Accepted(r)
  PROVE  InboundInv'
<1>1. /\ UNCHANGED <<cfg, clock, events, outbox, posts, lost, missed>> /\ reqs[r].pc = "forward" /\ I!Goto(r, "end")
      /\ heard' = [o \in I!Occs |-> heard[o] + (IF o \in reqs[r].receipts THEN 1 ELSE 0)]
  BY DEF I!Accepted, I!Attempting, I!Take
<1>2. /\ InboundType /\ cfg \in Configs /\ reqs[r].answer = 0 /\ reqs[r].attempt \in Nat
      /\ reqs[r].receipts \subseteq I!Occs /\ reqs[r].receipts \subseteq OccsOf(reqs[r].batch)
  BY <1>1, ForwardingRequest
<1>3. \A o \in I!Occs : heard[o] \in Nat /\ heard'[o] = heard[o] + (IF o \in reqs[r].receipts THEN 1 ELSE 0)
  BY <1>1, <1>2 DEF InboundType
<1>4. PICK K, P : reqs \in [Requests -> [pc : Places, batch : {<<>>} \cup cfg.batches, proof : P, kept : K,
                                         receipts : SUBSET I!Occs, attempt : Nat, answer : Nat]]
  BY <1>2 DEF InboundType
<1>5. reqs' = [reqs EXCEPT ![r].pc = "end"]
  BY <1>1 DEF I!Goto
<1>6. /\ reqs'[r].pc = "end" /\ reqs'[r].batch = reqs[r].batch /\ reqs'[r].kept = reqs[r].kept
      /\ reqs'[r].receipts = reqs[r].receipts /\ reqs'[r].attempt = reqs[r].attempt /\ reqs'[r].answer = 0
      /\ \A q \in Requests \ {r} : reqs'[q] = reqs[q]
  BY <1>2, <1>4, <1>5
<1>7. InboundType'
  <2>1. reqs' \in [Requests -> [pc : Places, batch : {<<>>} \cup cfg.batches, proof : P, kept : K,
                                receipts : SUBSET I!Occs, attempt : Nat, answer : Nat]]
    BY <1>4, <1>5 DEF Places
  <2>2. heard' \in [I!Occs -> Nat]
    BY <1>1, <1>3
  <2>3. QED BY <2>1, <2>2, <1>1, <1>2 DEF InboundType
<1>8. Delivered(r)'
  <2>1. \A o \in reqs[r].receipts : heard'[o] > 0
    BY <1>2, <1>3
  <2>2. QED BY <2>1, <1>6 DEF Delivered
<1>9. RequestInv(r)'
  BY <1>1, <1>6, <1>8, PastEnqueue
<1>10. \A q \in Requests : RequestInv(q)'
  <2>1. \A o \in I!Occs : heard[o] > 0 => heard'[o] > 0
    BY <1>3
  <2>2. QED BY <2>1, <1>1, <1>6, <1>9, OtherRequests
<1>11. CountsInv'
  <2>1. ASSUME NEW o \in I!Occs
        PROVE  /\ Owing(o)' \subseteq Owing(o) /\ Hearing(o)' \subseteq Hearing(o)
               /\ r \notin Hearing(o)' /\ (o \in reqs[r].receipts => r \in Hearing(o))
    BY <1>1, <1>2, <1>6 DEF Owing, Hearing
  <2>2. QED BY <2>1, <1>1, TakeCounts
<1>12. QED BY <1>1, <1>7, <1>10, <1>11, EventsStay DEF InboundInv

LEMMA InboundFailed ==
  ASSUME FlowsAssumption, InboundInv, NEW r \in Requests, I!Failed(r)
  PROVE  InboundInv'
<1> DEFINE place == IF reqs[r].attempt < MaxRetries THEN "forward" ELSE "end"
           next == reqs[r].attempt + 1
<1>1. /\ UNCHANGED <<cfg, clock, events, outbox, posts, missed>> /\ reqs[r].pc = "forward"
      /\ reqs' = [reqs EXCEPT ![r].attempt = next, ![r].pc = place]
  BY DEF I!Failed, I!Attempting, I!Later
<1>2. \/ heard' = heard /\ lost' = lost
      \/ heard' = [o \in I!Occs |-> heard[o] + (IF o \in reqs[r].receipts THEN 1 ELSE 0)] /\ lost' = lost + 1
  BY DEF I!Failed, I!Take
<1>3. /\ InboundType /\ cfg \in Configs /\ reqs[r].answer = 0 /\ reqs[r].attempt \in Nat /\ Delivered(r)
  BY <1>1, ForwardingRequest
<1>4. PICK K, P : reqs \in [Requests -> [pc : Places, batch : {<<>>} \cup cfg.batches, proof : P, kept : K,
                                         receipts : SUBSET I!Occs, attempt : Nat, answer : Nat]]
  BY <1>3 DEF InboundType
<1>13. place \in {"forward", "end"} /\ next \in Nat
  BY <1>3
<1> HIDE DEF place, next
<1>5. /\ reqs'[r].pc = place /\ reqs'[r].batch = reqs[r].batch /\ reqs'[r].kept = reqs[r].kept
      /\ reqs'[r].receipts = reqs[r].receipts /\ reqs'[r].attempt = next /\ reqs'[r].answer = 0
      /\ \A q \in Requests \ {r} : reqs'[q] = reqs[q]
  BY <1>1, <1>3, <1>4
<1>6. \A o \in I!Occs : heard[o] \in Nat /\ heard'[o] \in Nat /\ (heard[o] > 0 => heard'[o] > 0)
  <2>1. \A o \in I!Occs : heard[o] \in Nat
    BY <1>3 DEF InboundType
  <2>2. QED BY <2>1, <1>2
<1>7. InboundType'
  <2>1. reqs' \in [Requests -> [pc : Places, batch : {<<>>} \cup cfg.batches, proof : P, kept : K,
                                receipts : SUBSET I!Occs, attempt : Nat, answer : Nat]]
    <3>1. place \in Places
      BY <1>13 DEF Places
    <3>2. QED BY <1>1, <1>4, <1>13, <3>1
  <2>2. heard' \in [I!Occs -> Nat]
    BY <1>2, <1>3, <1>6 DEF InboundType
  <2>3. lost' \in Nat
    BY <1>2, <1>3 DEF InboundType
  <2>4. QED BY <2>1, <2>2, <2>3, <1>1, <1>3 DEF InboundType
<1>8. Delivered(r)'
  <2>1. MaxRetries \in Nat /\ reqs[r].attempt <= MaxRetries
    BY <1>1, <1>3, FlowsAssumption DEF Delivered, I!InboundAssumption
  <2>2. /\ reqs'[r].pc = "forward" => reqs'[r].attempt <= MaxRetries
        /\ reqs'[r].pc = "end" => reqs'[r].attempt = MaxRetries + 1
        /\ reqs'[r].pc \in {"forward", "end"}
    BY <2>1, <1>3, <1>5 DEF place, next
  <2>3. QED BY <2>2 DEF Delivered, Told
<1>9. RequestInv(r)'
  BY <1>1, <1>5, <1>8, <1>13, PastEnqueue
<1>10. \A q \in Requests : RequestInv(q)'
  BY <1>1, <1>5, <1>6, <1>9, OtherRequests
<1>11. CountsInv'
  <2>1. \A o \in I!Occs : Owing(o)' \subseteq Owing(o) /\ Hearing(o)' \subseteq Hearing(o)
    BY <1>1, <1>5, <1>13 DEF Owing, Hearing
  <2>2. QED BY <2>1, <1>1, <1>2, TakeCounts, CountsStay
<1>12. QED BY <1>1, <1>7, <1>10, <1>11, EventsStay DEF InboundInv

LEMMA InboundRefused ==
  ASSUME InboundInv, NEW r \in Requests, I!Refused(r)
  PROVE  InboundInv'
<1>1. UNCHANGED <<cfg, clock, events, outbox, heard, posts, lost, missed>> /\ reqs[r].pc = "forward" /\ I!Goto(r, "refused")
  BY DEF I!Refused, I!Attempting
<1>2. InboundType /\ reqs[r].answer = 0
  BY <1>1, ForwardingRequest
<1>3. /\ InboundType' /\ reqs'[r].pc = "refused" /\ reqs'[r].batch = reqs[r].batch /\ reqs'[r].kept = reqs[r].kept
      /\ reqs'[r].receipts = reqs[r].receipts /\ reqs'[r].answer = 0
      /\ \A q \in Requests \ {r} : reqs'[q] = reqs[q]
  BY <1>1, <1>2, GotoMoves DEF Places
<1>4. Delivered(r)'
  BY <1>3 DEF Delivered, Told
<1>5. \A q \in Requests : RequestInv(q)'
  BY <1>1, <1>3, <1>4, PastEnqueue, OtherRequests
<1>6. \A o \in I!Occs : Owing(o)' \subseteq Owing(o) /\ Hearing(o)' \subseteq Hearing(o)
  BY <1>1, <1>3 DEF Owing, Hearing
<1>7. QED BY <1>1, <1>3, <1>5, <1>6, CountsStay, EventsStay DEF InboundInv

LEMMA InboundAnswer ==
  ASSUME InboundInv, NEW r \in Requests, I!Answer(r)
  PROVE  InboundInv'
<1> DEFINE place == IF reqs[r].pc = "refused" THEN "answered, refused" ELSE "answered"
<1>1. /\ UNCHANGED <<cfg, clock, events, outbox, heard, posts, lost, missed>>
      /\ \/ reqs[r].pc \in {"end", "refused"}
         \/ reqs[r].pc = "forward" /\ (reqs[r].receipts = {} \/ ~I!Destination)
      /\ reqs' = [reqs EXCEPT ![r].pc = place, ![r].answer = 200]
  BY DEF I!Answer
<1>10. /\ place \in {"answered", "answered, refused"} /\ place \in Places
       /\ reqs[r].pc # "refused" => place = "answered"
       /\ reqs[r].pc = "refused" => place = "answered, refused"
  BY DEF Places
<1> HIDE DEF place
<1>2. InboundType /\ reqs[r].answer = 0 /\ Delivered(r)
  BY <1>1, ForwardingRequest
<1>4. /\ InboundType'
      /\ reqs'[r].pc = place /\ reqs'[r].batch = reqs[r].batch /\ reqs'[r].kept = reqs[r].kept
      /\ reqs'[r].receipts = reqs[r].receipts /\ reqs'[r].attempt = reqs[r].attempt /\ reqs'[r].answer = 200
      /\ \A q \in Requests \ {r} : reqs'[q] = reqs[q]
  BY <1>1, <1>2, <1>10, AnswerMoves
<1>6. Delivered(r)'
  <2>1. I!Destination' <=> I!Destination
    BY <1>1 DEF I!Destination
  <2>2. CASE reqs[r].pc = "end"
    <3>1. \A o \in reqs[r].receipts : heard[o] > 0 \/ reqs[r].attempt = MaxRetries + 1 \/ ~I!Destination
      BY <2>2, <1>2 DEF Delivered
    <3>2. QED BY <3>1, <2>1, <1>1, <1>4, <1>10 DEF Delivered
  <2>3. CASE reqs[r].pc = "refused"
    BY <2>3, <1>4, <1>10 DEF Delivered, Told
  <2>4. CASE reqs[r].receipts = {} \/ ~I!Destination
    BY <2>4, <2>1, <1>4, <1>10 DEF Delivered
  <2>5. QED BY <2>2, <2>3, <2>4, <1>1
<1>7. \A q \in Requests : RequestInv(q)'
  <2>1. RequestInv(r)'
    BY <1>1, <1>4, <1>6, <1>10, PastEnqueue
  <2>2. QED BY <2>1, <1>1, <1>4, OtherRequests
<1>8. \A o \in I!Occs : Owing(o)' \subseteq Owing(o) /\ Hearing(o)' \subseteq Hearing(o)
  BY <1>1, <1>4, <1>10 DEF Owing, Hearing
<1>9. QED BY <1>1, <1>4, <1>7, <1>8, CountsStay, EventsStay DEF InboundInv

\* Every request at work is left unanswered.
LEMMA InboundCrash ==
  ASSUME InboundInv, I!Crash
  PROVE  InboundInv'
<1> DEFINE Still(r) == reqs[r].pc \in {"idle", "answered", "answered, refused"}
<1>1. /\ UNCHANGED <<cfg, clock, events, outbox, heard, posts, lost, missed>>
      /\ reqs' = [r \in Requests |-> IF Still(r) THEN reqs[r] ELSE [reqs[r] EXCEPT !.pc = "hung"]]
  BY DEF I!Crash
<1>2. PICK K, P : reqs \in [Requests -> [pc : Places, batch : {<<>>} \cup cfg.batches, proof : P, kept : K,
                                         receipts : SUBSET I!Occs, attempt : Nat, answer : Nat]]
  BY DEF InboundInv, InboundType
<1>3. ASSUME NEW r \in Requests
      PROVE  /\ reqs'[r] \in [pc : Places, batch : {<<>>} \cup cfg.batches, proof : P, kept : K,
                              receipts : SUBSET I!Occs, attempt : Nat, answer : Nat]
             /\ Still(r) => reqs'[r] = reqs[r]
             /\ ~Still(r) => reqs'[r].pc = "hung" /\ reqs'[r].batch = reqs[r].batch /\ reqs'[r].answer = reqs[r].answer
  <2>1. reqs[r] \in [pc : Places, batch : {<<>>} \cup cfg.batches, proof : P, kept : K,
                     receipts : SUBSET I!Occs, attempt : Nat, answer : Nat]
    BY <1>2
  <2>2. CASE Still(r)
    BY <2>1, <2>2, <1>1
  <2>3. CASE ~Still(r)
    <3>1. reqs'[r] = [reqs[r] EXCEPT !.pc = "hung"]
      BY <2>3, <1>1
    <3>2. "hung" \in Places
      BY DEF Places
    <3>3. QED BY <3>1, <3>2, <2>1, <2>3
  <2>4. QED BY <2>2, <2>3
<1>4. DOMAIN reqs' = Requests /\ reqs' = [r \in Requests |-> reqs'[r]]
  BY <1>1
<1>5. InboundType'
  <2>1. reqs' \in [Requests -> [pc : Places, batch : {<<>>} \cup cfg.batches, proof : P, kept : K,
                                receipts : SUBSET I!Occs, attempt : Nat, answer : Nat]]
    BY <1>3, <1>4
  <2>2. QED BY <2>1, <1>1 DEF InboundInv, InboundType
<1>6. ASSUME NEW q \in Requests PROVE RequestInv(q)'
  <2>1. CASE Still(q)
    <3>1. reqs'[q] = reqs[q]
      BY <2>1, <1>3
    <3>2. QED BY <3>1, <1>1, OtherRequests
  <2>2. CASE ~Still(q)
    <3>1. reqs'[q].pc = "hung" /\ reqs'[q].batch = reqs[q].batch /\ reqs'[q].answer = reqs[q].answer
      BY <2>2, <1>3
    <3>2. reqs[q].batch \in cfg.batches /\ reqs[q].answer = 0
      BY <2>2 DEF InboundInv, RequestInv
    <3>3. QED BY <3>1, <3>2, <1>1 DEF RequestInv, Handled, Persisted, Enqueued, Delivered, Past, Told
  <2>3. QED BY <2>1, <2>2
<1>7. \A o \in I!Occs : Owing(o)' \subseteq Owing(o) /\ Hearing(o)' \subseteq Hearing(o)
  BY <1>3 DEF Owing, Hearing
<1>8. QED BY <1>1, <1>5, <1>6, <1>7, CountsStay, EventsStay DEF InboundInv

LEMMA InboundTick ==
  ASSUME InboundInv, UNCHANGED <<cfg, reqs, events, outbox, heard, posts, missed, lost>>
  PROVE  InboundInv'
<1>1. InboundType'
  BY DEF InboundInv, InboundType
<1>2. \A q \in Requests : RequestInv(q)'
  BY OtherRequests
<1>3. \A o \in I!Occs : Owing(o)' \subseteq Owing(o) /\ Hearing(o)' \subseteq Hearing(o)
  BY DEF Owing, Hearing
<1>4. QED BY <1>1, <1>2, <1>3, CountsStay, EventsStay DEF InboundInv

LEMMA InboundStep ==
  ASSUME FlowsAssumption, InboundInv, I!Next
  PROVE  InboundInv'
<1>1. CASE \E r \in Requests : I!Step(r)
  <2>1. PICK r \in Requests : I!Step(r)
    BY <1>1
  <2>2. QED BY <2>1, InboundRoute, InboundVerify, InboundPersist, InboundEnqueue, InboundAccepted, InboundRefused,
               InboundFailed, InboundAnswer DEF I!Step
<1>2. CASE \E r \in Requests : \E b \in cfg.batches : I!Post(r, b)
  <2>1. PICK r \in Requests : \E b \in cfg.batches : I!Post(r, b)
    BY <1>2
  <2>2. PICK b \in cfg.batches : I!Post(r, b)
    BY <2>1
  <2>3. QED BY <2>2, InboundOpen DEF I!Post
<1>3. CASE \E r \in Requests : \E q \in Requests : I!Repeat(r, q)
  <2>1. PICK r \in Requests : \E q \in Requests : I!Repeat(r, q)
    BY <1>3
  <2>2. PICK q \in Requests : I!Repeat(r, q)
    BY <2>1
  <2>3. reqs[q].batch \in cfg.batches
    BY <2>2 DEF I!Repeat, InboundInv, RequestInv
  <2>4. QED BY <2>2, <2>3, InboundOpen DEF I!Repeat
<1>4. CASE I!Crash
  BY <1>4, InboundCrash
<1>5. CASE I!Tick
  BY <1>5, InboundTick DEF I!Tick
<1>6. QED BY <1>1, <1>2, <1>3, <1>4, <1>5 DEF I!Next

LEMMA InboundUnchanged == InboundInv /\ UNCHANGED inbound => InboundInv'
BY InboundTick DEF inbound

\* Two rows of what happened once were told apart by the time alone.
LEMMA RowsOfOne ==
  ASSUME FlowsAssumption, InboundInv, NEW a \in events, NEW b \in events, a.occ = b.occ, a # b
  PROVE  \E t \in cfg.batches : \E k \in DOMAIN t : t[k].occ = a.occ /\ t[k].time = 0
<1>1. PICK i \in Items(cfg) : a = [key |-> a.key, occ |-> i.occ] /\ (a.key = I!Key(i) \/ i.time = 0)
  BY DEF InboundInv, EventsInv
<1>2. PICK j \in Items(cfg) : b = [key |-> b.key, occ |-> j.occ] /\ (b.key = I!Key(j) \/ j.time = 0)
  BY DEF InboundInv, EventsInv
<1>3. a.occ = i.occ /\ b.occ = j.occ
  BY <1>1, <1>2
<1>4. PICK s \in cfg.batches : \E k \in DOMAIN s : s[k] = i
  BY DEF Items, ItemsOf
<1>5. PICK t \in cfg.batches : \E k \in DOMAIN t : t[k] = j
  BY DEF Items, ItemsOf
<1>6. cfg \in Configs
  BY DEF InboundInv, InboundType
<1>7. i = j
  <2>1. \A c \in Configs : \A d, e \in c.batches : \A k \in DOMAIN d, l \in DOMAIN e : d[k].occ = e[l].occ => d[k] = e[l]
    BY FlowsAssumption, Zenon DEF I!InboundAssumption
  <2>2. PICK k \in DOMAIN s : s[k] = i
    BY <1>4
  <2>3. PICK l \in DOMAIN t : t[l] = j
    BY <1>5
  <2>4. s[k].occ = t[l].occ
    BY <2>2, <2>3, <1>3
  <2>5. QED BY <2>1, <2>2, <2>3, <2>4, <1>6
<1>8. i.time = 0
  BY <1>1, <1>2, <1>3, <1>7
<1>9. QED BY <1>4, <1>8, <1>3

LEMMA InboundInvSays == FlowsAssumption /\ InboundInv => I!AnsweredIsAccountedFor /\ I!ReplaysAreOne
<1> SUFFICES ASSUME FlowsAssumption, InboundInv PROVE I!AnsweredIsAccountedFor /\ I!ReplaysAreOne
  OBVIOUS
<1>1. ASSUME NEW r \in Requests, cfg.enabled, reqs[r].answer = 200, NEW i \in ItemsOf(reqs[r].batch)
      PROVE  I!Dropped(i) \/ I!Stored(r, i) \/ I!Forwarded(r, i)
  <2>1. RequestInv(r) /\ (reqs[r].pc = "answered, refused" \/ Told(r))
    <3>1. RequestInv(r)
      BY DEF InboundInv
    <3>2. reqs[r].answer # 0
      BY <1>1
    <3>3. reqs[r].pc \in {"answered", "answered, refused"}
      BY <3>1, <3>2 DEF RequestInv
    <3>4. QED BY <1>1, <3>1, <3>3 DEF Told
  <2>2. Past(r, {"persist", "enqueue", "forward"}) /\ Past(r, {"enqueue", "forward"}) /\ Past(r, {"forward"})
    BY <2>1 DEF Past
  <2>3. CASE Wanted(i)
    <3>1. PICK e \in reqs[r].kept : e.occ = i.occ /\ e.url = I!Url(i)
      BY <1>1, <2>1, <2>2, <2>3 DEF RequestInv, Handled
    <3>2. r \in missed \/ \E row \in events : row.key = e.key
      BY <2>1, <2>2 DEF RequestInv, Persisted
    <3>3. I!Url(i) => outbox[i.occ] > 0
      BY <2>1, <2>2, <3>1 DEF RequestInv, Enqueued
    <3>4. I!Correlated(i)
      BY <2>3 DEF Wanted
    <3>5. QED BY <3>1, <3>2, <3>3, <3>4 DEF I!Stored
  <2>4. CASE I!Receipt(i)
    <3>1. i.occ \in reqs[r].receipts
      BY <1>1, <2>1, <2>2, <2>4 DEF RequestInv, Handled
    <3>2. CASE Told(r)
      BY <2>1, <2>4, <3>1, <3>2 DEF RequestInv, Delivered, I!Forwarded
    <3>3. CASE reqs[r].pc = "answered, refused"
      BY <2>4, <3>3 DEF I!Forwarded
    <3>4. QED BY <2>1, <3>2, <3>3
  <2>5. CASE ~Wanted(i) /\ ~I!Receipt(i)
    BY <2>5 DEF Wanted, I!Dropped
  <2>6. QED BY <2>3, <2>4, <2>5
<1>2. I!AnsweredIsAccountedFor
  <2>1. ASSUME NEW r \in Requests, NEW k \in DOMAIN reqs[r].batch PROVE reqs[r].batch[k] \in ItemsOf(reqs[r].batch)
    BY <2>1 DEF ItemsOf
  <2>2. QED BY <1>1, <2>1 DEF I!AnsweredIsAccountedFor
<1>3. ASSUME NEW o \in I!Occs PROVE heard[o] <= posts[o] + lost /\ outbox[o] <= posts[o]
  <2>1. Owing(o) \in SUBSET Requests /\ Hearing(o) \in SUBSET Requests
    BY DEF Owing, Hearing
  <2>2. Cardinality(Owing(o)) \in Nat /\ Cardinality(Hearing(o)) \in Nat
    BY <2>1, RequestsAreFinite
  <2>3. outbox[o] \in Nat /\ heard[o] \in Nat /\ posts[o] \in Nat /\ lost \in Nat
    BY DEF InboundInv, InboundType
  <2>4. outbox[o] + Cardinality(Owing(o)) <= posts[o] /\ heard[o] + Cardinality(Hearing(o)) <= posts[o] + lost
    BY DEF InboundInv, CountsInv
  <2>5. QED BY <2>2, <2>3, <2>4
<1>4. I!ReplaysAreOne
  BY <1>3, RowsOfOne DEF I!ReplaysAreOne
<1>5. QED BY <1>2, <1>4

\* A provider that hears 200 never posts the batch again: by then every item was dropped knowingly, stored and
\* enqueued, or forwarded; and a batch posted again, also while the first is at work, adds nothing, for any
\* provider, configuration and batches, any requests and retries, and any order of their steps.
THEOREM InboundHoldsAlways == MCSpec => []InboundHolds
<1>1. MCInit => InboundInv
  BY InboundInit, FlowsAssumption DEF MCInit
<1>2. InboundInv /\ [MCNext]_<<part, vars, inbound, client, values, meter, settings>> => InboundInv'
  BY InboundStep, InboundUnchanged, FlowsAssumption DEF MCNext
<1>3. InboundInv => InboundHolds
  BY InboundInvSays, FlowsAssumption DEF InboundHolds
<1>4. QED BY <1>1, <1>2, <1>3, PTL DEF MCSpec

-----------------------------------------------------------------------------
(* Recursion over a sequence, as far as sets go.                             *)

\* What holds of 0, and of n + 1 where it holds of n, holds of every number.
LEMMA SetInduction ==
  ASSUME NEW P \in SUBSET Nat, 0 \in P, \A n \in P : n + 1 \in P
  PROVE  P = Nat
<1> DEFINE T == Nat \ P
<1>1. SUFFICES ASSUME T # {} PROVE FALSE
  OBVIOUS
<1>2. PICK n \in T : \A m \in T : <<m, n>> \notin OpToRel(<, Nat)
  BY <1>1, WFMin, NatLessThanWellFounded, Zenon
<1>3. \A m \in T : ~(m < n)
  BY <1>2, Zenon DEF OpToRel
<1>4. n # 0 /\ n - 1 \in Nat
  OBVIOUS
<1>5. n - 1 \in P
  BY <1>3, <1>4
<1>6. (n - 1) + 1 = n
  BY <1>4
<1>7. QED BY <1>5, <1>6

\* A step for each of 1 .. N, taken one after the other from a.
Runs(S, a, N, step) == {f \in [0 .. N -> S] : f[0] = a /\ \A n \in 1 .. N : f[n] = step[<<n, f[n - 1]>>]}

LEMMA StepsAreTaken ==
  ASSUME NEW S, NEW a \in S, NEW N \in Nat, NEW step \in [(1 .. N) \X S -> S]
  PROVE  Runs(S, a, N, step) # {}
<1> DEFINE Taken(f, m) == f[0] = a /\ \A n \in 1 .. m : f[n] = step[<<n, f[n - 1]>>]
           P == {m \in Nat : m <= N => \E f \in [0 .. m -> S] : Taken(f, m)}
<1>1. 0 \in P
  <2>1. [n \in 0 .. 0 |-> a] \in [0 .. 0 -> S] /\ Taken([n \in 0 .. 0 |-> a], 0)
    OBVIOUS
  <2>2. QED BY <2>1
<1>2. ASSUME NEW m \in P PROVE m + 1 \in P
  <2> SUFFICES ASSUME m + 1 <= N PROVE \E g \in [0 .. m + 1 -> S] : Taken(g, m + 1)
    OBVIOUS
  <2>1. PICK f \in [0 .. m -> S] : Taken(f, m)
    OBVIOUS
  <2> DEFINE g == [n \in 0 .. m + 1 |-> IF n = m + 1 THEN step[<<m + 1, f[m]>>] ELSE f[n]]
  <2>2. f[m] \in S /\ m + 1 \in 1 .. N
    OBVIOUS
  <2>3. step[<<m + 1, f[m]>>] \in S
    BY <2>2
  <2>4. g \in [0 .. m + 1 -> S]
    BY <2>3
  <2>5. g[0] = a /\ g[m + 1] = step[<<m + 1, g[m]>>]
    <3>1. 0 \in 0 .. m + 1 /\ 0 # m + 1 /\ m \in 0 .. m + 1 /\ m # m + 1 /\ m + 1 \in 0 .. m + 1
      OBVIOUS
    <3>2. QED BY <3>1, <2>1
  <2>6. \A n \in 1 .. m : g[n] = step[<<n, g[n - 1]>>]
    <3> TAKE n \in 1 .. m
    <3>1. n \in 0 .. m + 1 /\ n # m + 1 /\ n - 1 \in 0 .. m + 1 /\ n - 1 # m + 1
      OBVIOUS
    <3>4. g[n] = f[n] /\ g[n - 1] = f[n - 1]
      BY <3>1
    <3>2. f[n] = step[<<n, f[n - 1]>>]
      BY <2>1
    <3> HIDE DEF g
    <3>3. QED BY <3>4, <3>2
  <2>7. \A n \in 1 .. (m + 1) : n = m + 1 \/ n \in 1 .. m
    OBVIOUS
  <2> HIDE DEF g
  <2>8. \A n \in 1 .. (m + 1) : g[n] = step[<<n, g[n - 1]>>]
    <3> TAKE n \in 1 .. (m + 1)
    <3>1. CASE n = m + 1
      <4>1. n - 1 = m
        BY <3>1
      <4>2. QED BY <4>1, <3>1, <2>5
    <3>2. CASE n \in 1 .. m
      BY <3>2, <2>6
    <3>3. QED BY <3>1, <3>2, <2>7
  <2>9. QED BY <2>4, <2>5, <2>8
<1>3. P = Nat
  <2>1. P \in SUBSET Nat
    OBVIOUS
  <2> HIDE DEF P
  <2>2. QED BY <1>1, <1>2, <2>1, SetInduction
<1>4. N \in P /\ N <= N
  BY <1>3
<1>5. \E f \in [0 .. N -> S] : Taken(f, N)
  <2> HIDE DEF Taken
  <2>1. QED BY <1>4
<1>6. QED BY <1>5 DEF Runs

-----------------------------------------------------------------------------
(* Settings (Hydration).                                                     *)

\* What a boot leaves of the variables between two rows of the table.
PassSet(Val) ==
  [env : [Variables -> Val], raw : SUBSET Variables,
   report : [applied : SUBSET Variables, skipped : SUBSET Variables, dangling : SUBSET (Variables \X Val),
             collisions : SUBSET Variables]]

\* One row either leaves the pass, or notes what it does not do, or binds its variable.
LEMMA BindCases ==
  ASSUME NEW pass, NEW file, NEW b
  PROVE  LET x == file.keys[b.key]
             value == H!ValueOf(pass.env, b, x)
         IN \/ /\ x \in {H!Missing, H!Unset} /\ H!Bind(pass, file, b) = pass
            \/ /\ x \notin {H!Missing, H!Unset} /\ value = H!Unset
               /\ H!Bind(pass, file, b) = [pass EXCEPT !.report.dangling = @ \cup {<<b.env, x>>}]
            \/ /\ x \notin {H!Missing, H!Unset} /\ value # H!Unset /\ ~H!Overrides(pass, b)
               /\ H!Bind(pass, file, b) = [pass EXCEPT !.report.skipped = @ \cup {b.env}]
            \/ /\ x \notin {H!Missing, H!Unset} /\ value # H!Unset /\ H!Overrides(pass, b)
               /\ H!Bind(pass, file, b) =
                    [pass EXCEPT !.env = [pass.env EXCEPT ![b.env] = value],
                                 !.report = [pass.report EXCEPT !.applied = @ \cup {b.env}, !.collisions = @ \cup ({b.env} \cap pass.raw)]]
BY Zenon DEF H!Bind

\* What the variables may hold in one boot.
Values(platform, file) ==
  {platform[v] : v \in Variables} \cup {file.env[v] : v \in Variables}
    \cup {file.keys[b.key] : b \in H!Range(Bindings)} \cup {H!Unset}

LEMMA SettingsTable ==
  ASSUME FlowsAssumption, NEW k \in DOMAIN Bindings
  PROVE  /\ Bindings[k] \in H!Range(Bindings) /\ Bindings[k].env \in Variables
         /\ \A file \in Files : Bindings[k].indirect => file.keys[Bindings[k].key] \in Variables \cup {H!Missing}
<1>1. H!HydrationAssumption
  BY DEF FlowsAssumption
<1>2. Bindings[k] \in H!Range(Bindings)
  BY DEF H!Range
<1>3. QED BY <1>1, <1>2 DEF H!HydrationAssumption

LEMMA TableIsList ==
  ASSUME FlowsAssumption
  PROVE  Len(Bindings) \in Nat /\ DOMAIN Bindings = 1 .. Len(Bindings)
<1>1. Bindings \in Seq(H!Range(Bindings))
  BY DEF FlowsAssumption, H!HydrationAssumption
<1>2. QED BY <1>1

\* A row keeps the variables what they may be.
LEMMA BindStays ==
  ASSUME FlowsAssumption, NEW platform, NEW file \in Files, NEW k \in DOMAIN Bindings,
         NEW pass \in PassSet(Values(platform, file))
  PROVE  H!Bind(pass, file, Bindings[k]) \in PassSet(Values(platform, file))
<1> DEFINE Val == Values(platform, file)
           b == Bindings[k]
           x == file.keys[b.key]
           value == H!ValueOf(pass.env, b, x)
<1>1. b \in H!Range(Bindings) /\ b.env \in Variables /\ (b.indirect => x \in Variables \cup {H!Missing})
  BY SettingsTable
<1>2. x \in Val /\ H!Unset \in Val
  BY <1>1 DEF Values
<1>3. x \notin {H!Missing, H!Unset} => value \in Val
  <2>1. ASSUME b.indirect, x # H!Missing PROVE pass.env[x] \in Val
    BY <1>1, <2>1 DEF PassSet
  <2>2. QED BY <1>1, <1>2, <2>1 DEF H!ValueOf, H!Trimmed
<1>4. <<b.env, x>> \in Variables \X Val
  BY <1>1, <1>2
<1> HIDE DEF b, x, value, Val
<1>5. PassSet(Val) = PassSet(Values(platform, file))
  BY DEF Val
<1>6. \/ H!Bind(pass, file, b) = pass
      \/ H!Bind(pass, file, b) = [pass EXCEPT !.report.dangling = @ \cup {<<b.env, x>>}]
      \/ H!Bind(pass, file, b) = [pass EXCEPT !.report.skipped = @ \cup {b.env}]
      \/ /\ value \in Val
         /\ H!Bind(pass, file, b) =
                    [pass EXCEPT !.env = [pass.env EXCEPT ![b.env] = value],
                                 !.report = [pass.report EXCEPT !.applied = @ \cup {b.env}, !.collisions = @ \cup ({b.env} \cap pass.raw)]]
  BY <1>3, BindCases DEF b, x, value
<1>7. pass \in PassSet(Val)
  BY <1>5
<1>8. H!Bind(pass, file, b) \in PassSet(Val)
  <2> DEFINE Reports == [applied : SUBSET Variables, skipped : SUBSET Variables, dangling : SUBSET (Variables \X Val),
                         collisions : SUBSET Variables]
  <2>1. pass.env \in [Variables -> Val] /\ pass.raw \in SUBSET Variables /\ pass.report \in Reports
    BY <1>7 DEF PassSet
  <2>2. CASE H!Bind(pass, file, b) = [pass EXCEPT !.report.dangling = @ \cup {<<b.env, x>>}]
    <3>1. [pass.report EXCEPT !.dangling = @ \cup {<<b.env, x>>}] \in Reports
      BY <2>1, <1>4
    <3>2. QED BY <3>1, <2>2, <1>7 DEF PassSet
  <2>3. CASE H!Bind(pass, file, b) = [pass EXCEPT !.report.skipped = @ \cup {b.env}]
    <3>1. [pass.report EXCEPT !.skipped = @ \cup {b.env}] \in Reports
      BY <2>1, <1>1
    <3>2. QED BY <3>1, <2>3, <1>7 DEF PassSet
  <2>4. CASE /\ value \in Val
             /\ H!Bind(pass, file, b) =
                  [pass EXCEPT !.env = [pass.env EXCEPT ![b.env] = value],
                               !.report = [pass.report EXCEPT !.applied = @ \cup {b.env}, !.collisions = @ \cup ({b.env} \cap pass.raw)]]
    <3> DEFINE env_ == [pass.env EXCEPT ![b.env] = value]
               report_ == [pass.report EXCEPT !.applied = @ \cup {b.env}, !.collisions = @ \cup ({b.env} \cap pass.raw)]
    <3>1. env_ \in [Variables -> Val]
      BY <2>1, <2>4, <1>1
    <3>2. report_ \in Reports
      BY <2>1, <1>1
    <3>3. H!Bind(pass, file, b) = [pass EXCEPT !.env = env_, !.report = report_]
      BY <2>4, Zenon
    <3> HIDE DEF env_, report_
    <3>4. QED BY <3>1, <3>2, <3>3, <1>7 DEF PassSet
  <2>5. QED BY <1>6, <1>7, <2>2, <2>3, <2>4
<1>9. QED BY <1>8, <1>5 DEF b


LEMMA RawPassIs ==
  ASSUME NEW platform, NEW file
  PROVE  LET R == H!RawPass(platform, file)
         IN /\ R \in PassSet(Values(platform, file))
            /\ R.raw = {v \in Variables : platform[v] = H!Unset /\ file.env[v] # H!Missing}
            /\ R.env = [v \in Variables |-> IF v \in R.raw THEN file.env[v] ELSE platform[v]]
            /\ R.report.applied = R.raw /\ R.report.collisions = {}
<1> DEFINE rows == {v \in Variables : file.env[v] # H!Missing}
           raw == {v \in rows : ~H!Present(platform, v)}
           env_ == [v \in Variables |-> IF v \in raw THEN file.env[v] ELSE platform[v]]
           report_ == [applied |-> raw, skipped |-> rows \ raw, dangling |-> {}, collisions |-> {}]
<1>2. H!RawPass(platform, file) = [env |-> env_, raw |-> raw, report |-> report_]
  BY Zenon DEF H!RawPass
<1>3. raw = {v \in Variables : platform[v] = H!Unset /\ file.env[v] # H!Missing}
  BY DEF H!Present
<1>4. env_ \in [Variables -> Values(platform, file)]
  BY DEF Values
<1>5. raw \in SUBSET Variables /\ rows \ raw \in SUBSET Variables
  OBVIOUS
<1> HIDE DEF env_, raw, rows
<1>6. [env |-> env_, raw |-> raw, report |-> report_] \in PassSet(Values(platform, file))
  BY <1>4, <1>5 DEF PassSet
<1>7. env_ = [v \in Variables |-> IF v \in raw THEN file.env[v] ELSE platform[v]]
  BY DEF env_
<1>8. QED BY <1>2, <1>3, <1>6, <1>7

LEMMA PassesAre ==
  ASSUME FlowsAssumption, NEW platform, NEW file \in Files
  PROVE  /\ H!Passes(platform, file)[0] = H!RawPass(platform, file)
         /\ \A n \in 1 .. Len(Bindings) :
              H!Passes(platform, file)[n] = H!Bind(H!Passes(platform, file)[n - 1], file, Bindings[n])
<1> DEFINE N == Len(Bindings)
           S == PassSet(Values(platform, file))
           R == H!RawPass(platform, file)
           step == [x \in (1 .. N) \X S |-> H!Bind(x[2], file, Bindings[x[1]])]
           Follows(f) == f = [n \in 0 .. N |-> IF n = 0 THEN R ELSE H!Bind(f[n - 1], file, Bindings[n])]
<1>1. N \in Nat /\ DOMAIN Bindings = 1 .. N
  BY TableIsList
<1>2. step \in [(1 .. N) \X S -> S]
  <2>1. ASSUME NEW x \in (1 .. N) \X S PROVE H!Bind(x[2], file, Bindings[x[1]]) \in S
    <3>1. x[1] \in DOMAIN Bindings /\ x[2] \in S
      BY <1>1
    <3>2. QED BY <3>1, BindStays
  <2>2. QED BY <2>1
<1>3. R \in S
  BY RawPassIs
<1>4. \E f \in [0 .. N -> S] : f[0] = R /\ \A n \in 1 .. N : f[n] = step[<<n, f[n - 1]>>]
  <2>1. N \in Nat
    BY <1>1
  <2> HIDE DEF S, N, R, step
  <2>2. Runs(S, R, N, step) # {}
    BY <2>1, <1>2, <1>3, StepsAreTaken
  <2>3. QED BY <2>2 DEF Runs
<1>5. PICK f \in [0 .. N -> S] : f[0] = R /\ \A n \in 1 .. N : f[n] = step[<<n, f[n - 1]>>]
  BY <1>4
<1>6. ASSUME NEW n \in 1 .. N PROVE f[n] = H!Bind(f[n - 1], file, Bindings[n])
  <2>1. <<n, f[n - 1]>> \in (1 .. N) \X S
    <3>1. n - 1 \in 0 .. N
      BY <1>1
    <3> HIDE DEF S, N
    <3>2. QED BY <3>1
  <2>2. step[<<n, f[n - 1]>>] = H!Bind(f[n - 1], file, Bindings[n])
    <3> HIDE DEF S, N
    <3>1. QED BY <2>1
  <2>3. QED BY <2>2, <1>5
<1>7. Follows(f)
  <2> HIDE DEF S, R
  <2>1. \A n \in 0 .. N : n = 0 \/ n \in 1 .. N
    BY <1>1
  <2>2. \A n \in 0 .. N : f[n] = IF n = 0 THEN R ELSE H!Bind(f[n - 1], file, Bindings[n])
    BY <1>5, <1>6, <2>1
  <2> HIDE DEF N
  <2>3. f = [n \in 0 .. N |-> f[n]]
    OBVIOUS
  <2>4. QED BY <2>2, <2>3
<1>8. Follows(H!Passes(platform, file))
  <2>1. H!Passes(platform, file) =
          CHOOSE g : g = [n \in 0 .. N |-> IF n = 0 THEN R ELSE H!Bind(g[n - 1], file, Bindings[n])]
    BY Zenon DEF H!Passes
  <2>2. QED BY <1>7, <2>1, Zenon
<1> DEFINE g == H!Passes(platform, file)
<1>9. \A n \in 0 .. N : g[n] = IF n = 0 THEN R ELSE H!Bind(g[n - 1], file, Bindings[n])
  <2> HIDE DEF g, R, N
  <2>1. QED BY <1>8 DEF g
<1>10. 0 \in 0 .. N /\ \A n \in 1 .. N : n \in 0 .. N /\ n # 0
  BY <1>1
<1>11. QED
  <2> HIDE DEF g, R
  <2>1. g[0] = R /\ \A n \in 1 .. N : g[n] = H!Bind(g[n - 1], file, Bindings[n])
    BY <1>9, <1>10
  <2>2. QED BY <2>1 DEF g, R

\* What the variables hold before the typed keys, and what a row stands for then.
Before(platform, file) == H!RawPass(platform, file)
IsTyped(file, b) == file.keys[b.key] \notin {H!Missing, H!Unset}
Meaning(platform, file, b) ==
  IF b.indirect THEN H!Trimmed(Before(platform, file).env[file.keys[b.key]]) ELSE file.keys[b.key]
Straight(file) == \A b \in H!Range(Bindings) : b.indirect /\ IsTyped(file, b) => file.keys[b.key] \notin H!Targets

\* What the first n rows say of a variable.
Said(platform, file, n, v) ==
  {Meaning(platform, file, Bindings[k]) : k \in {k \in 1 .. n : Bindings[k].env = v /\ IsTyped(file, Bindings[k])}}
    \ {H!Unset}

Says(platform, file, k, v) ==
  Bindings[k].env = v /\ IsTyped(file, Bindings[k]) /\ Meaning(platform, file, Bindings[k]) # H!Unset

PassInv(platform, file, n, pass) ==
  /\ pass \in PassSet(Values(platform, file)) /\ pass.raw = Before(platform, file).raw
  /\ \A v \in Variables :
       /\ platform[v] # H!Unset => pass.env[v] = platform[v]
       /\ platform[v] = H!Unset =>
            /\ Said(platform, file, n, v) = {} => pass.env[v] = Before(platform, file).env[v]
            /\ Said(platform, file, n, v) # {} => pass.env[v] \in Said(platform, file, n, v)
  /\ pass.report.applied =
       pass.raw \cup {v \in Variables : platform[v] = H!Unset /\ Said(platform, file, n, v) # {}}
  /\ pass.report.collisions = {v \in pass.raw : Said(platform, file, n, v) # {}}
  /\ \A k \in 1 .. n : IsTyped(file, Bindings[k]) /\ Meaning(platform, file, Bindings[k]) = H!Unset =>
       <<Bindings[k].env, file.keys[Bindings[k].key]>> \in pass.report.dangling

LEMMA NextRowSays ==
  ASSUME NEW platform, NEW file, NEW n \in Nat, NEW v
  PROVE  /\ Says(platform, file, n + 1, v) =>
              Said(platform, file, n + 1, v) = Said(platform, file, n, v) \cup {Meaning(platform, file, Bindings[n + 1])}
         /\ ~Says(platform, file, n + 1, v) => Said(platform, file, n + 1, v) = Said(platform, file, n, v)
<1> USE DEF Says
<1> DEFINE Rows(m) == {k \in 1 .. m : Bindings[k].env = v /\ IsTyped(file, Bindings[k])}
           Mean(k) == Meaning(platform, file, Bindings[k])
<1>1. \A k : k \in 1 .. (n + 1) <=> k \in 1 .. n \/ k = n + 1
  OBVIOUS
<1>2. Rows(n + 1) = IF Bindings[n + 1].env = v /\ IsTyped(file, Bindings[n + 1]) THEN Rows(n) \cup {n + 1} ELSE Rows(n)
  BY <1>1
<1>3. \A m : Said(platform, file, m, v) = {Mean(k) : k \in Rows(m)} \ {H!Unset}
  BY DEF Said
<1>4. CASE Bindings[n + 1].env = v /\ IsTyped(file, Bindings[n + 1])
  <2>1. Rows(n + 1) = Rows(n) \cup {n + 1}
    BY <1>2, <1>4
  <2> HIDE DEF Rows, Mean
  <2>2. Said(platform, file, n + 1, v) = ({Mean(k) : k \in Rows(n)} \cup {Mean(n + 1)}) \ {H!Unset}
    BY <2>1, <1>3
  <2>3. Said(platform, file, n, v) = {Mean(k) : k \in Rows(n)} \ {H!Unset}
    BY <1>3
  <2>4. /\ Mean(n + 1) # H!Unset => Said(platform, file, n + 1, v) = Said(platform, file, n, v) \cup {Mean(n + 1)}
        /\ Mean(n + 1) = H!Unset => Said(platform, file, n + 1, v) = Said(platform, file, n, v)
    BY <2>2, <2>3
  <2>5. QED BY <2>4, <1>4 DEF Mean
<1>5. CASE ~(Bindings[n + 1].env = v /\ IsTyped(file, Bindings[n + 1]))
  <2>1. Rows(n + 1) = Rows(n)
    BY <1>2, <1>5
  <2> HIDE DEF Rows, Mean
  <2>2. Said(platform, file, n + 1, v) = Said(platform, file, n, v)
    BY <2>1, <1>3
  <2>3. QED BY <2>2, <1>5
<1>6. QED BY <1>4, <1>5

LEMMA NothingIsSaid ==
  ASSUME FlowsAssumption, NEW platform, NEW file, NEW v
  PROVE  /\ Said(platform, file, 0, v) = {}
         /\ v \notin H!Targets => \A n \in 0 .. Len(Bindings) : Said(platform, file, n, v) = {}
<1>1. Said(platform, file, 0, v) = {}
  BY DEF Said
<1>2. ASSUME v \notin H!Targets, NEW n \in 0 .. Len(Bindings), NEW k \in 1 .. n PROVE Bindings[k].env # v
  <2>1. k \in DOMAIN Bindings
    BY TableIsList
  <2>2. Bindings[k].env \in H!Targets
    BY <2>1, SettingsTable DEF H!Targets
  <2>3. QED BY <2>2, <1>2
<1>3. QED BY <1>1, <1>2 DEF Said

\* Nobody sets what a reference names, so it means what it meant before the typed keys.
LEMMA ReferenceMeans ==
  ASSUME FlowsAssumption, NEW platform, NEW file \in Files, Straight(file), NEW n \in 0 .. Len(Bindings), NEW pass,
         PassInv(platform, file, n, pass), NEW k \in DOMAIN Bindings, IsTyped(file, Bindings[k])
  PROVE  H!ValueOf(pass.env, Bindings[k], file.keys[Bindings[k].key]) = Meaning(platform, file, Bindings[k])
<1> DEFINE b == Bindings[k]
           x == file.keys[b.key]
<1>1. b \in H!Range(Bindings) /\ (b.indirect => x \in Variables \cup {H!Missing})
  BY SettingsTable
<1>2. ASSUME b.indirect PROVE pass.env[x] = Before(platform, file).env[x]
  <2>1. x \in Variables /\ x \notin H!Targets
    BY <1>1, <1>2 DEF Straight, IsTyped
  <2>2. Said(platform, file, n, x) = {}
    BY <2>1, NothingIsSaid
  <2>3. platform[x] # H!Unset => Before(platform, file).env[x] = platform[x]
    <3>1. LET R == H!RawPass(platform, file)
          IN /\ R.raw = {v \in Variables : platform[v] = H!Unset /\ file.env[v] # H!Missing}
             /\ R.env = [v \in Variables |-> IF v \in R.raw THEN file.env[v] ELSE platform[v]]
      BY RawPassIs
    <3>2. QED BY <3>1, <2>1 DEF Before
  <2>4. QED BY <2>1, <2>2, <2>3 DEF PassInv
<1>3. QED BY <1>2 DEF H!ValueOf, Meaning

LEMMA PassStarts ==
  ASSUME FlowsAssumption, NEW platform, NEW file \in Files
  PROVE  PassInv(platform, file, 0, Before(platform, file))
<1>1. LET R == H!RawPass(platform, file)
      IN /\ R \in PassSet(Values(platform, file))
         /\ R.raw = {v \in Variables : platform[v] = H!Unset /\ file.env[v] # H!Missing}
         /\ R.env = [v \in Variables |-> IF v \in R.raw THEN file.env[v] ELSE platform[v]]
         /\ R.report.applied = R.raw /\ R.report.collisions = {}
  BY RawPassIs
<1>2. \A v : Said(platform, file, 0, v) = {}
  BY NothingIsSaid
<1>3. QED BY <1>1, <1>2 DEF PassInv, Before

\* A typed key that is read sets its variable if the env: map set it, or nobody did before.
LEMMA RowsAreRead ==
  ASSUME FlowsAssumption, NEW platform, NEW file \in Files, Straight(file), NEW n \in Nat, n + 1 <= Len(Bindings), NEW pass,
         PassInv(platform, file, n, pass)
  PROVE  PassInv(platform, file, n + 1, H!Bind(pass, file, Bindings[n + 1]))
<1> DEFINE b == Bindings[n + 1]
           x == file.keys[b.key]
           value == H!ValueOf(pass.env, b, x)
           next == H!Bind(pass, file, b)
           old(v) == Said(platform, file, n, v)
           new(v) == Said(platform, file, n + 1, v)
           free(v) == platform[v] = H!Unset
<1>1. n + 1 \in DOMAIN Bindings /\ n \in 0 .. Len(Bindings) /\ 1 .. n + 1 = 1 .. n \cup {n + 1}
  BY TableIsList
<1>2. b.env \in Variables
  BY <1>1, SettingsTable
<1>3. next \in PassSet(Values(platform, file))
  BY <1>1, BindStays DEF PassInv
<1>4. IsTyped(file, b) => value = Meaning(platform, file, b)
  BY <1>1, ReferenceMeans
<1>5. \A v : /\ b.env = v /\ IsTyped(file, b) /\ value # H!Unset => new(v) = old(v) \cup {value}
             /\ ~(b.env = v /\ IsTyped(file, b) /\ value # H!Unset) => new(v) = old(v)
  <2> TAKE v
  <2>1. /\ Says(platform, file, n + 1, v) => new(v) = old(v) \cup {Meaning(platform, file, b)}
        /\ ~Says(platform, file, n + 1, v) => new(v) = old(v)
    BY NextRowSays
  <2> HIDE DEF value, new, old
  <2>2. QED BY <2>1, <1>4 DEF Says
<1>6. /\ pass.raw = {v \in Variables : free(v) /\ file.env[v] # H!Missing}
      /\ Before(platform, file).env = [v \in Variables |-> IF v \in pass.raw THEN file.env[v] ELSE platform[v]]
      /\ Before(platform, file).raw = pass.raw
  BY RawPassIs DEF Before, PassInv
<1>7. /\ DOMAIN pass.env = Variables /\ pass = [env |-> pass.env, raw |-> pass.raw, report |-> pass.report]
      /\ pass.report = [applied |-> pass.report.applied, skipped |-> pass.report.skipped,
                        dangling |-> pass.report.dangling, collisions |-> pass.report.collisions]
  BY DEF PassInv, PassSet
<1>8. \A v : H!Unset \notin old(v)
  BY DEF Said
\* A row that is not read, dangles or is skipped.
<1>10. ASSUME next.env = pass.env, next.raw = pass.raw, next.report.applied = pass.report.applied,
              next.report.collisions = pass.report.collisions, pass.report.dangling \subseteq next.report.dangling,
              IsTyped(file, b) /\ value = H!Unset => <<b.env, x>> \in next.report.dangling,
              IsTyped(file, b) /\ value # H!Unset => ~H!Overrides(pass, b)
       PROVE  PassInv(platform, file, n + 1, next)
  <2>1. ASSUME NEW v \in Variables, free(v) PROVE (new(v) = {} <=> old(v) = {}) /\ old(v) \subseteq new(v)
    <3>1. CASE b.env = v /\ IsTyped(file, b) /\ value # H!Unset
      <4>1. v \notin pass.raw /\ pass.env[v] # H!Unset
        BY <3>1, <1>10 DEF H!Overrides, H!Present
      <4>2. old(v) # {}
        BY <4>1, <2>1, <1>6 DEF PassInv
      <4>3. QED BY <4>2, <3>1, <1>5
    <3>2. QED BY <3>1, <1>5
  <2>2. \A v \in pass.raw : free(v) /\ v \in Variables
    BY <1>6
  <2>3. ASSUME NEW k \in 1 .. n + 1, IsTyped(file, Bindings[k]), Meaning(platform, file, Bindings[k]) = H!Unset
        PROVE  <<Bindings[k].env, file.keys[Bindings[k].key]>> \in next.report.dangling
    <3>1. CASE k \in 1 .. n
      BY <3>1, <2>3, <1>10 DEF PassInv
    <3>2. CASE k = n + 1
      BY <3>2, <2>3, <1>4, <1>10
    <3>3. QED BY <3>1, <3>2, <1>1
  <2>4. next.raw = Before(platform, file).raw
    BY <1>6, <1>10
  <2>5. ASSUME NEW v \in Variables
        PROVE  /\ ~free(v) => next.env[v] = platform[v]
               /\ free(v) => /\ new(v) = {} => next.env[v] = Before(platform, file).env[v]
                             /\ new(v) # {} => next.env[v] \in new(v)
    BY <1>10, <2>1 DEF PassInv
  <2>6. next.report.applied = next.raw \cup {v \in Variables : free(v) /\ new(v) # {}}
    <3>1. pass.report.applied = pass.raw \cup {v \in Variables : free(v) /\ old(v) # {}}
      BY DEF PassInv
    <3> HIDE DEF new, old, free, next
    <3>2. QED BY <3>1, <1>10, <2>1
  <2>7. next.report.collisions = {v \in next.raw : new(v) # {}}
    <3>1. pass.report.collisions = {v \in pass.raw : old(v) # {}}
      BY DEF PassInv
    <3> HIDE DEF new, old, free, next
    <3>2. QED BY <3>1, <1>10, <2>1, <2>2
  <2> HIDE DEF next
  <2>8. QED BY <1>3, <2>3, <2>4, <2>5, <2>6, <2>7 DEF PassInv
\* A row that sets its variable.
<1>11. ASSUME IsTyped(file, b), value # H!Unset, H!Overrides(pass, b),
              next.env = [pass.env EXCEPT ![b.env] = value], next.raw = pass.raw,
              next.report.applied = pass.report.applied \cup {b.env},
              next.report.collisions = pass.report.collisions \cup ({b.env} \cap pass.raw),
              next.report.dangling = pass.report.dangling
       PROVE  PassInv(platform, file, n + 1, next)
  <2>1. new(b.env) = old(b.env) \cup {value} /\ \A v : v # b.env => new(v) = old(v)
    BY <1>5, <1>11
  <2>2. free(b.env)
    <3>1. CASE b.env \in pass.raw
      BY <3>1, <1>6
    <3>2. CASE ~H!Present(pass.env, b.env)
      BY <3>2, <1>2 DEF PassInv, H!Present
    <3>3. QED BY <3>1, <3>2, <1>11 DEF H!Overrides
  <2>3. ASSUME NEW k \in 1 .. n + 1, IsTyped(file, Bindings[k]), Meaning(platform, file, Bindings[k]) = H!Unset
        PROVE  <<Bindings[k].env, file.keys[Bindings[k].key]>> \in next.report.dangling
    <3>1. k # n + 1
      BY <2>3, <1>4, <1>11
    <3>2. k \in 1 .. n
      BY <3>1, <1>1
    <3>3. QED BY <3>2, <2>3, <1>11 DEF PassInv
  <2>4. next.raw = Before(platform, file).raw
    BY <1>6, <1>11
  <2>5. ASSUME NEW v \in Variables
        PROVE  /\ ~free(v) => next.env[v] = platform[v]
               /\ free(v) => /\ new(v) = {} => next.env[v] = Before(platform, file).env[v]
                             /\ new(v) # {} => next.env[v] \in new(v)
    <3>1. CASE v = b.env
      BY <3>1, <1>11, <2>1, <2>2, <1>7
    <3>2. CASE v # b.env
      <4>1. next.env[v] = pass.env[v]
        BY <3>2, <1>11, <1>7
      <4>2. QED BY <4>1, <3>2, <2>1 DEF PassInv
    <3>3. QED BY <3>1, <3>2
  <2>6. next.report.applied = next.raw \cup {v \in Variables : free(v) /\ new(v) # {}}
    <3>1. pass.report.applied = pass.raw \cup {v \in Variables : free(v) /\ old(v) # {}}
      BY DEF PassInv
    <3> HIDE DEF new, old, free, next
    <3>2. QED BY <3>1, <1>2, <1>11, <2>1, <2>2
  <2>7. next.report.collisions = {v \in next.raw : new(v) # {}}
    <3>1. pass.report.collisions = {v \in pass.raw : old(v) # {}}
      BY DEF PassInv
    <3> HIDE DEF new, old, free, next
    <3>2. QED BY <3>1, <1>11, <2>1
  <2> HIDE DEF next
  <2>8. QED BY <1>3, <2>3, <2>4, <2>5, <2>6, <2>7 DEF PassInv
<1>12. \/ x \in {H!Missing, H!Unset} /\ next = pass
       \/ x \notin {H!Missing, H!Unset} /\ value = H!Unset /\ next = [pass EXCEPT !.report.dangling = @ \cup {<<b.env, x>>}]
       \/ /\ x \notin {H!Missing, H!Unset} /\ value # H!Unset /\ ~H!Overrides(pass, b)
          /\ next = [pass EXCEPT !.report.skipped = @ \cup {b.env}]
       \/ /\ x \notin {H!Missing, H!Unset} /\ value # H!Unset /\ H!Overrides(pass, b)
          /\ next = [pass EXCEPT !.env = [pass.env EXCEPT ![b.env] = value],
                                 !.report = [pass.report EXCEPT !.applied = @ \cup {b.env},
                                                                !.collisions = @ \cup ({b.env} \cap pass.raw)]]
  BY BindCases
<1>13. IsTyped(file, b) <=> x \notin {H!Missing, H!Unset}
  BY DEF IsTyped
<1> HIDE DEF next, value, x
<1>14. ASSUME x \in {H!Missing, H!Unset}, next = pass PROVE PassInv(platform, file, n + 1, next)
  BY <1>10, <1>13, <1>14
<1>15. ASSUME x \notin {H!Missing, H!Unset}, value = H!Unset, next = [pass EXCEPT !.report.dangling = @ \cup {<<b.env, x>>}]
       PROVE  PassInv(platform, file, n + 1, next)
  <2>1. /\ next.env = pass.env /\ next.raw = pass.raw /\ next.report.applied = pass.report.applied
        /\ next.report.collisions = pass.report.collisions /\ next.report.dangling = pass.report.dangling \cup {<<b.env, x>>}
    BY <1>7, <1>15
  <2>2. QED BY <2>1, <1>10, <1>15
<1>16. ASSUME x \notin {H!Missing, H!Unset}, value # H!Unset, ~H!Overrides(pass, b),
              next = [pass EXCEPT !.report.skipped = @ \cup {b.env}]
       PROVE  PassInv(platform, file, n + 1, next)
  <2>1. /\ next.env = pass.env /\ next.raw = pass.raw /\ next.report.applied = pass.report.applied
        /\ next.report.collisions = pass.report.collisions /\ next.report.dangling = pass.report.dangling
    BY <1>7, <1>16
  <2>2. QED BY <2>1, <1>10, <1>16
<1>17. ASSUME x \notin {H!Missing, H!Unset}, value # H!Unset, H!Overrides(pass, b),
              next = [pass EXCEPT !.env = [pass.env EXCEPT ![b.env] = value],
                                  !.report = [pass.report EXCEPT !.applied = @ \cup {b.env},
                                                                 !.collisions = @ \cup ({b.env} \cap pass.raw)]]
       PROVE  PassInv(platform, file, n + 1, next)
  <2>1. /\ next.env = [pass.env EXCEPT ![b.env] = value] /\ next.raw = pass.raw
        /\ next.report.applied = pass.report.applied \cup {b.env}
        /\ next.report.collisions = pass.report.collisions \cup ({b.env} \cap pass.raw)
        /\ next.report.dangling = pass.report.dangling
    BY <1>7, <1>17
  <2>2. QED BY <2>1, <1>11, <1>13, <1>17
<1>18. PassInv(platform, file, n + 1, next)
  BY <1>12, <1>14, <1>15, <1>16, <1>17
<1>19. QED BY <1>18 DEF next

LEMMA HydratedIs ==
  ASSUME FlowsAssumption, NEW platform, NEW file \in Files, Straight(file)
  PROVE  PassInv(platform, file, Len(Bindings), H!Hydrated(platform, file))
<1> DEFINE N == Len(Bindings)
           g == H!Passes(platform, file)
           P == {n \in Nat : n <= N => PassInv(platform, file, n, g[n])}
<1>1. N \in Nat
  BY TableIsList
<1>2. g[0] = Before(platform, file) /\ \A n \in 1 .. N : g[n] = H!Bind(g[n - 1], file, Bindings[n])
  BY PassesAre DEF Before
<1>3. 0 \in P
  BY <1>2, PassStarts
<1>4. ASSUME NEW n \in P PROVE n + 1 \in P
  <2> SUFFICES ASSUME n + 1 <= N PROVE PassInv(platform, file, n + 1, g[n + 1])
    OBVIOUS
  <2>1. n \in Nat /\ n + 1 \in 1 .. N /\ (n + 1) - 1 = n /\ n <= N
    BY <1>1
  <2>2. PassInv(platform, file, n, g[n])
    BY <2>1
  <2>3. g[n + 1] = H!Bind(g[n], file, Bindings[n + 1])
    <3> HIDE DEF g, N
    <3>1. QED BY <1>2, <2>1
  <2>4. QED BY <2>1, <2>2, <2>3, RowsAreRead
<1>5. P = Nat
  <2>1. P \in SUBSET Nat
    OBVIOUS
  <2> HIDE DEF P
  <2>2. QED BY <1>3, <1>4, <2>1, SetInduction
<1>6. PassInv(platform, file, N, g[N])
  <2>1. N \in P /\ N <= N
    BY <1>1, <1>5
  <2> HIDE DEF g, N
  <2>2. QED BY <2>1
<1>7. QED BY <1>6 DEF H!Hydrated

\* The state is what one boot made of a platform and a file.
SettingsInv ==
  /\ deployed.file \in Files /\ deployed = [platform |-> deployed.platform, file |-> deployed.file]
  /\ environ = H!Hydrated(deployed.platform, deployed.file).env
  /\ hydration = H!Hydrated(deployed.platform, deployed.file).report

\* The order of precedence, as the model states it, is that of the two passes.
LEMMA GivenIsBefore ==
  ASSUME NEW v \in Variables
  PROVE  H!Given(v) = Before(deployed.platform, deployed.file).env[v]
<1> DEFINE R == H!RawPass(deployed.platform, deployed.file)
<1>1. /\ R.raw = {u \in Variables : deployed.platform[u] = H!Unset /\ deployed.file.env[u] # H!Missing}
      /\ R.env = [u \in Variables |-> IF u \in R.raw THEN deployed.file.env[u] ELSE deployed.platform[u]]
  BY RawPassIs
<1>2. /\ deployed.platform[v] # H!Unset => H!Given(v) = deployed.platform[v]
      /\ deployed.platform[v] = H!Unset /\ deployed.file.env[v] # H!Missing => H!Given(v) = deployed.file.env[v]
      /\ deployed.platform[v] = H!Unset /\ deployed.file.env[v] = H!Missing => H!Given(v) = H!Unset
  BY Zenon DEF H!Given
<1>3. R.env[v] = IF v \in R.raw THEN deployed.file.env[v] ELSE deployed.platform[v]
  BY <1>1
<1>4. v \in R.raw <=> deployed.platform[v] = H!Unset /\ deployed.file.env[v] # H!Missing
  BY <1>1
<1> HIDE DEF R
<1>5. R.env[v] = H!Given(v)
  BY <1>2, <1>3, <1>4
<1>6. QED BY <1>5 DEF R, Before

LEMMA TypedIsSaid ==
  ASSUME FlowsAssumption, deployed.file \in Files, NEW v \in Variables
  PROVE  H!TypedValues(v) = Said(deployed.platform, deployed.file, Len(Bindings), v)
<1> DEFINE Mean(b) == Meaning(deployed.platform, deployed.file, b)
           rows == {k \in 1 .. Len(Bindings) : Bindings[k].env = v /\ IsTyped(deployed.file, Bindings[k])}
<1>1. 1 .. Len(Bindings) = DOMAIN Bindings
  BY TableIsList
<1>2. H!Typed(v) = {Bindings[k] : k \in rows}
  BY <1>1 DEF H!Typed, H!Range, IsTyped
<1>3. ASSUME NEW b \in H!Typed(v) PROVE H!Means(b) = Mean(b)
  <2>1. PICK k \in DOMAIN Bindings : b = Bindings[k] /\ IsTyped(deployed.file, b)
    BY <1>1, <1>2
  <2>2. b.indirect => deployed.file.keys[b.key] \in Variables
    BY <2>1, SettingsTable DEF IsTyped
  <2>3. b.indirect => H!Given(deployed.file.keys[b.key]) = Before(deployed.platform, deployed.file).env[deployed.file.keys[b.key]]
    BY <2>2, GivenIsBefore
  <2>4. QED BY <2>3 DEF H!Means, Meaning
<1>4. H!TypedValues(v) = {Mean(b) : b \in H!Typed(v)} \ {H!Unset}
  BY <1>3 DEF H!TypedValues
<1>5. Said(deployed.platform, deployed.file, Len(Bindings), v) = {Mean(Bindings[k]) : k \in rows} \ {H!Unset}
  BY DEF Said
<1> HIDE DEF Mean, rows
<1>6. QED BY <1>2, <1>4, <1>5

LEMMA StraightReferences ==
  ASSUME FlowsAssumption, H!PlainReferences
  PROVE  Straight(deployed.file)
<1> SUFFICES ASSUME NEW b \in H!Range(Bindings), b.indirect, IsTyped(deployed.file, b)
             PROVE  deployed.file.keys[b.key] \notin H!Targets
  BY DEF Straight
<1>1. b.env \in Variables
  BY DEF FlowsAssumption, H!HydrationAssumption
<1>2. b \in H!Typed(b.env)
  BY DEF H!Typed, IsTyped
<1>3. QED BY <1>1, <1>2 DEF H!PlainReferences

\* What one boot makes of the variables.
LEMMA BootGives ==
  ASSUME FlowsAssumption, SettingsInv, H!PlainReferences
  PROVE  /\ environ = [v \in Variables |-> environ[v]]
         /\ \A v \in Variables :
              /\ deployed.platform[v] # H!Unset => environ[v] = deployed.platform[v]
              /\ deployed.platform[v] = H!Unset /\ H!TypedValues(v) = {} => environ[v] = H!Given(v)
              /\ deployed.platform[v] = H!Unset /\ H!TypedValues(v) # {} => environ[v] \in H!TypedValues(v)
              /\ v \notin H!Targets => H!TypedValues(v) = {} /\ environ[v] = H!Given(v)
<1> DEFINE pass == H!Hydrated(deployed.platform, deployed.file)
<1>1. PassInv(deployed.platform, deployed.file, Len(Bindings), pass) /\ environ = pass.env
  BY StraightReferences, HydratedIs DEF SettingsInv
<1> HIDE DEF pass
<1>2. environ = [v \in Variables |-> environ[v]]
  BY <1>1 DEF PassInv, PassSet
<1>3. ASSUME NEW v \in Variables
      PROVE  /\ deployed.platform[v] # H!Unset => environ[v] = deployed.platform[v] /\ H!Given(v) = deployed.platform[v]
             /\ deployed.platform[v] = H!Unset /\ H!TypedValues(v) = {} => environ[v] = H!Given(v)
             /\ deployed.platform[v] = H!Unset /\ H!TypedValues(v) # {} => environ[v] \in H!TypedValues(v)
  <2>1. H!Given(v) = Before(deployed.platform, deployed.file).env[v]
    BY GivenIsBefore
  <2>2. H!TypedValues(v) = Said(deployed.platform, deployed.file, Len(Bindings), v)
    BY TypedIsSaid DEF SettingsInv
  <2>3. deployed.platform[v] # H!Unset => H!Given(v) = deployed.platform[v]
    BY Zenon DEF H!Given
  <2>4. QED BY <1>1, <2>1, <2>2, <2>3 DEF PassInv
<1>4. ASSUME NEW v \in Variables, v \notin H!Targets PROVE H!TypedValues(v) = {}
  BY <1>4 DEF H!TypedValues, H!Typed, H!Targets
<1>5. QED BY <1>2, <1>3, <1>4

\* Hydrating what was hydrated changes nothing.
LEMMA AgainIsSame ==
  ASSUME FlowsAssumption, SettingsInv, H!PlainReferences
  PROVE  H!Hydrated(environ, deployed.file).env = environ
<1> DEFINE file == deployed.file
           platform == deployed.platform
           again == H!Hydrated(environ, file)
           N == Len(Bindings)
<1>1. file \in Files /\ Straight(file)
  BY StraightReferences DEF SettingsInv
<1>2. PassInv(environ, file, N, again)
  BY <1>1, HydratedIs
<1> HIDE DEF again
\* A variable no typed key set is given again what it was given.
<1>3. ASSUME NEW v \in Variables, environ[v] = H!Given(v) PROVE Before(environ, file).env[v] = environ[v]
  <2> DEFINE R == H!RawPass(environ, file)
  <2>1. /\ R.raw = {u \in Variables : environ[u] = H!Unset /\ file.env[u] # H!Missing}
        /\ R.env = [u \in Variables |-> IF u \in R.raw THEN file.env[u] ELSE environ[u]]
    BY RawPassIs
  <2>2. R.env[v] = IF environ[v] = H!Unset /\ file.env[v] # H!Missing THEN file.env[v] ELSE environ[v]
    BY <2>1
  <2>3. environ[v] = H!Unset /\ file.env[v] # H!Missing => file.env[v] = environ[v]
    <3>1. /\ platform[v] # H!Unset => H!Given(v) = platform[v]
          /\ platform[v] = H!Unset /\ file.env[v] # H!Missing => H!Given(v) = file.env[v]
      BY Zenon DEF H!Given
    <3>2. QED BY <3>1, <1>3
  <2> HIDE DEF R
  <2>4. R.env[v] = environ[v]
    BY <2>2, <2>3
  <2>5. QED BY <2>4 DEF R, Before
<1>4. ASSUME NEW v \in Variables PROVE Said(environ, file, N, v) = Said(platform, file, N, v)
  <2>1. ASSUME NEW k \in 1 .. N, IsTyped(file, Bindings[k])
        PROVE  Meaning(environ, file, Bindings[k]) = Meaning(platform, file, Bindings[k])
    <3> DEFINE u == file.keys[Bindings[k].key]
    <3>1. k \in DOMAIN Bindings
      BY TableIsList
    <3>2. Bindings[k].indirect => u \in Variables /\ u \notin H!Targets
      BY <3>1, <2>1, <1>1, SettingsTable DEF IsTyped, Straight
    <3>3. Bindings[k].indirect => environ[u] = H!Given(u)
      BY <3>2, BootGives
    <3>4. Bindings[k].indirect => Before(environ, file).env[u] = Before(platform, file).env[u]
      BY <3>2, <3>3, <1>3, GivenIsBefore
    <3>5. QED BY <3>4 DEF Meaning
  <2> HIDE DEF file, platform
  <2>2. QED BY <2>1 DEF Said
<1>5. ASSUME NEW v \in Variables PROVE again.env[v] = environ[v]
  <2>1. CASE environ[v] # H!Unset
    BY <2>1, <1>2 DEF PassInv
  <2>2. CASE environ[v] = H!Unset
    <3>1. H!TypedValues(v) = Said(platform, file, N, v) /\ H!Unset \notin Said(platform, file, N, v)
      BY <1>1, TypedIsSaid DEF Said
    <3>2. H!TypedValues(v) = {} /\ environ[v] = H!Given(v)
      BY <2>2, <3>1, BootGives
    <3>3. again.env[v] = Before(environ, file).env[v]
      BY <2>2, <3>1, <3>2, <1>2, <1>4 DEF PassInv
    <3>4. QED BY <3>2, <3>3, <1>3
  <2>3. QED BY <2>1, <2>2
<1>6. again.env = [v \in Variables |-> again.env[v]]
  BY <1>2 DEF PassInv, PassSet
<1>7. environ = [v \in Variables |-> environ[v]]
  BY BootGives
<1>8. again.env = environ
  BY <1>5, <1>6, <1>7
<1>9. QED BY <1>8 DEF again

\* Where the Atlas key comes from: its variable, a typed key, a reference.
LEMMA AtlasKeyCases ==
  LET set == {H!Trimmed(environ[AtlasKeyVar])} \ {H!Unset}
      inline == H!FromInline(deployed.file)
      named == H!FromReference(deployed.file)
  IN \E from \in {set, inline, named} :
       /\ {k.value : k \in H!AtlasKey} = from
       /\ set # {} => from = set
       /\ set = {} /\ inline # {} => from = inline
       /\ set = {} /\ inline = {} => from = named
<1> DEFINE set == {H!Trimmed(environ[AtlasKeyVar])} \ {H!Unset}
           inline == H!FromInline(deployed.file)
           named == H!FromReference(deployed.file)
           of(values_, source) == {[value |-> x, source |-> source] : x \in values_}
<1>1. \E source : \E from \in {set, inline, named} :
        /\ H!AtlasKey = of(from, source)
        /\ set # {} => from = set
        /\ set = {} /\ inline # {} => from = inline
        /\ set = {} /\ inline = {} => from = named
  <2> DEFINE said == H!SourceOf(set, deployed.file)
  <2>1. set # {} => H!AtlasKey = of(set, said)
    BY Zenon DEF H!AtlasKey
  <2>2. set = {} /\ inline # {} => H!AtlasKey = of(inline, "env.yaml")
    BY Zenon DEF H!AtlasKey
  <2>3. set = {} /\ inline = {} => H!AtlasKey = of(named, "env.yaml")
    BY Zenon DEF H!AtlasKey
  <2> HIDE DEF set, inline, named, of, said
  <2>4. QED BY <2>1, <2>2, <2>3
<1>2. ASSUME NEW from, NEW source PROVE {k.value : k \in of(from, source)} = from
  <2>1. ASSUME NEW x \in from PROVE x \in {k.value : k \in of(from, source)}
    <3>1. [value |-> x, source |-> source] \in of(from, source) /\ [value |-> x, source |-> source].value = x
      OBVIOUS
    <3> HIDE DEF of
    <3>2. QED BY <3>1
  <2>2. ASSUME NEW k \in of(from, source) PROVE k.value \in from
    OBVIOUS
  <2> HIDE DEF of
  <2>3. QED BY <2>1, <2>2
<1> HIDE DEF set, inline, named, of
<1>3. \E from \in {set, inline, named} :
        /\ {k.value : k \in H!AtlasKey} = from
        /\ set # {} => from = set
        /\ set = {} /\ inline # {} => from = inline
        /\ set = {} /\ inline = {} => from = named
  BY <1>1, <1>2
<1>4. QED BY <1>3 DEF set, inline, named

\* The rows of the Atlas key that the file has.
LEMMA AtlasKeyRows ==
  ASSUME FlowsAssumption, SettingsInv, H!PlainReferences
  PROVE  /\ \A x \in H!FromInline(deployed.file) : x \in H!TypedValues(AtlasKeyVar)
         /\ \A x \in H!FromReference(deployed.file) : x \in H!TypedValues(AtlasKeyVar)
         /\ H!FromInline(deployed.file) = {} /\ H!FromReference(deployed.file) = {} =>
              H!TypedValues(AtlasKeyVar) \subseteq {H!Blank}
         /\ H!DanglingAtlasKey => \E x \in H!AtlasKeys(deployed.file).named : <<AtlasKeyVar, x>> \in hydration.dangling
<1> DEFINE file == deployed.file
           rows == {b \in H!Range(Bindings) : b.env = AtlasKeyVar /\ file.keys[b.key] # H!Missing}
           inline == H!AtlasKeys(file).inline
           named == H!AtlasKeys(file).named
<1>1. AtlasKeyVar \in Variables /\ file \in Files /\ Straight(file)
  BY StraightReferences DEF SettingsInv, FlowsAssumption, H!HydrationAssumption
<1>2. inline = {file.keys[b.key] : b \in {c \in rows : ~c.indirect}} /\ named = {file.keys[b.key] : b \in {c \in rows : c.indirect}}
  BY DEF H!AtlasKeys
<1> HIDE DEF inline, named
<1>3. \A x : x # H!Blank => H!Trimmed(x) = x
  BY DEF H!Trimmed
<1>4. H!Trimmed(H!Blank) = H!Unset /\ H!Trimmed(H!Unset) = H!Unset
  BY DEF H!Trimmed, H!Blank, H!Unset
\* A reference is read from the variables as they were.
<1>5. ASSUME NEW b \in rows, b.indirect
      PROVE  /\ b \in H!Typed(AtlasKeyVar) /\ file.keys[b.key] \in Variables
             /\ H!Means(b) = H!Trimmed(environ[file.keys[b.key]])
  <2>1. file.keys[b.key] \in Variables /\ file.keys[b.key] # H!Unset
    BY <1>1, <1>5 DEF FlowsAssumption, H!HydrationAssumption
  <2>2. b \in H!Typed(AtlasKeyVar)
    BY <2>1 DEF H!Typed
  <2>3. file.keys[b.key] \notin H!Targets
    BY <1>1, <1>5, <2>2 DEF H!PlainReferences
  <2>4. environ[file.keys[b.key]] = H!Given(file.keys[b.key])
    BY <2>1, <2>3, BootGives
  <2>5. QED BY <2>1, <2>2, <2>4, <1>5 DEF H!Means
<1>6. ASSUME NEW x \in H!FromInline(file) PROVE x \in H!TypedValues(AtlasKeyVar)
  <2>1. PICK b \in rows : ~b.indirect /\ x = H!Trimmed(file.keys[b.key]) /\ x # H!Unset
    BY <1>2 DEF H!FromInline, inline
  <2>2. file.keys[b.key] # H!Unset /\ x = file.keys[b.key]
    BY <2>1, <1>3, <1>4
  <2>3. b \in H!Typed(AtlasKeyVar) /\ H!Means(b) = x
    BY <2>1, <2>2 DEF H!Typed, H!Means
  <2>4. QED BY <2>1, <2>3 DEF H!TypedValues
<1>7. ASSUME NEW x \in H!FromReference(file) PROVE x \in H!TypedValues(AtlasKeyVar)
  <2>1. PICK b \in rows : b.indirect /\ x = H!Trimmed(environ[file.keys[b.key]]) /\ x # H!Unset
    BY <1>2 DEF H!FromReference, named
  <2>2. QED BY <2>1, <1>5 DEF H!TypedValues
<1>8. ASSUME H!FromInline(file) = {}, H!FromReference(file) = {}, NEW y \in H!TypedValues(AtlasKeyVar)
      PROVE  y = H!Blank
  <2>1. PICK b \in H!Typed(AtlasKeyVar) : y = H!Means(b) /\ y # H!Unset
    BY DEF H!TypedValues
  <2>2. b \in rows /\ file.keys[b.key] \notin {H!Missing, H!Unset}
    BY DEF H!Typed
  <2>3. CASE b.indirect
    <3>1. file.keys[b.key] \in named /\ y = H!Trimmed(environ[file.keys[b.key]])
      BY <2>1, <2>2, <2>3, <1>2, <1>5
    <3>2. y \in H!FromReference(file)
      BY <3>1, <2>1 DEF H!FromReference, named
    <3>3. QED BY <3>2, <1>8
  <2>4. CASE ~b.indirect
    <3>1. file.keys[b.key] \in inline /\ y = file.keys[b.key]
      BY <2>1, <2>2, <2>4, <1>2 DEF H!Means
    <3>2. H!Trimmed(y) = H!Unset
      BY <3>1, <1>8 DEF H!FromInline, inline
    <3>3. QED BY <3>2, <2>1, <1>3
  <2>5. QED BY <2>3, <2>4
<1>9. ASSUME H!DanglingAtlasKey PROVE \E x \in named : <<AtlasKeyVar, x>> \in hydration.dangling
  <2>1. PICK x \in named : H!Trimmed(environ[x]) = H!Unset
    BY <1>9 DEF H!DanglingAtlasKey, H!FromReference, named
  <2>2. PICK b \in rows : b.indirect /\ x = file.keys[b.key]
    BY <1>2
  <2>3. PICK k \in DOMAIN Bindings : b = Bindings[k]
    BY DEF H!Range
  <2>4. IsTyped(file, b) /\ x \in Variables /\ H!Means(b) = H!Unset
    BY <2>1, <2>2, <1>5 DEF H!Typed, IsTyped
  <2>5. Meaning(deployed.platform, file, b) = H!Unset
    BY <2>2, <2>4, GivenIsBefore DEF H!Means, Meaning
  <2>6. PassInv(deployed.platform, file, Len(Bindings), H!Hydrated(deployed.platform, file))
    BY <1>1, HydratedIs
  <2>7. k \in 1 .. Len(Bindings) /\ hydration = H!Hydrated(deployed.platform, file).report
    BY TableIsList DEF SettingsInv
  <2>8. <<b.env, x>> \in hydration.dangling
    BY <2>2, <2>3, <2>4, <2>5, <2>6, <2>7 DEF PassInv
  <2>9. QED BY <2>2, <2>8
<1>10. QED BY <1>6, <1>7, <1>8, <1>9 DEF named

LEMMA SettingsInvSays == FlowsAssumption /\ SettingsInv => H!SettingsHold
<1> SUFFICES ASSUME FlowsAssumption, SettingsInv, H!PlainReferences
             PROVE  H!PrecedenceHolds /\ H!AtlasKeyHolds /\ H!ReportHolds
  BY DEF H!SettingsHold, H!PrecedenceHolds, H!AtlasKeyHolds, H!ReportHolds
<1> DEFINE file == deployed.file
           platform == deployed.platform
<1>1. H!PrecedenceHolds
  <2>1. ASSUME NEW v \in Variables
        PROVE  CASE platform[v] # H!Unset -> environ[v] = platform[v]
                 [] platform[v] = H!Unset /\ H!TypedValues(v) # {} -> environ[v] \in H!TypedValues(v)
                 [] OTHER -> environ[v] = H!Given(v)
    <3>1. /\ platform[v] # H!Unset => environ[v] = platform[v]
          /\ platform[v] = H!Unset /\ H!TypedValues(v) = {} => environ[v] = H!Given(v)
          /\ platform[v] = H!Unset /\ H!TypedValues(v) # {} => environ[v] \in H!TypedValues(v)
      BY BootGives
    <3>2. QED BY <3>1, Zenon
  <2>2. H!Hydrated(environ, file).env = environ
    BY AgainIsSame
  <2>3. QED BY <2>1, <2>2, Zenon DEF H!PrecedenceHolds
<1>2. H!AtlasKeyHolds
  <2> DEFINE A == AtlasKeyVar
             set == {H!Trimmed(environ[A])} \ {H!Unset}
             inline == H!FromInline(file)
             named == H!FromReference(file)
             values_ == {k.value : k \in H!AtlasKey}
  <2>1. A \in Variables
    BY DEF FlowsAssumption, H!HydrationAssumption
  <2>2. /\ values_ \in {set, inline, named}
        /\ set # {} => values_ = set
        /\ set = {} /\ inline # {} => values_ = inline
        /\ set = {} /\ inline = {} => values_ = named
    BY AtlasKeyCases
  <2>3. /\ platform[A] # H!Unset => environ[A] = platform[A]
        /\ platform[A] = H!Unset /\ H!TypedValues(A) = {} => environ[A] = H!Given(A)
        /\ platform[A] = H!Unset /\ H!TypedValues(A) # {} => environ[A] \in H!TypedValues(A)
    BY <2>1, BootGives
  <2>4. platform[A] # H!Unset => H!Given(A) = platform[A]
    BY Zenon DEF H!Given
  <2>5. /\ environ[A] # H!Blank => H!Trimmed(environ[A]) = environ[A]
        /\ environ[A] = H!Blank => H!Trimmed(environ[A]) = H!Unset
    BY DEF H!Trimmed
  <2>6. /\ \A x \in inline : x \in H!TypedValues(A)
        /\ \A x \in named : x \in H!TypedValues(A)
        /\ inline = {} /\ named = {} => H!TypedValues(A) \subseteq {H!Blank}
        /\ H!DanglingAtlasKey => \E x \in H!AtlasKeys(file).named : <<A, x>> \in hydration.dangling
    BY AtlasKeyRows
  <2>7. H!AtlasKey = {} <=> values_ = {}
    OBVIOUS
  <2> HIDE DEF set, inline, named, values_
  <2>8. platform[A] \notin {H!Unset, H!Blank} => values_ = {platform[A]}
    BY <2>2, <2>3, <2>5 DEF set
  <2>9. \A x \in values_ : x \in {H!Given(A)} \cup H!TypedValues(A)
    <3>1. \A x \in set : x \in {H!Given(A)} \cup H!TypedValues(A)
      BY <2>3, <2>4, <2>5 DEF set
    <3>2. QED BY <3>1, <2>2, <2>6
  <2>10. ASSUME values_ = {}
         PROVE  /\ H!TypedValues(A) \subseteq {H!Blank}
                /\ H!TypedValues(A) = {} => H!Trimmed(H!Given(A)) = H!Unset
    <3>1. set = {} /\ inline = {} /\ named = {}
      BY <2>2, <2>10
    <3>2. H!Trimmed(environ[A]) = H!Unset
      BY <3>1 DEF set
    <3>3. H!TypedValues(A) = {} => environ[A] = H!Given(A)
      BY <2>3, <2>4
    <3>4. QED BY <3>1, <3>2, <3>3, <2>6
  <2>11. \A k \in H!AtlasKey : k.value \in {H!Given(A)} \cup H!TypedValues(A)
    BY <2>9 DEF values_
  <2>12. QED BY <2>6, <2>7, <2>8, <2>10, <2>11 DEF H!AtlasKeyHolds, values_
<1>3. H!ReportHolds
  <2> DEFINE pass == H!Hydrated(platform, file)
             free == {v \in Variables : platform[v] = H!Unset}
             raw == {v \in free : file.env[v] # H!Missing}
             typed == {v \in free : H!TypedValues(v) # {}}
  <2>1. PassInv(platform, file, Len(Bindings), pass) /\ hydration = pass.report
    BY StraightReferences, HydratedIs DEF SettingsInv
  <2>2. \A v \in Variables : H!TypedValues(v) = Said(platform, file, Len(Bindings), v)
    BY TypedIsSaid DEF SettingsInv
  <2>3. pass.raw = raw
    <3>1. H!RawPass(platform, file).raw = {v \in Variables : platform[v] = H!Unset /\ file.env[v] # H!Missing}
      BY RawPassIs
    <3>2. pass.raw = H!RawPass(platform, file).raw
      BY <2>1 DEF PassInv, Before
    <3> HIDE DEF pass
    <3>3. QED BY <3>1, <3>2
  <2> HIDE DEF pass
  <2>4. hydration.applied = raw \cup typed
    BY <2>1, <2>2, <2>3 DEF PassInv
  <2>5. hydration.collisions = raw \cap typed
    BY <2>1, <2>2, <2>3 DEF PassInv
  <2>6. QED BY <2>4, <2>5 DEF H!ReportHolds
<1>4. QED BY <1>1, <1>2, <1>3

LEMMA SettingsStart == H!HydrationInit => SettingsInv
<1> SUFFICES ASSUME NEW platform \in [Variables -> Injected], NEW file \in Files, H!Booted(platform, file)
             PROVE  SettingsInv
  BY DEF H!HydrationInit
<1>1. deployed = [platform |-> platform, file |-> file]
  BY DEF H!Booted
<1>2. QED BY <1>1 DEF H!Booted, SettingsInv

\* The process restarts with another platform and the same file.
LEMMA SettingsRestart == SettingsInv /\ H!HydrationNext => SettingsInv'
<1> SUFFICES ASSUME SettingsInv, NEW v \in Variables, NEW x \in Injected, H!Restart(v, x)
             PROVE  SettingsInv'
  BY DEF H!HydrationNext
<1>1. deployed' = [deployed EXCEPT !.platform[v] = x]
  BY DEF H!Restart
<1>2. deployed'.file = deployed.file /\ deployed' = [platform |-> deployed'.platform, file |-> deployed'.file]
  BY <1>1 DEF SettingsInv
<1>3. /\ environ' = H!Hydrated(deployed'.platform, deployed.file).env
      /\ hydration' = H!Hydrated(deployed'.platform, deployed.file).report
  BY Zenon DEF H!Restart
<1>4. QED BY <1>2, <1>3 DEF SettingsInv

\* A variable of the platform wins over the file and a typed key over the env: map, also after the platform
\* rotated a secret; the key in force, the boot's report and its warning agree with that, for any table of
\* settings, file and platform, where no reference names a variable another row sets (config/hydrate.ts).
THEOREM SettingsHoldAlways == MCSpec => []SettingsHold
<1> DEFINE Inv == part = "settings" => SettingsInv
<1>1. MCInit => Inv
  BY SettingsStart DEF MCInit
<1>2. Inv /\ [MCNext]_<<part, vars, inbound, client, values, meter, settings>> => Inv'
  <2> SUFFICES ASSUME Inv, [MCNext]_<<part, vars, inbound, client, values, meter, settings>>, part' = "settings"
               PROVE  SettingsInv'
    OBVIOUS
  <2>1. CASE part = "settings" /\ H!HydrationNext
    BY <2>1, SettingsRestart
  <2>2. CASE UNCHANGED <<part, settings>>
    BY <2>2 DEF settings, SettingsInv
  <2>3. QED BY <2>1, <2>2 DEF MCNext
<1>3. Inv => SettingsHold
  BY SettingsInvSays, FlowsAssumption DEF SettingsHold
<1> HIDE DEF Inv
<1>4. QED BY <1>1, <1>2, <1>3, PTL DEF MCSpec

-----------------------------------------------------------------------------
(* The items of a list at some of its positions.                             *)

ImageOf(f, S) == {f[x] : x \in S}

\* What a function makes of finitely many is finitely many.
LEMMA ImageSize ==
  ASSUME NEW S, IsFiniteSet(S), NEW f, DOMAIN f = S, \A x, y \in S : f[x] = f[y] => x = y
  PROVE  IsFiniteSet(ImageOf(f, S)) /\ Cardinality(ImageOf(f, S)) = Cardinality(S)
<1> DEFINE T == {f[x] : x \in S}
           g == [x \in S |-> f[x]]
<1>1. g \in Surjection(S, T)
  BY DEF Surjection
<1>2. g \in Injection(S, T)
  BY DEF Injection, IsInjective
<1> HIDE DEF g, T
<1>3. QED BY <1>1, <1>2, FS_Surjection DEF T, ImageOf

\* The place of position k among S, and the position at place n.
PlaceOf(S, k) == Cardinality({j \in S : j <= k})
PositionAt(S, n) == CHOOSE k \in S : PlaceOf(S, k) = n

LEMMA PlacesRise ==
  ASSUME NEW S \in SUBSET Nat, IsFiniteSet(S), NEW k \in S
  PROVE  /\ PlaceOf(S, k) \in 1 .. Cardinality(S)
         /\ \A j \in S : j < k => PlaceOf(S, j) < PlaceOf(S, k)
<1> DEFINE upto(j) == {i \in S : i <= j}
<1>1. \A j : upto(j) \subseteq S /\ IsFiniteSet(upto(j)) /\ Cardinality(upto(j)) \in Nat
             /\ Cardinality(upto(j)) <= Cardinality(S)
  BY FS_Subset, FS_CardinalityType
<1>2. Cardinality(S) \in Nat
  BY FS_CardinalityType
<1>3. Cardinality(upto(k)) # 0
  <2>1. upto(k) # {}
    OBVIOUS
  <2> HIDE DEF upto
  <2>2. QED BY <1>1, <2>1, FS_EmptySet
<1>4. ASSUME NEW j \in S, j < k PROVE Cardinality(upto(j)) < Cardinality(upto(k))
  <2>1. upto(j) \subseteq upto(k) /\ upto(j) # upto(k)
    <3>1. S \subseteq Nat /\ j \in Nat /\ k \in Nat
      OBVIOUS
    <3>2. k \in upto(k) /\ k \notin upto(j)
      BY <1>4, <3>1
    <3>3. \A i \in S : i <= j => i <= k
      BY <1>4, <3>1
    <3>4. QED BY <3>2, <3>3
  <2> HIDE DEF upto
  <2>2. Cardinality(upto(j)) <= Cardinality(upto(k)) /\ Cardinality(upto(j)) # Cardinality(upto(k))
    BY <1>1, <2>1, FS_Subset
  <2>3. QED BY <1>1, <2>2
<1> HIDE DEF upto
<1>5. QED BY <1>1, <1>2, <1>3, <1>4 DEF PlaceOf, upto

\* Each place has one position.
LEMMA PlacesFill ==
  ASSUME NEW S \in SUBSET Nat, IsFiniteSet(S)
  PROVE  /\ Cardinality(S) \in Nat
         /\ \A n \in 1 .. Cardinality(S) : PositionAt(S, n) \in S /\ PlaceOf(S, PositionAt(S, n)) = n
         /\ \A k \in S : PlaceOf(S, k) \in 1 .. Cardinality(S) /\ PositionAt(S, PlaceOf(S, k)) = k
<1> DEFINE N == Cardinality(S)
           f == [k \in S |-> PlaceOf(S, k)]
           places == {f[k] : k \in S}
<1>1. N \in Nat
  BY FS_CardinalityType
<1>2. \A k \in S : PlaceOf(S, k) \in 1 .. N /\ \A j \in S : j < k => PlaceOf(S, j) < PlaceOf(S, k)
  BY PlacesRise
<1>3. \A j, k \in S : PlaceOf(S, j) = PlaceOf(S, k) => j = k
  <2> SUFFICES ASSUME NEW j \in S, NEW k \in S, PlaceOf(S, j) = PlaceOf(S, k) PROVE j = k
    OBVIOUS
  <2>1. PlaceOf(S, j) \in Nat /\ j \in Nat /\ k \in Nat
    BY <1>1, <1>2
  <2>2. ~(j < k) /\ ~(k < j)
    BY <1>2, <2>1
  <2>3. QED BY <2>1, <2>2
<1>4. DOMAIN f = S /\ \A k \in S : f[k] = PlaceOf(S, k)
  OBVIOUS
<1> HIDE DEF f
<1>5. Cardinality(places) = N
  <2>1. \A g, T : IsFiniteSet(T) /\ DOMAIN g = T /\ (\A x, y \in T : g[x] = g[y] => x = y) =>
          Cardinality(ImageOf(g, T)) = Cardinality(T)
    BY ImageSize
  <2>2. \A x, y \in S : f[x] = f[y] => x = y
    BY <1>3, <1>4
  <2>3. IsFiniteSet(S) /\ DOMAIN f = S
    BY <1>4
  <2> HIDE DEF N
  <2>4. Cardinality(ImageOf(f, S)) = Cardinality(S)
    BY <2>1, <2>2, <2>3, Zenon
  <2>5. QED BY <2>4, Zenon DEF N, ImageOf
<1>6. places \subseteq 1 .. N
  BY <1>2, <1>4
<1>7. IsFiniteSet(1 .. N) /\ Cardinality(1 .. N) = N
  BY <1>1, FS_Interval
<1> HIDE DEF N
<1>8. places = 1 .. N
  <2> HIDE DEF places
  <2>1. QED BY <1>5, <1>6, <1>7, FS_Subset
<1>9. \A n \in 1 .. N : \E k \in S : PlaceOf(S, k) = n
  BY <1>4, <1>8
<1>10. \A n \in 1 .. N : PositionAt(S, n) \in S /\ PlaceOf(S, PositionAt(S, n)) = n
  BY <1>9, Zenon DEF PositionAt
<1>11. \A k \in S : PositionAt(S, PlaceOf(S, k)) = k
  BY <1>2, <1>3, <1>10
<1>12. QED BY <1>1, <1>2, <1>10, <1>11 DEF N

\* The list at positions S: each of its items is at a place, in order, and nothing else is.
Sublist(list, S) == [n \in 1 .. Cardinality(S) |-> list[PositionAt(S, n)]]

LEMMA SublistIs ==
  ASSUME NEW list, NEW S \in SUBSET Nat, IsFiniteSet(S)
  PROVE  /\ Cardinality(S) \in Nat /\ DOMAIN Sublist(list, S) = 1 .. Cardinality(S)
         /\ \A n \in DOMAIN Sublist(list, S) : PositionAt(S, n) \in S /\ Sublist(list, S)[n] = list[PositionAt(S, n)]
         /\ \A k \in S : \E n \in DOMAIN Sublist(list, S) : Sublist(list, S)[n] = list[k]
         /\ \A m, n \in DOMAIN Sublist(list, S) : PositionAt(S, m) = PositionAt(S, n) => m = n
<1>1. /\ Cardinality(S) \in Nat
      /\ \A n \in 1 .. Cardinality(S) : PositionAt(S, n) \in S /\ PlaceOf(S, PositionAt(S, n)) = n
      /\ \A k \in S : PlaceOf(S, k) \in 1 .. Cardinality(S) /\ PositionAt(S, PlaceOf(S, k)) = k
  BY PlacesFill
<1>2. QED BY <1>1 DEF Sublist

-----------------------------------------------------------------------------
(* What the client reports (ClientEvents).                                   *)

ClientReceipts == [id : E!Ids, event : E!Event]
Among(x, list) == \E k \in DOMAIN list : list[k] = x

LEMMA ClientSets == \A S : E!Cardinality(S) = Cardinality(S)
<1>1. ASSUME NEW S PROVE E!Cardinality(S) = Cardinality(S)
  BY DEF E!Cardinality, Cardinality
<1>2. QED BY <1>1

LEMMA AtIsSublist ==
  ASSUME NEW list, NEW S
  PROVE  E!At(list, S) = Sublist(list, S)
BY DEF E!At, Sublist, PositionAt, PlaceOf, E!Cardinality, Cardinality

LEMMA ClientRanks ==
  /\ E!Rank("none") = 1 /\ E!Rank("delivered") = 2 /\ E!Rank("read") = 3 /\ E!Rank("bounced") = 3 /\ E!Rank("clicked") = 4
  /\ \A e \in E!Event : E!Rank(e) \in 2 .. 4
  /\ "none" \notin E!Event
<1>1. /\ E!Rank("none") = 1 /\ E!Rank("delivered") = 2 /\ E!Rank("read") = 3 /\ E!Rank("bounced") = 3 /\ E!Rank("clicked") = 4
  BY Zenon DEF E!Rank
<1>2. QED BY <1>1 DEF E!Event

\* Each place of the ladder is the rank of its event; a bounce is beside it.
LEMMA LadderPlaces ==
  /\ E!Place("dispatched") = 1 /\ E!Place("delivered") = 2 /\ E!Place("read") = 3 /\ E!Place("clicked") = 4
  /\ E!Place("bounced") = 0
<1>1. /\ DOMAIN E!Ladder = 1 .. 4
      /\ E!Ladder[1] = "dispatched" /\ E!Ladder[2] = "delivered" /\ E!Ladder[3] = "read" /\ E!Ladder[4] = "clicked"
  BY DEF E!Ladder
<1> HIDE DEF E!Ladder
<1>2. ASSUME NEW k \in 1 .. 4 PROVE E!Place(E!Ladder[k]) = k
  <2>1. \A j \in 1 .. 4 : E!Ladder[j] = E!Ladder[k] => j = k
    BY <1>1
  <2>2. \E j \in DOMAIN E!Ladder : E!Ladder[j] = E!Ladder[k]
    BY <1>1
  <2>3. E!Place(E!Ladder[k]) = CHOOSE j \in DOMAIN E!Ladder : E!Ladder[j] = E!Ladder[k]
    BY <2>2, Zenon DEF E!Place
  <2>4. E!Place(E!Ladder[k]) \in DOMAIN E!Ladder /\ E!Ladder[E!Place(E!Ladder[k])] = E!Ladder[k]
    BY <2>2, <2>3, Zenon
  <2>5. QED BY <1>1, <2>1, <2>4
<1>3. E!Place("bounced") = 0
  <2>1. ~ \E j \in DOMAIN E!Ladder : E!Ladder[j] = "bounced"
    BY <1>1
  <2>2. QED BY <2>1, Zenon DEF E!Place
<1>4. 1 \in 1 .. 4 /\ 2 \in 1 .. 4 /\ 3 \in 1 .. 4 /\ 4 \in 1 .. 4
  OBVIOUS
<1>5. QED BY <1>1, <1>2, <1>3, <1>4

\* The steps that are filled in are those between what was reported and what is.
LEMMA StepsBetween ==
  ASSUME NEW last \in E!Event \cup {"none"}, NEW e \in E!Event
  PROVE  LET s == E!Steps(last, e)
         IN  /\ s \in Seq(E!Event)
             /\ \A k \in DOMAIN s : E!Rank(last) < E!Rank(s[k]) /\ E!Rank(s[k]) < E!Rank(e)
             /\ \A j, k \in DOMAIN s : j < k => E!Rank(s[j]) < E!Rank(s[k])
<1> DEFINE from == E!Place(IF last = "none" THEN "dispatched" ELSE last)
           to == E!Place(e)
           s == E!Steps(last, e)
<1>1. s = IF from = 0 \/ to = 0 THEN <<>> ELSE SubSeq(E!Ladder, from + 1, to - 1)
  BY DEF E!Steps
<1>2. from \in 0 .. 4 /\ to \in 0 .. 4 /\ (from # 0 => from = E!Rank(last)) /\ (to # 0 => to = E!Rank(e))
  BY LadderPlaces, ClientRanks DEF E!Event
<1>3. E!Ladder \in Seq({"dispatched", "delivered", "read", "clicked"}) /\ Len(E!Ladder) = 4
  BY DEF E!Ladder
<1>4. \A i \in 2 .. 3 : E!Ladder[i] \in E!Event /\ E!Rank(E!Ladder[i]) = i
  BY ClientRanks DEF E!Ladder, E!Event
<1> HIDE DEF from, to, s
<1>5. CASE from = 0 \/ to = 0
  BY <1>1, <1>5 DEF s
<1>6. ASSUME from # 0, to # 0
      PROVE  /\ s \in Seq(E!Event)
             /\ \A k \in DOMAIN s : from < E!Rank(s[k]) /\ E!Rank(s[k]) < to
             /\ \A j, k \in DOMAIN s : j < k => E!Rank(s[j]) < E!Rank(s[k])
  <2>1. from \in 1 .. 4 /\ to \in 1 .. 4
    BY <1>2, <1>6
  <2>2. s = SubSeq(E!Ladder, from + 1, to - 1)
    BY <1>1, <1>6, Zenon
  <2>3. \A i \in from + 1 .. to - 1 : i \in 2 .. 3
    BY <2>1
  <2>4. /\ s \in Seq(E!Event)
        /\ Len(s) = IF from + 1 <= to - 1 THEN to - 1 - (from + 1) + 1 ELSE 0
        /\ \A k \in 1 .. to - 1 - (from + 1) + 1 : s[k] = E!Ladder[from + 1 + k - 1]
    <3>1. from + 1 \in Int /\ to - 1 \in Int /\ \A i \in from + 1 .. to - 1 : E!Ladder[i] \in E!Event
      BY <2>1, <2>3, <1>4
    <3>2. QED BY <3>1, <2>2, SubSeqProperties
  <2>5. ASSUME NEW k \in DOMAIN s
        PROVE  k \in Nat \ {0} /\ from + k \in 2 .. 3 /\ from + k < to /\ E!Rank(s[k]) = from + k
    <3>1. k \in 1 .. Len(s)
      BY <2>4
    <3>2. from + 1 <= to - 1 /\ k \in 1 .. to - 1 - (from + 1) + 1
      BY <3>1, <2>4, <2>1
    <3>3. from + k \in 2 .. 3 /\ from + k < to /\ from + 1 + k - 1 = from + k
      BY <3>2, <2>1
    <3>4. s[k] = E!Ladder[from + k]
      BY <3>2, <3>3, <2>4
    <3>5. QED BY <3>2, <3>3, <3>4, <1>4
  <2>6. \A k \in DOMAIN s : from < E!Rank(s[k]) /\ E!Rank(s[k]) < to
    BY <2>1, <2>5
  <2>7. QED BY <2>1, <2>4, <2>5, <2>6
<1>7. QED BY <1>2, <1>5, <1>6 DEF s

-----------------------------------------------------------------------------
(* Receipts in the order of the ladder, each with what leads to it.          *)

\* What a choice of the positions gives.
LEMMA PartOfList ==
  ASSUME NEW T, NEW list \in Seq(T), NEW S \in SUBSET (DOMAIN list)
  PROVE  /\ E!At(list, S) \in Seq(T)
         /\ \A k \in S : Among(list[k], E!At(list, S))
         /\ \A n \in DOMAIN E!At(list, S) : \E k \in S : E!At(list, S)[n] = list[k]
<1> DEFINE part_ == Sublist(list, S)
<1>1. DOMAIN list = 1 .. Len(list) /\ Len(list) \in Nat /\ \A k \in DOMAIN list : list[k] \in T
  OBVIOUS
<1>2. S \in SUBSET Nat /\ IsFiniteSet(S)
  <2>1. IsFiniteSet(1 .. Len(list))
    BY <1>1, FS_Interval
  <2>2. QED BY <1>1, <2>1, FS_Subset
<1>3. /\ Cardinality(S) \in Nat /\ DOMAIN part_ = 1 .. Cardinality(S)
      /\ \A n \in DOMAIN part_ : PositionAt(S, n) \in S /\ part_[n] = list[PositionAt(S, n)]
      /\ \A k \in S : \E n \in DOMAIN part_ : part_[n] = list[k]
  BY <1>2, SublistIs
<1>4. part_ = [n \in 1 .. Cardinality(S) |-> part_[n]]
  BY <1>3 DEF Sublist
<1>5. E!At(list, S) = part_
  BY AtIsSublist
<1> HIDE DEF part_
<1>6. part_ \in Seq(T)
  <2>1. \A n \in 1 .. Cardinality(S) : part_[n] \in T
    BY <1>1, <1>3
  <2>2. part_ \in [1 .. Cardinality(S) -> T]
    BY <1>4, <2>1
  <2>3. QED BY <1>3, <2>2
<1>7. QED BY <1>3, <1>5, <1>6 DEF Among

LEMMA ConcatAmong ==
  ASSUME NEW s \in Seq(ClientReceipts), NEW t \in Seq(ClientReceipts)
  PROVE  /\ s \o t \in Seq(ClientReceipts)
         /\ \A x : Among(x, s \o t) <=> Among(x, s) \/ Among(x, t)
<1>1. /\ s \o t \in Seq(ClientReceipts) /\ Len(s \o t) = Len(s) + Len(t)
      /\ \A i \in 1 .. Len(s) + Len(t) : (s \o t)[i] = IF i <= Len(s) THEN s[i] ELSE t[i - Len(s)]
  BY ConcatProperties
<1> DEFINE u == s \o t
<1>2. DOMAIN s = 1 .. Len(s) /\ DOMAIN t = 1 .. Len(t) /\ DOMAIN u = 1 .. Len(u) /\ Len(s) \in Nat /\ Len(t) \in Nat
  BY <1>1
<1> HIDE DEF u
<1>3. ASSUME NEW x, Among(x, u) PROVE Among(x, s) \/ Among(x, t)
  <2>1. PICK i \in 1 .. Len(s) + Len(t) : u[i] = x
    BY <1>1, <1>2, <1>3 DEF Among, u
  <2>2. CASE i <= Len(s)
    <3>1. i \in 1 .. Len(s) /\ s[i] = x
      BY <2>1, <2>2, <1>1, <1>2 DEF u
    <3>2. QED BY <3>1, <1>2 DEF Among
  <2>3. CASE ~(i <= Len(s))
    <3>1. i - Len(s) \in 1 .. Len(t) /\ t[i - Len(s)] = x
      BY <2>1, <2>3, <1>1, <1>2 DEF u
    <3>2. QED BY <3>1, <1>2 DEF Among
  <2>4. QED BY <2>2, <2>3
<1>4. ASSUME NEW x, Among(x, s) PROVE Among(x, u)
  <2>1. PICK i \in 1 .. Len(s) : s[i] = x
    BY <1>2, <1>4 DEF Among
  <2>2. i \in 1 .. Len(s) + Len(t) /\ u[i] = x
    BY <2>1, <1>1, <1>2 DEF u
  <2>3. QED BY <2>2, <1>1, <1>2 DEF Among, u
<1>5. ASSUME NEW x, Among(x, t) PROVE Among(x, u)
  <2>1. PICK i \in 1 .. Len(t) : t[i] = x
    BY <1>2, <1>5 DEF Among
  <2>2. /\ i + Len(s) \in 1 .. Len(s) + Len(t) /\ ~(i + Len(s) <= Len(s)) /\ (i + Len(s)) - Len(s) = i
    BY <1>2
  <2>3. u[i + Len(s)] = x
    BY <2>1, <2>2, <1>1 DEF u
  <2>4. QED BY <2>2, <2>3, <1>1, <1>2 DEF Among, u
<1>6. QED BY <1>1, <1>3, <1>4, <1>5 DEF u

\* Ordering loses none.
LEMMA OrderedIs ==
  ASSUME NEW receipts \in Seq(ClientReceipts)
  PROVE  /\ E!Ordered(receipts) \in Seq(ClientReceipts)
         /\ \A k \in DOMAIN receipts : Among(receipts[k], E!Ordered(receipts))
<1> DEFINE Pos(n) == {k \in DOMAIN receipts : E!Rank(receipts[k].event) = n}
           OfRank(n) == E!At(receipts, Pos(n))
           s12 == OfRank(1) \o OfRank(2)
           s123 == s12 \o OfRank(3)
<1>1. E!Ordered(receipts) = s123 \o OfRank(4)
  BY DEF E!Ordered
<1>2. ASSUME NEW n PROVE /\ OfRank(n) \in Seq(ClientReceipts)
                         /\ \A k \in DOMAIN receipts : E!Rank(receipts[k].event) = n => Among(receipts[k], OfRank(n))
  <2>1. Pos(n) \in SUBSET (DOMAIN receipts)
    OBVIOUS
  <2>2. QED BY <2>1, PartOfList
<1>3. ASSUME NEW k \in DOMAIN receipts PROVE E!Rank(receipts[k].event) \in 2 .. 4
  <2>1. receipts[k] \in ClientReceipts
    OBVIOUS
  <2>3. receipts[k].event \in E!Event
    BY <2>1 DEF ClientReceipts
  <2>2. QED BY <2>3, ClientRanks
<1> HIDE DEF OfRank
<1>4. s12 \in Seq(ClientReceipts) /\ \A x : Among(x, OfRank(2)) => Among(x, s12)
  BY <1>2, ConcatAmong
<1> HIDE DEF s12
<1>5. s123 \in Seq(ClientReceipts) /\ \A x : Among(x, OfRank(3)) \/ Among(x, s12) => Among(x, s123)
  BY <1>2, <1>4, ConcatAmong
<1> HIDE DEF s123
<1>6. /\ s123 \o OfRank(4) \in Seq(ClientReceipts)
      /\ \A x : Among(x, OfRank(4)) \/ Among(x, s123) => Among(x, s123 \o OfRank(4))
  BY <1>2, <1>5, ConcatAmong
<1>7. ASSUME NEW k \in DOMAIN receipts PROVE Among(receipts[k], s123 \o OfRank(4))
  <2>1. \/ Among(receipts[k], OfRank(2)) \/ Among(receipts[k], OfRank(3)) \/ Among(receipts[k], OfRank(4))
    BY <1>2, <1>3
  <2>2. QED BY <2>1, <1>4, <1>5, <1>6
<1>8. QED BY <1>1, <1>6, <1>7

-----------------------------------------------------------------------------
(* What the reconciliation makes of a list (reconcileWebhookReceipts).       *)

Rising(list) ==
  \A j, k \in DOMAIN list : j < k /\ E!Recorded(list[j].id) /\ list[k].id = list[j].id => E!Rank(list[j].event) < E!Rank(list[k].event)

Below(a, b) == E!Recorded(a.id) /\ b.id = a.id => E!Rank(a.event) < E!Rank(b.event)

LEMMA RisingConcat ==
  ASSUME NEW s \in Seq(ClientReceipts), NEW t \in Seq(ClientReceipts), Rising(s), Rising(t),
         \A a, b : Among(a, s) /\ Among(b, t) => Below(a, b)
  PROVE  Rising(s \o t)
<1> DEFINE u == s \o t
<1>1. /\ u \in Seq(ClientReceipts) /\ Len(u) = Len(s) + Len(t)
      /\ \A i \in 1 .. Len(s) + Len(t) : u[i] = IF i <= Len(s) THEN s[i] ELSE t[i - Len(s)]
  BY ConcatProperties
<1>2. DOMAIN s = 1 .. Len(s) /\ DOMAIN t = 1 .. Len(t) /\ DOMAIN u = 1 .. Len(s) + Len(t) /\ Len(s) \in Nat /\ Len(t) \in Nat
  BY <1>1
<1> HIDE DEF u
<1>3. \A i \in DOMAIN u : \/ i \in DOMAIN s /\ u[i] = s[i]
                          \/ i \notin DOMAIN s /\ i - Len(s) \in DOMAIN t /\ u[i] = t[i - Len(s)]
  BY <1>1, <1>2
<1>4. ASSUME NEW j \in DOMAIN u, NEW k \in DOMAIN u, j < k PROVE Below(u[j], u[k])
  <2>1. CASE j \in DOMAIN s /\ k \in DOMAIN s
    BY <2>1, <1>3, <1>4 DEF Rising, Below
  <2>2. CASE j \in DOMAIN s /\ k \notin DOMAIN s
    <3>1. Among(u[j], s) /\ Among(u[k], t)
      BY <2>2, <1>3 DEF Among
    <3>2. QED BY <3>1
  <2>3. CASE j \notin DOMAIN s /\ k \notin DOMAIN s
    <3>1. j - Len(s) \in DOMAIN t /\ k - Len(s) \in DOMAIN t /\ j - Len(s) < k - Len(s)
      BY <2>3, <1>2, <1>3, <1>4
    <3>2. u[j] = t[j - Len(s)] /\ u[k] = t[k - Len(s)]
      BY <2>3, <1>3
    <3>3. QED BY <3>1, <3>2 DEF Rising, Below
  <2>4. ~(j \notin DOMAIN s /\ k \in DOMAIN s)
    BY <1>2, <1>4
  <2>5. QED BY <2>1, <2>2, <2>3, <2>4
<1>5. QED BY <1>4 DEF Rising, Below, u

ExpandSet == [out : Seq(ClientReceipts), reported : [E!Ids -> E!Event \cup {"none"}]]

\* A receipt passes as it is, is dropped, or goes out after the steps that lead to it.
LEMMA ExpandCases ==
  ASSUME NEW acc \in ExpandSet, NEW x \in ClientReceipts
  PROVE  \/ /\ ~E!Recorded(x.id)
            /\ E!Expand(acc, x) = [acc EXCEPT !.out = Append(@, x)]
         \/ /\ E!Recorded(x.id) /\ E!Rank(x.event) <= E!Rank(acc.reported[x.id])
            /\ E!Expand(acc, x) = acc
         \/ /\ E!Recorded(x.id) /\ E!Rank(x.event) > E!Rank(acc.reported[x.id])
            /\ E!Expand(acc, x) =
                 [out |-> acc.out \o [k \in DOMAIN E!Steps(acc.reported[x.id], x.event) |->
                                        [id |-> x.id, event |-> E!Steps(acc.reported[x.id], x.event)[k]]] \o <<x>>,
                  reported |-> [acc.reported EXCEPT ![x.id] = x.event]]
<1> DEFINE last == acc.reported[x.id]
           lead == [k \in DOMAIN E!Steps(last, x.event) |-> [id |-> x.id, event |-> E!Steps(last, x.event)[k]]]
<1>1. x.event \in E!Event /\ x.id \in E!Ids /\ last \in E!Event \cup {"none"}
  BY DEF ClientReceipts, ExpandSet
<1>2. E!Rank(x.event) \in Nat /\ E!Rank(last) \in Nat /\ (last = "none" => E!Rank(x.event) > E!Rank(last))
  BY <1>1, ClientRanks DEF E!Event
<1>3. CASE ~E!Recorded(x.id)
  BY <1>3, Zenon DEF E!Expand
<1>4. CASE E!Recorded(x.id) /\ E!Rank(x.event) <= E!Rank(last)
  <2>1. last # "none"
    BY <1>2, <1>4
  <2>2. E!Expand(acc, x) = acc
    BY <2>1, <1>4, Zenon DEF E!Expand
  <2>3. QED BY <2>2, <1>4
<1>5. CASE E!Recorded(x.id) /\ ~(E!Rank(x.event) <= E!Rank(last))
  <2>1. E!Rank(x.event) > E!Rank(last)
    BY <1>2, <1>5
  <2>2. E!Expand(acc, x) = [out |-> acc.out \o lead \o <<x>>,
                            reported |-> IF E!Rank(x.event) > E!Rank(last) THEN [acc.reported EXCEPT ![x.id] = x.event] ELSE acc.reported]
    BY <1>5, Zenon DEF E!Expand
  <2>3. E!Expand(acc, x) = [out |-> acc.out \o lead \o <<x>>, reported |-> [acc.reported EXCEPT ![x.id] = x.event]]
    BY <2>1, <2>2, Zenon
  <2>4. QED BY <2>1, <2>3, <1>5
<1>6. QED BY <1>3, <1>4, <1>5

Lead(id, s) == [k \in DOMAIN s |-> [id |-> id, event |-> s[k]]]

LEMMA LeadIs ==
  ASSUME NEW id \in E!Ids, NEW s \in Seq(E!Event), \A j, k \in DOMAIN s : j < k => E!Rank(s[j]) < E!Rank(s[k])
  PROVE  /\ Lead(id, s) \in Seq(ClientReceipts) /\ Rising(Lead(id, s))
         /\ \A a : Among(a, Lead(id, s)) => a.id = id /\ \E k \in DOMAIN s : a.event = s[k]
<1>1. DOMAIN s = 1 .. Len(s) /\ Len(s) \in Nat /\ \A k \in DOMAIN s : s[k] \in E!Event
  OBVIOUS
<1> DEFINE lead == Lead(id, s)
<1>2. DOMAIN lead = DOMAIN s /\ \A k \in DOMAIN s : lead[k] = [id |-> id, event |-> s[k]]
  BY DEF Lead
<1>3. lead \in [1 .. Len(s) -> ClientReceipts]
  BY <1>1 DEF Lead, ClientReceipts
<1> HIDE DEF lead
<1>4. lead \in Seq(ClientReceipts)
  BY <1>1, <1>3
<1>5. Rising(lead)
  BY <1>2 DEF Rising
<1>6. \A a : Among(a, lead) => a.id = id /\ \E k \in DOMAIN s : a.event = s[k]
  BY <1>2 DEF Among
<1>7. QED BY <1>4, <1>5, <1>6 DEF lead

LEMMA OneReceipt ==
  ASSUME NEW x \in ClientReceipts
  PROVE  <<x>> \in Seq(ClientReceipts) /\ Rising(<<x>>) /\ \A a : Among(a, <<x>>) <=> a = x
<1>1. <<x>> \in Seq(ClientReceipts) /\ DOMAIN <<x>> = {1} /\ <<x>>[1] = x
  OBVIOUS
<1>2. Rising(<<x>>)
  BY <1>1 DEF Rising
<1>3. \A a : Among(a, <<x>>) <=> a = x
  BY <1>1 DEF Among
<1>4. QED BY <1>1, <1>2, <1>3

\* What goes out rises for each message from what was recorded, and covers the list.
ExpandInv(st, list, n, acc) ==
  /\ acc \in ExpandSet
  /\ Rising(acc.out)
  /\ \A a : Among(a, acc.out) /\ E!Recorded(a.id) =>
       E!Rank(st[a.id]) < E!Rank(a.event) /\ E!Rank(a.event) <= E!Rank(acc.reported[a.id])
  /\ \A id \in E!Ids :
       /\ E!Rank(st[id]) <= E!Rank(acc.reported[id])
       /\ acc.reported[id] = st[id] \/ Among([id |-> id, event |-> acc.reported[id]], acc.out)
  /\ \A j \in 1 .. n :
       \/ Among(list[j], acc.out)
       \/ E!Recorded(list[j].id) /\ E!Rank(list[j].event) <= E!Rank(acc.reported[list[j].id])

LEMMA ExpandStays ==
  ASSUME NEW st \in [E!Ids -> E!Event \cup {"none"}], NEW list \in Seq(ClientReceipts), NEW n \in 1 .. Len(list),
         NEW acc, ExpandInv(st, list, n - 1, acc)
  PROVE  ExpandInv(st, list, n, E!Expand(acc, list[n]))
<1> DEFINE x == list[n]
           last == acc.reported[x.id]
           s == E!Steps(last, x.event)
           new == E!Expand(acc, x)
           one == <<x>>
<1>1. x \in ClientReceipts /\ x.id \in E!Ids /\ x.event \in E!Event /\ x = [id |-> x.id, event |-> x.event]
  <2>1. x \in ClientReceipts
    OBVIOUS
  <2> HIDE DEF x
  <2>2. QED BY <2>1 DEF ClientReceipts
<1>2. /\ acc \in ExpandSet /\ acc.out \in Seq(ClientReceipts) /\ acc.reported \in [E!Ids -> E!Event \cup {"none"}]
      /\ DOMAIN acc = {"out", "reported"} /\ last \in E!Event \cup {"none"}
  BY <1>1 DEF ExpandInv, ExpandSet
<1>3. \A id \in E!Ids : E!Rank(acc.reported[id]) \in Nat /\ E!Rank(st[id]) \in Nat
  <2>1. \A e \in E!Event \cup {"none"} : E!Rank(e) \in Nat
    BY ClientRanks
  <2>2. QED BY <2>1, <1>2
<1>4. E!Rank(x.event) \in Nat
  BY <1>1, ClientRanks
<1>5. \A j \in 1 .. n : j = n \/ j \in 1 .. n - 1
  OBVIOUS
<1>6. \A a : Among(a, acc.out) => a \in ClientReceipts /\ a.id \in E!Ids /\ E!Rank(a.event) \in Nat
  <2>1. \A a : Among(a, acc.out) => a \in ClientReceipts
    BY <1>2 DEF Among
  <2>2. \A e \in E!Event : E!Rank(e) \in Nat
    BY ClientRanks
  <2>3. QED BY <2>1, <2>2 DEF ClientReceipts
<1>7. one \in Seq(ClientReceipts) /\ Rising(one) /\ \A a : Among(a, one) <=> a = x
  BY <1>1, OneReceipt
<1> HIDE DEF x, last, s, one
<1>8. ASSUME ~E!Recorded(x.id), new = [acc EXCEPT !.out = Append(@, x)] PROVE ExpandInv(st, list, n, new)
  <2>1. new.out = acc.out \o one /\ new.reported = acc.reported /\ new = [out |-> new.out, reported |-> new.reported]
    <3>1. Append(acc.out, x) = acc.out \o one
      BY <1>1, <1>2, AppendIsConcat DEF one
    <3> HIDE DEF new
    <3>2. QED BY <3>1, <1>2, <1>8 DEF ExpandSet
  <2> HIDE DEF new
  <2>2. new.out \in Seq(ClientReceipts) /\ \A a : Among(a, new.out) <=> Among(a, acc.out) \/ a = x
    BY <2>1, <1>2, <1>7, ConcatAmong
  <2>3. Rising(new.out)
    <3>1. \A a, b : Among(a, acc.out) /\ Among(b, one) => Below(a, b)
      BY <1>7, <1>8 DEF Below
    <3>2. QED BY <3>1, <2>1, <1>2, <1>7, RisingConcat DEF ExpandInv
  <2>4. new \in ExpandSet
    BY <2>1, <2>2, <1>2 DEF ExpandSet
  <2>5. QED BY <2>1, <2>2, <2>3, <2>4, <1>5, <1>8 DEF ExpandInv, x
<1>9. ASSUME E!Recorded(x.id), E!Rank(x.event) <= E!Rank(last), new = acc PROVE ExpandInv(st, list, n, new)
  <2> HIDE DEF new
  <2>1. QED BY <1>5, <1>9 DEF ExpandInv, x, last
<1>10. ASSUME E!Recorded(x.id), E!Rank(x.event) > E!Rank(last),
              new = [out |-> acc.out \o Lead(x.id, s) \o <<x>>, reported |-> [acc.reported EXCEPT ![x.id] = x.event]]
       PROVE  ExpandInv(st, list, n, new)
  <2> DEFINE lead == Lead(x.id, s)
             both == acc.out \o lead
  <2>1. /\ s \in Seq(E!Event)
        /\ \A k \in DOMAIN s : E!Rank(last) < E!Rank(s[k]) /\ E!Rank(s[k]) < E!Rank(x.event)
        /\ \A j, k \in DOMAIN s : j < k => E!Rank(s[j]) < E!Rank(s[k])
    BY <1>1, <1>2, StepsBetween DEF s
  <2>2. /\ lead \in Seq(ClientReceipts) /\ Rising(lead)
        /\ \A a : Among(a, lead) => a.id = x.id /\ \E k \in DOMAIN s : a.event = s[k]
    BY <2>1, <1>1, LeadIs
  <2> HIDE DEF lead
  <2>3. \A a : Among(a, lead) => /\ a.id = x.id /\ E!Rank(last) < E!Rank(a.event) /\ E!Rank(a.event) < E!Rank(x.event)
                                 /\ E!Rank(a.event) \in Nat
    <3>1. \A k \in DOMAIN s : E!Rank(s[k]) \in Nat
      BY <2>1, ClientRanks
    <3>2. QED BY <3>1, <2>1, <2>2
  <2>4. both \in Seq(ClientReceipts) /\ \A a : Among(a, both) <=> Among(a, acc.out) \/ Among(a, lead)
    BY <2>2, <1>2, ConcatAmong
  <2>5. \A a : Among(a, acc.out) /\ E!Recorded(a.id) /\ a.id = x.id => E!Rank(a.event) <= E!Rank(last)
    BY DEF ExpandInv, last
  <2>6. Rising(both)
    <3>1. \A a, b : Among(a, acc.out) /\ Among(b, lead) => Below(a, b)
      BY <2>3, <2>5, <1>1, <1>2, <1>3, <1>6 DEF Below, last
    <3>2. QED BY <3>1, <2>2, <1>2, RisingConcat DEF ExpandInv
  <2> HIDE DEF both
  <2>7. new.out = both \o one /\ new.reported = [acc.reported EXCEPT ![x.id] = x.event] /\ new = [out |-> new.out, reported |-> new.reported]
    <3> HIDE DEF new
    <3>1. QED BY <1>10 DEF lead, both, one
  <2> HIDE DEF new
  <2>8. new.out \in Seq(ClientReceipts) /\ \A a : Among(a, new.out) <=> Among(a, acc.out) \/ Among(a, lead) \/ a = x
    BY <2>7, <2>4, <1>7, ConcatAmong
  <2>9. Rising(new.out)
    <3>1. \A a, b : Among(a, both) /\ Among(b, one) => Below(a, b)
      <4> SUFFICES ASSUME NEW a, Among(a, both), E!Recorded(a.id), a.id = x.id PROVE E!Rank(a.event) < E!Rank(x.event)
        BY <1>7 DEF Below
      <4>1. CASE Among(a, acc.out)
        <5>1. E!Rank(a.event) <= E!Rank(last) /\ E!Rank(a.event) \in Nat /\ E!Rank(last) \in Nat
          BY <4>1, <2>5, <1>1, <1>3, <1>6 DEF last
        <5>2. QED BY <5>1, <1>4, <1>10
      <4>2. CASE Among(a, lead)
        BY <4>2, <2>3
      <4>3. QED BY <4>1, <4>2, <2>4
    <3>2. QED BY <3>1, <2>4, <2>6, <2>7, <1>7, RisingConcat
  <2>10. new \in ExpandSet
    <3>1. new.reported \in [E!Ids -> E!Event \cup {"none"}]
      BY <2>7, <1>1, <1>2
    <3>2. QED BY <3>1, <2>7, <2>8 DEF ExpandSet
  <2>11. \A id \in E!Ids : new.reported[id] = IF id = x.id THEN x.event ELSE acc.reported[id]
    BY <2>7, <1>2
  <2>12. \A id \in E!Ids : E!Rank(acc.reported[id]) <= E!Rank(new.reported[id])
    BY <2>11, <1>3, <1>4, <1>10 DEF last
  <2>13. \A id \in E!Ids : E!Rank(new.reported[id]) \in Nat
    BY <2>11, <1>3, <1>4
  <2>14. ASSUME NEW a, Among(a, new.out), E!Recorded(a.id)
         PROVE  E!Rank(st[a.id]) < E!Rank(a.event) /\ E!Rank(a.event) <= E!Rank(new.reported[a.id])
    <3>1. CASE Among(a, acc.out)
      <4>1. E!Rank(st[a.id]) < E!Rank(a.event) /\ E!Rank(a.event) <= E!Rank(acc.reported[a.id]) /\ a.id \in E!Ids /\ E!Rank(a.event) \in Nat
        BY <3>1, <2>14, <1>6 DEF ExpandInv
      <4>2. QED BY <4>1, <2>12, <2>13, <1>3
    <3>2. CASE Among(a, lead) \/ a = x
      <4>1. a.id = x.id /\ E!Rank(last) < E!Rank(a.event) /\ E!Rank(a.event) <= E!Rank(x.event) /\ E!Rank(a.event) \in Nat
        BY <3>2, <2>3, <1>4, <1>10
      <4>2. E!Rank(st[x.id]) <= E!Rank(last) /\ E!Rank(st[x.id]) \in Nat /\ E!Rank(last) \in Nat
        BY <1>1, <1>3 DEF ExpandInv, last
      <4>3. new.reported[x.id] = x.event
        BY <2>11, <1>1
      <4>4. QED BY <4>1, <4>2, <4>3
    <3>3. QED BY <3>1, <3>2, <2>8, <2>14
  <2>15. ASSUME NEW id \in E!Ids
         PROVE  /\ E!Rank(st[id]) <= E!Rank(new.reported[id])
                /\ new.reported[id] = st[id] \/ Among([id |-> id, event |-> new.reported[id]], new.out)
    <3>1. E!Rank(st[id]) <= E!Rank(new.reported[id])
      <4>1. E!Rank(st[id]) <= E!Rank(acc.reported[id])
        BY DEF ExpandInv
      <4>2. QED BY <4>1, <2>12, <2>13, <1>3
    <3>2. CASE id = x.id
      BY <3>1, <3>2, <2>8, <2>11, <1>1
    <3>3. CASE id # x.id
      <4>1. acc.reported[id] = st[id] \/ Among([id |-> id, event |-> acc.reported[id]], acc.out)
        BY DEF ExpandInv
      <4>2. QED BY <4>1, <3>1, <3>3, <2>8, <2>11
    <3>4. QED BY <3>2, <3>3
  <2>16. ASSUME NEW j \in 1 .. n
         PROVE  \/ Among(list[j], new.out)
                \/ E!Recorded(list[j].id) /\ E!Rank(list[j].event) <= E!Rank(new.reported[list[j].id])
    <3>1. CASE j = n
      BY <3>1, <2>8 DEF x
    <3>2. CASE j \in 1 .. n - 1
      <4>1. \/ Among(list[j], acc.out)
            \/ E!Recorded(list[j].id) /\ E!Rank(list[j].event) <= E!Rank(acc.reported[list[j].id])
        BY <3>2 DEF ExpandInv
      <4>2. list[j] \in ClientReceipts
        OBVIOUS
      <4>3. list[j].id \in E!Ids /\ E!Rank(list[j].event) \in Nat
        BY <4>2, ClientRanks DEF ClientReceipts
      <4>4. QED BY <4>1, <4>3, <2>8, <2>12, <2>13, <1>3
    <3>3. QED BY <3>1, <3>2, <1>5
  <2>17. QED BY <2>9, <2>10, <2>14, <2>15, <2>16 DEF ExpandInv
<1>11. QED
  <2> HIDE DEF new
  <2>1. \/ ~E!Recorded(x.id) /\ new = [acc EXCEPT !.out = Append(@, x)]
        \/ E!Recorded(x.id) /\ E!Rank(x.event) <= E!Rank(last) /\ new = acc
        \/ /\ E!Recorded(x.id) /\ E!Rank(x.event) > E!Rank(last)
           /\ new = [out |-> acc.out \o Lead(x.id, s) \o <<x>>, reported |-> [acc.reported EXCEPT ![x.id] = x.event]]
    BY <1>1, <1>2, ExpandCases DEF new, last, s, Lead
  <2>2. ExpandInv(st, list, n, new)
    BY <2>1, <1>8, <1>9, <1>10
  <2>3. QED BY <2>2 DEF new, x

LEMMA ExpandedIs ==
  ASSUME status \in [E!Ids -> E!Event \cup {"none"}], NEW list \in Seq(ClientReceipts)
  PROVE  \A n \in 0 .. Len(list) : ExpandInv(status, list, n, E!Expanded(list)[n])
<1> DEFINE N == Len(list)
           S == {acc \in ExpandSet : \E n \in 0 .. N : ExpandInv(status, list, n, acc)}
           R == [out |-> <<>>, reported |-> status]
           Next_(n, acc) == IF ExpandInv(status, list, n - 1, acc) THEN E!Expand(acc, list[n]) ELSE R
           step == [x \in (1 .. N) \X S |-> Next_(x[1], x[2])]
           Follows(f) == f = [n \in 0 .. N |-> IF n = 0 THEN R ELSE E!Expand(f[n - 1], list[n])]
<1>1. N \in Nat /\ DOMAIN list = 1 .. N /\ 0 \in 0 .. N /\ \A n \in 1 .. N : n \in 0 .. N /\ n - 1 \in 0 .. N /\ n # 0
  OBVIOUS
<1>2. ExpandInv(status, list, 0, R)
  <2>1. <<>> \in Seq(ClientReceipts) /\ Rising(<<>>) /\ \A a : ~Among(a, <<>>)
    BY DEF Rising, Among
  <2>2. \A id \in E!Ids : E!Rank(status[id]) \in Nat
    <3>1. \A e \in E!Event \cup {"none"} : E!Rank(e) \in Nat
      BY ClientRanks
    <3>2. QED BY <3>1
  <2>3. R \in ExpandSet
    BY <2>1 DEF ExpandSet
  <2>4. \A id \in E!Ids : E!Rank(status[id]) <= E!Rank(status[id])
    BY <2>2
  <2>5. R.out = <<>> /\ R.reported = status
    OBVIOUS
  <2> HIDE DEF R
  <2>6. Rising(R.out) /\ \A a : ~Among(a, R.out)
    BY <2>1, <2>5
  <2>7. \A j \in 1 .. 0 : FALSE
    OBVIOUS
  <2>8. \A id \in E!Ids :
          /\ E!Rank(status[id]) <= E!Rank(R.reported[id])
          /\ R.reported[id] = status[id] \/ Among([id |-> id, event |-> R.reported[id]], R.out)
    BY <2>4, <2>5
  <2>9. \A j \in 1 .. 0 :
          \/ Among(list[j], R.out)
          \/ E!Recorded(list[j].id) /\ E!Rank(list[j].event) <= E!Rank(R.reported[list[j].id])
    BY <2>7
  <2>10. QED BY <2>3, <2>6, <2>8, <2>9 DEF ExpandInv
<1>3. \A acc : \A n \in 1 .. N : ExpandInv(status, list, n - 1, acc) => ExpandInv(status, list, n, E!Expand(acc, list[n]))
  BY ExpandStays
<1>4. R \in S
  BY <1>1, <1>2 DEF ExpandInv
<1> HIDE DEF R
<1>5. ASSUME NEW n \in 1 .. N, NEW acc PROVE Next_(n, acc) \in S
  <2>1. CASE ExpandInv(status, list, n - 1, acc)
    <3>1. ExpandInv(status, list, n, E!Expand(acc, list[n]))
      BY <2>1, <1>3
    <3>2. QED BY <3>1, <2>1, <1>1 DEF ExpandInv
  <2>2. CASE ~ExpandInv(status, list, n - 1, acc)
    BY <2>2, <1>4
  <2>3. QED BY <2>1, <2>2
<1> HIDE DEF S, Next_
<1>6. step \in [(1 .. N) \X S -> S]
  BY <1>5
<1>7. \E f \in [0 .. N -> S] : f[0] = R /\ \A n \in 1 .. N : f[n] = step[<<n, f[n - 1]>>]
  <2>1. N \in Nat
    BY <1>1
  <2> HIDE DEF N, step
  <2>2. Runs(S, R, N, step) # {}
    BY <2>1, <1>4, <1>6, StepsAreTaken
  <2>3. QED BY <2>2 DEF Runs
<1>8. PICK f \in [0 .. N -> S] : f[0] = R /\ \A n \in 1 .. N : f[n] = step[<<n, f[n - 1]>>]
  BY <1>7
<1>9. ASSUME NEW n \in 1 .. N PROVE f[n] = Next_(n, f[n - 1])
  <2>1. <<n, f[n - 1]>> \in (1 .. N) \X S
    <3>1. n - 1 \in 0 .. N
      BY <1>1
    <3> HIDE DEF N
    <3>2. QED BY <3>1
  <2>2. step[<<n, f[n - 1]>>] = Next_(n, f[n - 1])
    <3> HIDE DEF N
    <3>1. QED BY <2>1
  <2>3. QED BY <2>2, <1>8
<1> HIDE DEF step
<1>10. \A n \in 0 .. N : ExpandInv(status, list, n, f[n])
  <2> DEFINE P == {n \in Nat : n <= N => ExpandInv(status, list, n, f[n])}
  <2>1. 0 \in P
    BY <1>2, <1>8
  <2>2. ASSUME NEW n \in P PROVE n + 1 \in P
    <3> SUFFICES ASSUME n + 1 <= N PROVE ExpandInv(status, list, n + 1, f[n + 1])
      OBVIOUS
    <3>1. n \in Nat /\ n + 1 \in 1 .. N /\ (n + 1) - 1 = n /\ ExpandInv(status, list, n, f[n])
      BY <1>1
    <3>2. f[n + 1] = E!Expand(f[n], list[n + 1])
      BY <3>1, <1>9 DEF Next_
    <3>3. QED BY <3>1, <3>2, <1>3
  <2>3. P = Nat
    <3>1. P \in SUBSET Nat
      OBVIOUS
    <3> HIDE DEF P
    <3>2. QED BY <2>1, <2>2, <3>1, SetInduction
  <2>4. \A n \in 0 .. N : n \in P /\ n <= N
    BY <1>1, <2>3
  <2>5. QED BY <2>4
<1>11. \A n \in 1 .. N : f[n] = E!Expand(f[n - 1], list[n])
  BY <1>1, <1>9, <1>10 DEF Next_
<1>12. Follows(f)
  <2>1. \A n \in 0 .. N : n = 0 \/ n \in 1 .. N
    BY <1>1
  <2>2. \A n \in 0 .. N : f[n] = IF n = 0 THEN R ELSE E!Expand(f[n - 1], list[n])
    BY <1>8, <1>11, <2>1
  <2> HIDE DEF N
  <2>3. f = [n \in 0 .. N |-> f[n]]
    OBVIOUS
  <2>4. QED BY <2>2, <2>3
<1>13. Follows(E!Expanded(list))
  <2>1. E!Expanded(list) = CHOOSE g : g = [n \in 0 .. N |-> IF n = 0 THEN R ELSE E!Expand(g[n - 1], list[n])]
    BY Zenon DEF E!Expanded, R
  <2>2. QED BY <1>12, <2>1, Zenon
<1> DEFINE g == E!Expanded(list)
<1>14. \A n \in 0 .. N : g[n] = IF n = 0 THEN R ELSE E!Expand(g[n - 1], list[n])
  <2> HIDE DEF g, N
  <2>1. QED BY <1>13 DEF g
<1> HIDE DEF g
<1>15. \A n \in 0 .. N : g[n] = f[n]
  <2> DEFINE P == {n \in Nat : n <= N => g[n] = f[n]}
  <2>1. 0 \in P
    BY <1>1, <1>8, <1>14
  <2>2. ASSUME NEW n \in P PROVE n + 1 \in P
    <3> SUFFICES ASSUME n + 1 <= N PROVE g[n + 1] = f[n + 1]
      OBVIOUS
    <3>1. n \in Nat /\ n + 1 \in 1 .. N /\ n + 1 \in 0 .. N /\ n + 1 # 0 /\ (n + 1) - 1 = n /\ g[n] = f[n]
      BY <1>1
    <3>2. QED BY <3>1, <1>11, <1>14
  <2>3. P = Nat
    <3>1. P \in SUBSET Nat
      OBVIOUS
    <3> HIDE DEF P
    <3>2. QED BY <2>1, <2>2, <3>1, SetInduction
  <2>4. \A n \in 0 .. N : n \in P /\ n <= N
    BY <1>1, <2>3
  <2>5. QED BY <2>4
<1>16. QED BY <1>10, <1>15 DEF g

\* What the reconciliation lets out goes beyond what was recorded, rises for each message, and
\* of every receipt it lets out the event, or one as far along was recorded or goes out.
LEMMA ReconciledIs ==
  ASSUME status \in [E!Ids -> E!Event \cup {"none"}], NEW receipts \in Seq(ClientReceipts)
  PROVE  LET out == E!Reconciled(receipts)
         IN  /\ out \in Seq(ClientReceipts)
             /\ Rising(out)
             /\ \A a : Among(a, out) /\ E!Recorded(a.id) => E!Rank(status[a.id]) < E!Rank(a.event)
             /\ \A k \in DOMAIN receipts :
                  \/ Among(receipts[k], out)
                  \/ \E f \in E!Event : /\ E!Rank(f) >= E!Rank(receipts[k].event)
                                        /\ status[receipts[k].id] = f \/ Among([id |-> receipts[k].id, event |-> f], out)
<1> DEFINE list == E!Ordered(receipts)
           acc == E!Expanded(list)[Len(list)]
<1>1. list \in Seq(ClientReceipts) /\ \A k \in DOMAIN receipts : Among(receipts[k], list)
  BY OrderedIs
<1>2. Len(list) \in Nat /\ DOMAIN list = 1 .. Len(list) /\ Len(list) \in 0 .. Len(list)
  BY <1>1
<1>3. ExpandInv(status, list, Len(list), acc)
  <2> HIDE DEF list
  <2>1. QED BY <1>1, <1>2, ExpandedIs
<1>4. E!Reconciled(receipts) = acc.out
  BY DEF E!Reconciled
<1> HIDE DEF acc, list
<1>5. acc.out \in Seq(ClientReceipts) /\ acc.reported \in [E!Ids -> E!Event \cup {"none"}]
  BY <1>3 DEF ExpandInv, ExpandSet
<1>6. ASSUME NEW k \in DOMAIN receipts, ~Among(receipts[k], acc.out)
      PROVE  \E f \in E!Event : /\ E!Rank(f) >= E!Rank(receipts[k].event)
                                /\ status[receipts[k].id] = f \/ Among([id |-> receipts[k].id, event |-> f], acc.out)
  <2>1. PICK j \in 1 .. Len(list) : list[j] = receipts[k]
    BY <1>1, <1>2 DEF Among
  <2> DEFINE id == receipts[k].id
             f == acc.reported[id]
  <2>2. receipts[k] \in ClientReceipts
    OBVIOUS
  <2>3. id \in E!Ids /\ receipts[k].event \in E!Event
    BY <2>2 DEF ClientReceipts
  <2>4. E!Rank(receipts[k].event) <= E!Rank(f)
    BY <2>1, <1>3, <1>6 DEF ExpandInv
  <2>5. f = status[id] \/ Among([id |-> id, event |-> f], acc.out)
    BY <2>3, <1>3 DEF ExpandInv
  <2>6. f \in E!Event
    <3>1. E!Rank(receipts[k].event) \in 2 .. 4
      BY <2>3, ClientRanks
    <3>2. f # "none"
      BY <3>1, <2>4, ClientRanks
    <3>3. QED BY <3>2, <2>3, <1>5
  <2>7. E!Rank(f) \in Nat /\ E!Rank(receipts[k].event) \in Nat
    BY <2>3, <2>6, ClientRanks
  <2>8. QED BY <2>4, <2>5, <2>6, <2>7
<1>7. QED BY <1>3, <1>4, <1>5, <1>6 DEF ExpandInv

-----------------------------------------------------------------------------
(* A client's calls.                                                         *)

\* What will be said of event e of a call that is under way.
Foretold(call, tld, e, r) ==
  LET x == E!ReceiptOf(e) IN
    /\ r # "rejected"
    /\ r = "forwarded" => x \in call.sent
    /\ r = "already_reported" =>
         /\ x \in ClientReceipts
         /\ \E f \in E!Event : /\ E!Rank(f) >= E!Rank(x.event)
                               /\ tld[<<x.id, f>>] > 0 \/ x.id \in call.refused \/ [id |-> x.id, event |-> f] \in call.sent

\* What was said of it.
True200(call, tld, del, e, r) ==
  LET x == E!ReceiptOf(e) IN
    /\ r = "forwarded" => x \in ClientReceipts /\ tld[<<x.id, x.event>>] > 0
    /\ r = "rejected" => x.id \in del
    /\ r = "already_reported" =>
         /\ x \in ClientReceipts
         /\ \E f \in E!Event : E!Rank(f) >= E!Rank(x.event) /\ (tld[<<x.id, f>>] > 0 \/ x.id \in call.refused)

CallFields == {"pc", "body", "receipts", "todo", "sent", "refused", "results", "accepted", "last", "answer"}

\* A call gives what it was asked, sends what it has still to send, and has told what it says it told.
CallOK(call, tld, del) ==
  /\ DOMAIN call = CallFields
  /\ call.pc \in {"idle", "reconcile", "forward", "record", "answered"}
  /\ call.answer = 200 => call.pc = "answered"
  /\ call.todo \in Seq(ClientReceipts) /\ call.accepted \subseteq ClientReceipts /\ call.refused \subseteq del
  /\ call.pc # "idle" => call.body \in Bodies
  /\ call.pc = "reconcile" => /\ call.receipts = E!ReceiptsOf(call.body)
                              /\ call.results = [k \in DOMAIN call.body |-> E!Resolve(call.body[k])]
  /\ call.pc \in {"idle", "reconcile", "forward"} => ~call.last
  /\ call.pc = "record" => \A x \in call.accepted : tld[<<x.id, x.event>>] > 0
  /\ call.pc \in {"forward", "record"} =>
       /\ call.sent \subseteq ClientReceipts
       /\ ~call.last => \A x \in call.sent : tld[<<x.id, x.event>>] > 0 \/ x.id \in call.refused \/ Among(x, call.todo)
       /\ \A k \in DOMAIN call.body : Foretold(call, tld, call.body[k], call.results[k])
  /\ call.answer = 200 => \A k \in DOMAIN call.body : True200(call, tld, del, call.body[k], call.results[k])

\* What is still to be sent of message i goes beyond what was recorded, and beyond what is about to be.
RisingOf(list, i) ==
  \A j, k \in DOMAIN list : j < k /\ list[j].id = i /\ list[k].id = i => E!Rank(list[j].event) < E!Rank(list[k].event)
Ahead(call, st, i) ==
  call.pc \in {"forward", "record"} =>
    /\ RisingOf(call.todo, i)
    /\ \A k \in DOMAIN call.todo : call.todo[k].id = i =>
         /\ E!Rank(st[i]) < E!Rank(call.todo[k].event)
         /\ call.pc = "record" =>
              \A x \in call.accepted : x.id = i => E!Rank(x.event) < E!Rank(call.todo[k].event)

Busy(call) == call.pc \notin {"idle", "answered"}

ClientType ==
  /\ status \in [E!Ids -> E!Event \cup {"none"}] /\ deleted \subseteq E!Ids
  /\ told \in [E!Ids \X E!Event -> Nat] /\ elsewhere \in Nat
  /\ calls = [c \in Callers |-> calls[c]]

StatusTold == \A id \in E!Ids : status[id] \in E!Event => told[<<id, status[id]>>] > 0

\* Of a message with clear answers every event was told once, and is recorded or about to be.
Alone(i) ==
  /\ \A c, d \in Callers : Busy(calls[c]) /\ Busy(calls[d]) => c = d
  /\ \A e \in E!Event :
       /\ told[<<i, e>>] <= 1
       /\ told[<<i, e>>] > 0 =>
            \/ E!Rank(e) <= E!Rank(status[i])
            \/ \E c \in Callers : calls[c].pc = "record" /\ [id |-> i, event |-> e] \in calls[c].accepted
  /\ \A c \in Callers : Ahead(calls[c], status, i)

AloneInv == \A m \in Sent : m.id \notin muddled => Alone(m.id)

ClientInv == ClientType /\ StatusTold /\ (\A c \in Callers : CallOK(calls[c], told, deleted)) /\ AloneInv

\* A forwarded event is a receipt.
LEMMA ResolveIs ==
  ASSUME NEW e
  PROVE  /\ E!Resolve(e) \in {"invalid", "not_found", "ambiguous", "forwarded"}
         /\ E!Resolve(e) = "forwarded" => E!ReceiptOf(e) \in ClientReceipts
<1>1. \/ E!Invalid(e) /\ E!Resolve(e) = "invalid"
      \/ ~E!Invalid(e) /\ E!Named(e) = {} /\ E!Resolve(e) = "not_found"
      \/ ~E!Invalid(e) /\ E!Named(e) # {} /\ E!Resolve(e) \in {"ambiguous", "forwarded"}
  <2>1. CASE E!Invalid(e)
    BY <2>1, Zenon DEF E!Resolve
  <2>2. CASE ~E!Invalid(e) /\ E!Named(e) = {}
    <3>1. ~(E!Cardinality(E!Named(e)) > 1)
      BY <2>2, ClientSets, FS_EmptySet
    <3>2. QED BY <2>2, <3>1, Zenon DEF E!Resolve
  <2>3. CASE ~E!Invalid(e) /\ E!Named(e) # {}
    <3>1. CASE E!Cardinality(E!Named(e)) > 1
      BY <2>3, <3>1, Zenon DEF E!Resolve
    <3>2. CASE ~(E!Cardinality(E!Named(e)) > 1)
      BY <2>3, <3>2, Zenon DEF E!Resolve
    <3>3. QED BY <3>1, <3>2
  <2>4. QED BY <2>1, <2>2, <2>3
<1>2. ASSUME E!Resolve(e) = "forwarded" PROVE E!ReceiptOf(e) \in ClientReceipts
  <2>1. ~E!Invalid(e) /\ E!Named(e) # {}
    BY <1>1, <1>2
  <2>2. E!Type(e.event) \in E!Event
    <3>1. E!Type(e.event) # "invalid"
      BY <2>1 DEF E!Invalid
    <3>2. CASE e.event \in E!Event
      BY <3>2, Zenon DEF E!Type
    <3>3. CASE e.event \notin E!Event /\ e.event = "seen"
      <4>1. E!Type(e.event) = "read"
        BY <3>3, Zenon DEF E!Type
      <4>2. QED BY <4>1 DEF E!Event
    <3>4. CASE e.event \notin E!Event /\ e.event # "seen" /\ e.event = "failed"
      <4>1. E!Type(e.event) = "bounced"
        BY <3>4, Zenon DEF E!Type
      <4>2. QED BY <4>1 DEF E!Event
    <3>5. CASE e.event \notin E!Event /\ e.event # "seen" /\ e.event # "failed"
      <4>1. E!Type(e.event) = "invalid"
        BY <3>5, Zenon DEF E!Type
      <4>2. QED BY <3>1, <4>1
    <3>6. QED BY <3>2, <3>3, <3>4, <3>5
  <2>3. E!Named(e) \subseteq E!Ids
    <3>1. CASE e.id # "none"
      <4>1. E!Named(e) = {s.id : s \in {m \in Sent : m.id = e.id /\ e.user \in {"any", m.user}}}
        BY <3>1, Zenon DEF E!Named
      <4>2. QED BY <4>1 DEF E!Ids
    <3>2. CASE e.id = "none"
      <4>1. E!Named(e) = {ref.id : ref \in {ref \in Refs : E!Matches(e, ref)}}
        BY <3>2, Zenon DEF E!Named
      <4>2. QED BY <4>1 DEF E!Ids
    <3>3. QED BY <3>1, <3>2
  <2> DEFINE id == CHOOSE i \in E!Named(e) : TRUE
  <2>4. id \in E!Named(e)
    BY <2>1
  <2>5. E!ReceiptOf(e) = [id |-> id, event |-> E!Type(e.event)]
    BY DEF E!ReceiptOf
  <2> HIDE DEF id
  <2>6. QED BY <2>2, <2>3, <2>4, <2>5 DEF ClientReceipts
<1>3. QED BY <1>1, <1>2

LEMMA ReceiptsOfIs ==
  ASSUME FlowsAssumption, NEW body \in Bodies
  PROVE  /\ E!ReceiptsOf(body) \in Seq(ClientReceipts)
         /\ \A k \in DOMAIN body : E!Resolve(body[k]) = "forwarded" => Among(E!ReceiptOf(body[k]), E!ReceiptsOf(body))
<1> DEFINE T == {body[k] : k \in DOMAIN body}
           S == {k \in DOMAIN body : E!Resolve(body[k]) = "forwarded"}
           found_ == E!At(body, S)
           receipts == [k \in DOMAIN found_ |-> E!ReceiptOf(found_[k])]
<1>1. body \in Seq(T)
  BY DEF FlowsAssumption, E!ClientEventsAssumption
<1>2. /\ found_ \in Seq(T)
      /\ \A k \in S : Among(body[k], found_)
      /\ \A n \in DOMAIN found_ : \E k \in S : found_[n] = body[k]
  <2>1. S \in SUBSET (DOMAIN body)
    OBVIOUS
  <2> HIDE DEF T, S
  <2>2. QED BY <1>1, <2>1, PartOfList
<1>3. E!ReceiptsOf(body) = receipts
  BY DEF E!ReceiptsOf
<1>4. DOMAIN found_ = 1 .. Len(found_) /\ Len(found_) \in Nat
  <2> HIDE DEF T, found_
  <2>1. QED BY <1>2
<1>5. \A n \in DOMAIN found_ : E!ReceiptOf(found_[n]) \in ClientReceipts
  <2> HIDE DEF found_
  <2>1. \A k \in S : E!ReceiptOf(body[k]) \in ClientReceipts
    BY ResolveIs
  <2>2. QED BY <1>2, <2>1
<1> HIDE DEF found_
<1>6. receipts \in [1 .. Len(found_) -> ClientReceipts]
  BY <1>4, <1>5
<1>7. ASSUME NEW k \in S PROVE Among(E!ReceiptOf(body[k]), receipts)
  <2>1. PICK n \in DOMAIN found_ : found_[n] = body[k]
    BY <1>2 DEF Among
  <2>2. receipts[n] = E!ReceiptOf(body[k]) /\ n \in DOMAIN receipts
    BY <2>1
  <2> HIDE DEF receipts
  <2>3. QED BY <2>2 DEF Among
<1> HIDE DEF receipts
<1>8. receipts \in Seq(ClientReceipts)
  BY <1>4, <1>6
<1>9. QED BY <1>3, <1>7, <1>8

\* A call stays true as more is told and deleted.
LEMMA CallGrows ==
  ASSUME NEW call, NEW tld, NEW tld2, NEW del, NEW del2, CallOK(call, tld, del), del \subseteq del2,
         \A i \in E!Ids, e \in E!Event : tld[<<i, e>>] > 0 => tld2[<<i, e>>] > 0
  PROVE  CallOK(call, tld2, del2)
<1>1. \A x \in ClientReceipts : x.id \in E!Ids /\ x.event \in E!Event /\ (tld[<<x.id, x.event>>] > 0 => tld2[<<x.id, x.event>>] > 0)
  BY DEF ClientReceipts
<1>2. ASSUME NEW e, NEW r, Foretold(call, tld, e, r) PROVE Foretold(call, tld2, e, r)
  BY <1>1, <1>2 DEF Foretold
<1>3. ASSUME NEW e, NEW r, True200(call, tld, del, e, r) PROVE True200(call, tld2, del2, e, r)
  BY <1>1, <1>3 DEF True200
<1>4. call.pc = "record" => \A x \in call.accepted : tld2[<<x.id, x.event>>] > 0
  BY <1>1 DEF CallOK
<1>5. call.pc \in {"forward", "record"} /\ ~call.last =>
        \A x \in call.sent : tld2[<<x.id, x.event>>] > 0 \/ x.id \in call.refused \/ Among(x, call.todo)
  BY <1>1 DEF CallOK
<1>6. QED BY <1>2, <1>3, <1>4, <1>5 DEF CallOK

\* An action on one call.
LEMMA ClientMoves ==
  ASSUME ClientType, NEW c \in Callers, NEW new, calls' = [calls EXCEPT ![c] = new]
  PROVE  /\ calls' = [d \in Callers |-> calls'[d]] /\ calls'[c] = new
         /\ \A d \in Callers : d # c => calls'[d] = calls[d]
BY DEF ClientType

LEMMA OtherCalls ==
  ASSUME ClientInv, NEW c \in Callers, NEW new, calls' = [calls EXCEPT ![c] = new], deleted \subseteq deleted',
         \A i \in E!Ids, e \in E!Event : told[<<i, e>>] > 0 => told'[<<i, e>>] > 0,
         CallOK(new, told', deleted')
  PROVE  \A d \in Callers : CallOK(calls'[d], told', deleted')
<1>1. calls'[c] = new /\ \A d \in Callers : d # c => calls'[d] = calls[d]
  BY ClientMoves DEF ClientInv
<1>2. \A d \in Callers : CallOK(calls[d], told', deleted')
  BY CallGrows DEF ClientInv
<1>3. QED BY <1>1, <1>2

LEMMA ClientStart == E!Init => ClientInv
<1> SUFFICES ASSUME E!Init PROVE ClientInv
  OBVIOUS
<1>1. /\ status = [id \in E!Ids |-> "none"] /\ deleted = {} /\ told = [x \in E!Ids \X E!Event |-> 0]
      /\ calls = [c \in Callers |-> E!Idle] /\ elsewhere = 0 /\ muddled = {}
  BY DEF E!Init
<1> DEFINE idle == E!Idle
<1>2. /\ DOMAIN idle = CallFields /\ idle.pc = "idle" /\ idle.answer = 0 /\ idle.todo = <<>> /\ idle.accepted = {}
      /\ idle.refused = {} /\ idle.last = FALSE
  BY DEF E!Idle, CallFields
<1> HIDE DEF idle
<1>3. \A c \in Callers : calls[c] = idle
  BY <1>1 DEF idle
<1>4. ClientType
  BY <1>1 DEF ClientType
<1>5. \A id \in E!Ids : status[id] = "none" /\ \A e \in E!Event : told[<<id, e>>] = 0
  BY <1>1
<1>6. StatusTold
  BY <1>5, ClientRanks DEF StatusTold
<1>7. CallOK(idle, told, deleted)
  BY <1>1, <1>2 DEF CallOK
<1>8. AloneInv
  <2>1. \A m \in Sent : m.id \in E!Ids
    BY DEF E!Ids
  <2>2. \A c \in Callers : ~Busy(calls[c]) /\ \A i : Ahead(calls[c], status, i)
    BY <1>2, <1>3 DEF Ahead, Busy
  <2>3. QED BY <1>5, <2>1, <2>2 DEF AloneInv, Alone
<1>9. QED BY <1>3, <1>4, <1>6, <1>7, <1>8 DEF ClientInv

\* A new call is to be reconciled, or refused.
LEMMA NewCall ==
  ASSUME FlowsAssumption, NEW body \in Bodies, NEW tld, NEW del
  PROVE  LET refused == [E!Idle EXCEPT !.pc = "answered", !.body = body, !.answer = 400]
             taken == [E!Idle EXCEPT !.pc = "reconcile", !.body = body, !.receipts = E!ReceiptsOf(body),
                                     !.results = [k \in DOMAIN body |-> E!Resolve(body[k])]]
         IN CallOK(refused, tld, del) /\ refused.pc = "answered" /\ CallOK(taken, tld, del) /\ taken.pc = "reconcile"
<1> DEFINE refused == [E!Idle EXCEPT !.pc = "answered", !.body = body, !.answer = 400]
           results == [k \in DOMAIN body |-> E!Resolve(body[k])]
           receipts == E!ReceiptsOf(body)
           taken == [E!Idle EXCEPT !.pc = "reconcile", !.body = body, !.receipts = receipts, !.results = results]
<1>1. CallOK(refused, tld, del) /\ refused.pc = "answered"
  <2>1. /\ DOMAIN refused = CallFields /\ refused.pc = "answered" /\ refused.answer = 400 /\ refused.todo = <<>>
        /\ refused.accepted = {} /\ refused.refused = {} /\ refused.last = FALSE /\ refused.body = body
    BY DEF E!Idle, CallFields
  <2> HIDE DEF refused
  <2>2. QED BY <2>1 DEF CallOK
<1>2. CallOK(taken, tld, del) /\ taken.pc = "reconcile"
  <2> HIDE DEF results, receipts
  <2>1. /\ DOMAIN taken = CallFields /\ taken.pc = "reconcile" /\ taken.answer = 0 /\ taken.todo = <<>>
        /\ taken.accepted = {} /\ taken.refused = {} /\ taken.last = FALSE /\ taken.body = body
        /\ taken.receipts = receipts /\ taken.results = results
    BY DEF E!Idle, CallFields
  <2> HIDE DEF taken
  <2>2. QED BY <2>1 DEF CallOK, results, receipts
<1>3. QED BY <1>1, <1>2

LEMMA ClientReceive ==
  ASSUME FlowsAssumption, ClientInv, NEW c \in Callers, NEW body \in Bodies, E!Receive(c, body)
  PROVE  ClientInv'
<1> DEFINE refused == [E!Idle EXCEPT !.pc = "answered", !.body = body, !.answer = 400]
           taken == [E!Idle EXCEPT !.pc = "reconcile", !.body = body, !.receipts = E!ReceiptsOf(body),
                                   !.results = [k \in DOMAIN body |-> E!Resolve(body[k])]]
           new == IF body = <<>> \/ Len(body) > MaxEvents THEN refused ELSE taken
<1>1. calls' = [calls EXCEPT ![c] = new]
  BY DEF E!Receive, E!Update
<1>2. /\ muddled' = IF E!UnderWay = {} THEN muddled ELSE E!Ids
      /\ UNCHANGED <<status, deleted, told, elsewhere>>
  BY DEF E!Receive
<1>3. CallOK(new, told', deleted') /\ new.pc \in {"answered", "reconcile"}
  BY NewCall
<1> HIDE DEF new
<1>4. calls' = [d \in Callers |-> calls'[d]] /\ calls'[c] = new /\ \A d \in Callers : d # c => calls'[d] = calls[d]
  BY <1>1, ClientMoves DEF ClientInv
<1>5. \A d \in Callers : CallOK(calls'[d], told', deleted')
  BY <1>1, <1>2, <1>3, OtherCalls
<1>6. ClientType'
  BY <1>2, <1>4 DEF ClientInv, ClientType
<1>7. StatusTold'
  BY <1>2 DEF ClientInv, StatusTold
<1>8. AloneInv'
  <2> SUFFICES ASSUME NEW m \in Sent, m.id \notin muddled' PROVE Alone(m.id)'
    BY DEF AloneInv
  <2>1. m.id \notin muddled /\ \A d \in Callers : ~Busy(calls[d])
    <3>1. m.id \in E!Ids
      BY DEF E!Ids
    <3>2. E!UnderWay = {} /\ muddled' = muddled
      BY <1>2, <3>1
    <3>3. QED BY <3>2 DEF E!UnderWay, Busy
  <2>2. Alone(m.id)
    BY <2>1 DEF ClientInv, AloneInv
  <2>3. \A d \in Callers : calls[d].pc # "record" /\ calls[d].pc # "forward"
    BY <2>1 DEF Busy
  <2>4. \A d \in Callers : d # c => ~Busy(calls'[d])
    BY <2>1, <1>4
  <2>5. \A d \in Callers : calls'[d].pc \notin {"forward", "record"}
    BY <2>3, <1>3, <1>4
  <2>6. QED BY <1>2, <2>1, <2>2, <2>3, <2>4, <2>5 DEF Alone, Ahead
<1>9. QED BY <1>5, <1>6, <1>7, <1>8 DEF ClientInv

LEMMA ClientDelete ==
  ASSUME ClientInv, NEW id \in E!Ids, E!Delete(id)
  PROVE  ClientInv'
<1>1. deleted' = deleted \cup {id} /\ elsewhere' = elsewhere + 1 /\ UNCHANGED <<status, told, calls, muddled>>
  BY DEF E!Delete
<1>2. \A d \in Callers : CallOK(calls'[d], told', deleted')
  BY <1>1, CallGrows DEF ClientInv
<1>3. ClientType' /\ StatusTold' /\ AloneInv'
  BY <1>1 DEF ClientInv, ClientType, StatusTold, AloneInv, Alone
<1>4. QED BY <1>2, <1>3 DEF ClientInv

LEMMA ClientElsewhere ==
  ASSUME ClientInv, NEW m \in Sent, NEW e \in E!Event, E!Elsewhere(m, e)
  PROVE  ClientInv'
<1> DEFINE steps == E!Steps(status[m.id], e)
           Covers(x) == x[1] = m.id /\ (x[2] = e \/ \E k \in DOMAIN steps : steps[k] = x[2])
<1>1. /\ elsewhere' = elsewhere + 1 /\ status' = [status EXCEPT ![m.id] = e] /\ UNCHANGED <<deleted, calls>>
      /\ told' = [x \in DOMAIN told |-> IF Covers(x) THEN told[x] + 1 ELSE told[x]]
      /\ muddled' = muddled \cup (IF E!UnderWay = {} THEN {} ELSE {m.id})
      /\ E!Rank(e) > E!Rank(status[m.id])
  BY DEF E!Elsewhere
<1> HIDE DEF steps
<1>2. Covers(<<m.id, e>>) /\ \A i, f : Covers(<<i, f>>) => i = m.id /\ (f = e \/ \E k \in DOMAIN steps : steps[k] = f)
  OBVIOUS
<1> HIDE DEF Covers
<1>3. m.id \in E!Ids
  BY DEF E!Ids
<1>4. told \in [E!Ids \X E!Event -> Nat] /\ DOMAIN told = E!Ids \X E!Event
  BY DEF ClientInv, ClientType
<1>5. told' \in [E!Ids \X E!Event -> Nat]
  <2>1. \A x \in DOMAIN told : told[x] \in Nat /\ told[x] + 1 \in Nat
    BY <1>4
  <2>2. \A x \in DOMAIN told : (IF Covers(x) THEN told[x] + 1 ELSE told[x]) \in Nat
    BY <2>1
  <2>3. QED BY <2>2, <1>1, <1>4
<1>6. \A i \in E!Ids, f \in E!Event : told[<<i, f>>] > 0 => told'[<<i, f>>] > 0
  <2> SUFFICES ASSUME NEW i \in E!Ids, NEW f \in E!Event, told[<<i, f>>] > 0 PROVE told'[<<i, f>>] > 0
    OBVIOUS
  <2>1. <<i, f>> \in DOMAIN told /\ told[<<i, f>>] \in Nat
    BY <1>4
  <2>2. QED BY <2>1, <1>1
<1>7. told'[<<m.id, e>>] > 0
  <2>1. <<m.id, e>> \in DOMAIN told /\ told[<<m.id, e>>] \in Nat
    BY <1>3, <1>4
  <2>2. QED BY <2>1, <1>1, <1>2
<1>8. \A d \in Callers : CallOK(calls'[d], told', deleted')
  BY <1>1, <1>6, CallGrows DEF ClientInv
<1>9. ClientType'
  BY <1>1, <1>3, <1>5 DEF ClientInv, ClientType
<1>10. StatusTold'
  BY <1>1, <1>3, <1>6, <1>7 DEF ClientInv, ClientType, StatusTold
<1>11. AloneInv'
  <2> SUFFICES ASSUME NEW a \in Sent, a.id \notin muddled' PROVE Alone(a.id)'
    BY DEF AloneInv
  <2>1. Alone(a.id) /\ a.id \in E!Ids
    BY <1>1 DEF ClientInv, AloneInv, E!Ids
  <2>2. CASE a.id # m.id
    <3>1. status'[a.id] = status[a.id]
      BY <2>1, <2>2, <1>1 DEF ClientInv, ClientType
    <3>2. \A f \in E!Event : told'[<<a.id, f>>] = told[<<a.id, f>>]
      BY <2>1, <2>2, <1>1, <1>2, <1>4
    <3>3. QED BY <2>1, <3>1, <3>2, <1>1 DEF Alone, Ahead
  <2>3. CASE a.id = m.id
    <3>1. \A d \in Callers : ~Busy(calls[d])
      BY <2>3, <1>1 DEF E!UnderWay, Busy
    <3>2. status'[m.id] = e /\ status[m.id] \in E!Event \cup {"none"}
      BY <1>1, <1>3 DEF ClientInv, ClientType
    <3>3. \A f \in E!Event \cup {"none"} : E!Rank(f) \in Nat
      BY ClientRanks
    <3>4. ASSUME NEW f \in E!Event
          PROVE  told'[<<m.id, f>>] <= 1 /\ (told'[<<m.id, f>>] > 0 => E!Rank(f) <= E!Rank(e))
      <4>1. told[<<m.id, f>>] <= 1 /\ (told[<<m.id, f>>] > 0 => E!Rank(f) <= E!Rank(status[m.id]))
        <5>1. \A d \in Callers : calls[d].pc # "record"
          BY <3>1 DEF Busy
        <5>2. QED BY <2>1, <2>3, <5>1 DEF Alone
      <4>2. /\ told[<<m.id, f>>] \in Nat
            /\ told'[<<m.id, f>>] = IF Covers(<<m.id, f>>) THEN told[<<m.id, f>>] + 1 ELSE told[<<m.id, f>>]
        BY <1>1, <1>3, <1>4
      <4>3. Covers(<<m.id, f>>) => E!Rank(f) > E!Rank(status[m.id]) /\ E!Rank(f) <= E!Rank(e)
        <5>1. \A k \in DOMAIN steps : E!Rank(status[m.id]) < E!Rank(steps[k]) /\ E!Rank(steps[k]) < E!Rank(e)
          BY <3>2, StepsBetween DEF steps
        <5>2. QED BY <5>1, <1>1, <1>2, <3>2, <3>3
      <4>4. E!Rank(f) \in Nat /\ E!Rank(e) \in Nat /\ E!Rank(status[m.id]) \in Nat
        BY <3>2, <3>3
      <4>5. QED BY <4>1, <4>2, <4>3, <4>4, <1>1
    <3>5. \A d \in Callers : calls'[d] = calls[d] /\ calls[d].pc \notin {"forward", "record"}
      BY <3>1, <1>1 DEF Busy
    <3>6. QED BY <2>3, <3>1, <3>2, <3>4, <3>5 DEF Alone, Ahead
  <2>4. QED BY <2>2, <2>3
<1>12. QED BY <1>8, <1>9, <1>10, <1>11 DEF ClientInv

LEMMA ClientAnswer ==
  ASSUME ClientInv, NEW c \in Callers, E!Answer(c)
  PROVE  ClientInv'
<1> DEFINE call == calls[c]
           results == E!Results(call)
           new == [call EXCEPT !.pc = "answered", !.answer = 200, !.results = results]
<1>1. /\ call.pc = "forward" /\ call.todo = <<>> /\ calls' = [calls EXCEPT ![c] = new]
      /\ UNCHANGED <<status, deleted, told, elsewhere, muddled>>
  BY DEF E!Answer, E!Update
<1>2. CallOK(call, told, deleted)
  BY DEF ClientInv
<1>3. results = [k \in DOMAIN call.body |->
                   IF call.results[k] = "forwarded" /\ E!ReceiptOf(call.body[k]).id \in call.refused THEN "rejected" ELSE call.results[k]]
  BY DEF E!Results
<1> HIDE DEF call, results
<1>4. /\ DOMAIN new = CallFields /\ new.pc = "answered" /\ new.answer = 200 /\ new.results = results
      /\ new.body = call.body /\ new.todo = call.todo /\ new.accepted = call.accepted /\ new.refused = call.refused
  BY <1>2 DEF CallOK, CallFields
<1> HIDE DEF new
<1>5. ASSUME NEW k \in DOMAIN call.body PROVE True200(new, told, deleted, new.body[k], new.results[k])
  <2> DEFINE x == E!ReceiptOf(call.body[k])
             r == call.results[k]
  <2>1. Foretold(call, told, call.body[k], r) /\ call.sent \subseteq ClientReceipts /\ call.refused \subseteq deleted
    BY <1>1, <1>2 DEF CallOK
  <2>2. \A y \in call.sent : told[<<y.id, y.event>>] > 0 \/ y.id \in call.refused
    <3>1. \A y : ~Among(y, call.todo)
      BY <1>1 DEF Among
    <3>2. QED BY <3>1, <1>1, <1>2 DEF CallOK
  <2>3. new.results[k] = IF r = "forwarded" /\ x.id \in call.refused THEN "rejected" ELSE r
    BY <1>3, <1>4
  <2>4. r = "already_reported" =>
          /\ x \in ClientReceipts
          /\ \E f \in E!Event : E!Rank(f) >= E!Rank(x.event) /\ (told[<<x.id, f>>] > 0 \/ x.id \in call.refused)
    <3> SUFFICES ASSUME r = "already_reported"
                 PROVE /\ x \in ClientReceipts
                       /\ \E f \in E!Event : E!Rank(f) >= E!Rank(x.event) /\ (told[<<x.id, f>>] > 0 \/ x.id \in call.refused)
      OBVIOUS
    <3>1. /\ x \in ClientReceipts
          /\ \E f \in E!Event : /\ E!Rank(f) >= E!Rank(x.event)
                                /\ told[<<x.id, f>>] > 0 \/ x.id \in call.refused \/ [id |-> x.id, event |-> f] \in call.sent
      BY <2>1 DEF Foretold
    <3>2. PICK f \in E!Event : /\ E!Rank(f) >= E!Rank(x.event)
                               /\ told[<<x.id, f>>] > 0 \/ x.id \in call.refused \/ [id |-> x.id, event |-> f] \in call.sent
      BY <3>1
    <3>3. [id |-> x.id, event |-> f] \in call.sent => told[<<x.id, f>>] > 0 \/ x.id \in call.refused
      <4> DEFINE y == [id |-> x.id, event |-> f]
      <4>1. y.id = x.id /\ y.event = f
        OBVIOUS
      <4> HIDE DEF y
      <4>2. y \in call.sent => told[<<y.id, y.event>>] > 0 \/ y.id \in call.refused
        BY <2>2
      <4>3. QED BY <4>1, <4>2 DEF y
    <3>4. QED BY <3>1, <3>2, <3>3
  <2>5. r = "forwarded" => x \in ClientReceipts /\ (told[<<x.id, x.event>>] > 0 \/ x.id \in call.refused)
    BY <2>1, <2>2 DEF Foretold
  <2>6. r # "rejected"
    BY <2>1 DEF Foretold
  <2>7. new.body[k] = call.body[k] /\ new.refused = call.refused
    BY <1>4
  <2> HIDE DEF r
  <2>8. QED BY <2>1, <2>3, <2>4, <2>5, <2>6, <2>7 DEF True200
<1>6. CallOK(new, told, deleted)
  BY <1>1, <1>2, <1>4, <1>5 DEF CallOK
<1>7. calls' = [d \in Callers |-> calls'[d]] /\ calls'[c] = new /\ \A d \in Callers : d # c => calls'[d] = calls[d]
  BY <1>1, ClientMoves DEF ClientInv
<1>8. \A d \in Callers : CallOK(calls'[d], told', deleted')
  BY <1>1, <1>6, OtherCalls
<1>9. ClientType' /\ StatusTold'
  BY <1>1, <1>7 DEF ClientInv, ClientType, StatusTold
<1>10. AloneInv'
  <2> SUFFICES ASSUME NEW m \in Sent, m.id \notin muddled PROVE Alone(m.id)'
    BY <1>1 DEF AloneInv
  <2>1. ~Busy(new) /\ Busy(calls[c]) /\ Ahead(new, status, m.id)
    BY <1>1, <1>4 DEF Busy, Ahead, call
  <2>2. \A d \in Callers : calls[d].pc = "record" => d # c
    BY <1>1 DEF call
  <2>3. Alone(m.id)
    BY DEF ClientInv, AloneInv
  <2>4. QED BY <1>1, <1>7, <2>1, <2>2, <2>3 DEF Alone
<1>11. QED BY <1>8, <1>9, <1>10 DEF ClientInv

LEMMA ClientReconcile ==
  ASSUME FlowsAssumption, ClientInv, NEW c \in Callers, E!Reconcile(c)
  PROVE  ClientInv'
<1> DEFINE call == calls[c]
           receipts == call.receipts
           sentOf(list) == {[id |-> list[k].id, event |-> list[k].event] : k \in DOMAIN list}
           resultsOf(sent) == [k \in DOMAIN call.body |->
                                 IF call.results[k] = "forwarded" /\ E!ReceiptOf(call.body[k]) \notin sent
                                 THEN "already_reported" ELSE call.results[k]]
           newOf(list) == [call EXCEPT !.pc = "forward", !.todo = list, !.sent = sentOf(list), !.results = resultsOf(sentOf(list))]
           outOf(failing) == IF failing THEN receipts ELSE E!Reconciled(receipts)
<1>1. PICK failing \in BOOLEAN : /\ muddled' = muddled \cup (IF failing THEN {receipts[k].id : k \in DOMAIN receipts} ELSE {})
                                 /\ calls' = [calls EXCEPT ![c] = newOf(outOf(failing))]
  BY DEF E!Reconcile, E!Update
<1>2. call.pc = "reconcile" /\ UNCHANGED <<status, deleted, told, elsewhere>>
  BY DEF E!Reconcile
<1>3. CallOK(call, told, deleted) /\ status \in [E!Ids -> E!Event \cup {"none"}]
  BY DEF ClientInv, ClientType
<1>4. /\ call.body \in Bodies /\ receipts = E!ReceiptsOf(call.body)
      /\ call.results = [k \in DOMAIN call.body |-> E!Resolve(call.body[k])] /\ ~call.last /\ call.answer # 200
  BY <1>2, <1>3 DEF CallOK
<1>5. /\ receipts \in Seq(ClientReceipts)
      /\ \A k \in DOMAIN call.body : E!Resolve(call.body[k]) = "forwarded" => Among(E!ReceiptOf(call.body[k]), receipts)
  BY <1>4, ReceiptsOfIs
<1> DEFINE out == outOf(failing)
<1>6. /\ out \in Seq(ClientReceipts)
      /\ ~failing => Rising(out) /\ \A a : Among(a, out) /\ E!Recorded(a.id) => E!Rank(status[a.id]) < E!Rank(a.event)
      /\ \A x : Among(x, receipts) =>
           \/ Among(x, out)
           \/ \E f \in E!Event : /\ E!Rank(f) >= E!Rank(x.event)
                                 /\ status[x.id] = f \/ Among([id |-> x.id, event |-> f], out)
  <2>1. CASE failing
    BY <2>1, <1>5
  <2>2. CASE ~failing
    <3> HIDE DEF receipts
    <3> DEFINE done == E!Reconciled(receipts)
    <3>1. /\ done \in Seq(ClientReceipts)
          /\ Rising(done)
          /\ \A a : Among(a, done) /\ E!Recorded(a.id) => E!Rank(status[a.id]) < E!Rank(a.event)
          /\ \A k \in DOMAIN receipts :
               \/ Among(receipts[k], done)
               \/ \E f \in E!Event : /\ E!Rank(f) >= E!Rank(receipts[k].event)
                                     /\ status[receipts[k].id] = f \/ Among([id |-> receipts[k].id, event |-> f], done)
      BY <1>3, <1>5, ReconciledIs
    <3>2. out = done
      BY <2>2
    <3> HIDE DEF done, out
    <3>3. \A x : Among(x, receipts) =>
            \/ Among(x, done)
            \/ \E f \in E!Event : /\ E!Rank(f) >= E!Rank(x.event)
                                  /\ status[x.id] = f \/ Among([id |-> x.id, event |-> f], done)
      BY <3>1 DEF Among
    <3>4. QED BY <3>1, <3>2, <3>3
  <2>3. QED BY <2>1, <2>2
<1> DEFINE sent == sentOf(out)
           results == resultsOf(sent)
           new == newOf(out)
<1>7. calls' = [calls EXCEPT ![c] = new]
  BY <1>1
<1> HIDE DEF out
<1>8. sent \subseteq ClientReceipts /\ \A x : x \in sent <=> Among(x, out)
  <2>1. \A k \in DOMAIN out : out[k] \in ClientReceipts
    BY <1>6
  <2>2. \A k \in DOMAIN out : [id |-> out[k].id, event |-> out[k].event] = out[k]
    BY <2>1 DEF ClientReceipts
  <2>3. QED BY <2>1, <2>2 DEF Among
<1>9. /\ results = [k \in DOMAIN call.body |->
                      IF call.results[k] = "forwarded" /\ E!ReceiptOf(call.body[k]) \notin sent
                      THEN "already_reported" ELSE call.results[k]]
      /\ new = [call EXCEPT !.pc = "forward", !.todo = out, !.sent = sent, !.results = results]
  OBVIOUS
<1> HIDE DEF call, sent, results, receipts
<1>10. /\ DOMAIN new = CallFields /\ new.pc = "forward" /\ new.todo = out /\ new.sent = sent /\ new.results = results
       /\ new.body = call.body /\ new.accepted = call.accepted /\ new.refused = call.refused /\ new.last = call.last
       /\ new.answer = call.answer
  BY <1>3, <1>9 DEF CallOK, CallFields
<1> HIDE DEF new
<1>11. ASSUME NEW k \in DOMAIN call.body PROVE Foretold(new, told, call.body[k], results[k])
  <2> DEFINE x == E!ReceiptOf(call.body[k])
  <2>1. /\ call.results[k] = E!Resolve(call.body[k])
        /\ results[k] = IF call.results[k] = "forwarded" /\ x \notin sent THEN "already_reported" ELSE call.results[k]
    BY <1>4, <1>9
  <2>2. /\ call.results[k] \in {"invalid", "not_found", "ambiguous", "forwarded"}
        /\ call.results[k] = "forwarded" => x \in ClientReceipts /\ Among(x, receipts)
    BY <2>1, <1>5, ResolveIs
  <2> HIDE DEF x
  <2>3. results[k] = "already_reported" =>
          /\ x \in ClientReceipts
          /\ \E f \in E!Event : /\ E!Rank(f) >= E!Rank(x.event)
                                /\ told[<<x.id, f>>] > 0 \/ x.id \in new.refused \/ [id |-> x.id, event |-> f] \in sent
    <3> SUFFICES ASSUME results[k] = "already_reported"
                 PROVE  \E f \in E!Event : /\ E!Rank(f) >= E!Rank(x.event)
                                           /\ told[<<x.id, f>>] > 0 \/ [id |-> x.id, event |-> f] \in sent
      BY <2>1, <2>2
    <3>1. x \in ClientReceipts /\ x \notin sent /\ Among(x, receipts)
      BY <2>1, <2>2
    <3>2. PICK f \in E!Event : /\ E!Rank(f) >= E!Rank(x.event)
                               /\ status[x.id] = f \/ Among([id |-> x.id, event |-> f], out)
      BY <3>1, <1>6, <1>8
    <3>3. x.id \in E!Ids
      BY <3>1 DEF ClientReceipts
    <3>4. status[x.id] = f => told[<<x.id, f>>] > 0
      BY <3>3 DEF ClientInv, StatusTold
    <3>5. Among([id |-> x.id, event |-> f], out) => [id |-> x.id, event |-> f] \in sent
      BY <1>8
    <3>6. QED BY <3>2, <3>4, <3>5
  <2>4. results[k] = "forwarded" => x \in sent
    BY <2>1
  <2>5. results[k] # "rejected"
    BY <2>1, <2>2
  <2>6. QED BY <2>3, <2>4, <2>5, <1>10 DEF Foretold, x
<1>12. CallOK(new, told', deleted')
  <2>1. CallOK(new, told, deleted)
    BY <1>2, <1>3, <1>4, <1>6, <1>8, <1>10, <1>11 DEF CallOK
  <2>2. QED BY <2>1, <1>2
<1>13. calls' = [d \in Callers |-> calls'[d]] /\ calls'[c] = new /\ \A d \in Callers : d # c => calls'[d] = calls[d]
  BY <1>7, ClientMoves DEF ClientInv
<1>14. \A d \in Callers : CallOK(calls'[d], told', deleted')
  BY <1>2, <1>7, <1>12, OtherCalls
<1>15. ClientType' /\ StatusTold'
  BY <1>2, <1>13 DEF ClientInv, ClientType, StatusTold
<1>16. AloneInv'
  <2> SUFFICES ASSUME NEW m \in Sent, m.id \notin muddled' PROVE Alone(m.id)'
    BY DEF AloneInv
  <2>1. Alone(m.id) /\ E!Recorded(m.id)
    BY <1>1 DEF ClientInv, AloneInv, E!Recorded
  <2>2. Ahead(new, status, m.id)
    <3>1. CASE failing
      <4>1. out = receipts /\ \A k \in DOMAIN receipts : receipts[k].id # m.id
        BY <3>1, <1>1 DEF out
      <4>2. QED BY <4>1, <1>10 DEF Ahead, RisingOf
    <3>2. CASE ~failing
      <4>1. \A k \in DOMAIN out : Among(out[k], out)
        BY DEF Among
      <4>2. QED BY <3>2, <4>1, <2>1, <1>6, <1>10 DEF Ahead, Rising, RisingOf
    <3>3. QED BY <3>1, <3>2
  <2>3. Busy(calls[c])
    BY <1>2 DEF Busy, call
  <2>4. \A d \in Callers : calls[d].pc = "record" => d # c
    BY <1>2 DEF call
  <2>5. new.pc = "forward" /\ UNCHANGED <<status, told>>
    BY <1>2, <1>10
  <2>6. QED BY <1>13, <2>1, <2>2, <2>3, <2>4, <2>5 DEF Alone
<1>17. QED BY <1>14, <1>15, <1>16 DEF ClientInv

\* The status recorded is the highest of what was accepted and what was there.
LEMMA HighestIs ==
  ASSUME status \in [E!Ids -> E!Event \cup {"none"}], NEW id \in E!Ids, NEW accepted
  PROVE  LET h == E!Highest(id, accepted)
         IN  /\ E!Rank(status[id]) <= E!Rank(h)
             /\ \A e \in E!Event : [id |-> id, event |-> e] \in accepted => E!Rank(e) <= E!Rank(h)
             /\ h = status[id] \/ (h \in E!Event /\ [id |-> id, event |-> h] \in accepted)
<1> DEFINE mine == {e \in E!Event : [id |-> id, event |-> e] \in accepted /\ E!Rank(e) > E!Rank(status[id])}
           h == E!Highest(id, accepted)
<1>1. \A e \in E!Event \cup {"none"} : E!Rank(e) \in 1 .. 4
  BY ClientRanks
<1>2. E!Rank(status[id]) \in 1 .. 4
  BY <1>1
<1>3. h = IF mine = {} THEN status[id] ELSE CHOOSE e \in mine : \A f \in mine : E!Rank(f) <= E!Rank(e)
  BY DEF E!Highest
<1>4. CASE mine = {}
  <2>1. h = status[id]
    BY <1>3, <1>4, Zenon
  <2> HIDE DEF h
  <2>2. QED BY <2>1, <1>1, <1>2, <1>4 DEF h
<1>5. CASE mine # {}
  <2>1. \E e \in mine : \A f \in mine : E!Rank(f) <= E!Rank(e)
    <3>1. \A e \in mine : E!Rank(e) \in 1 .. 4
      BY <1>1
    <3> HIDE DEF mine
    <3>2. CASE \E e \in mine : E!Rank(e) = 4
      BY <3>1, <3>2
    <3>3. CASE ~(\E e \in mine : E!Rank(e) = 4) /\ \E e \in mine : E!Rank(e) = 3
      BY <3>1, <3>3
    <3>4. CASE ~(\E e \in mine : E!Rank(e) \in {3, 4}) /\ \E e \in mine : E!Rank(e) = 2
      BY <3>1, <3>4
    <3>5. CASE ~(\E e \in mine : E!Rank(e) \in {2, 3, 4})
      BY <3>1, <3>5, <1>5
    <3>6. QED BY <3>2, <3>3, <3>4, <3>5
  <2> HIDE DEF mine, h
  <2>2. h \in mine /\ \A f \in mine : E!Rank(f) <= E!Rank(h)
    BY <2>1, <1>3, <1>5, Zenon
  <2>3. h \in E!Event /\ [id |-> id, event |-> h] \in accepted /\ E!Rank(h) > E!Rank(status[id])
    BY <2>2 DEF mine
  <2>4. E!Rank(h) \in 1 .. 4
    BY <2>3, <1>1
  <2>5. ASSUME NEW e \in E!Event, [id |-> id, event |-> e] \in accepted PROVE E!Rank(e) <= E!Rank(h)
    <3>1. CASE E!Rank(e) > E!Rank(status[id])
      BY <3>1, <2>2, <2>5 DEF mine
    <3>2. CASE ~(E!Rank(e) > E!Rank(status[id]))
      <4>1. E!Rank(e) \in 1 .. 4
        BY <1>1
      <4>2. QED BY <4>1, <3>2, <2>3, <2>4, <1>2
    <3>3. QED BY <3>1, <3>2
  <2>6. QED BY <2>3, <2>4, <2>5, <1>2 DEF h
<1>6. QED BY <1>4, <1>5

LEMMA ClientRecord ==
  ASSUME ClientInv, NEW c \in Callers, E!Record(c)
  PROVE  ClientInv'
<1> DEFINE call == calls[c]
           sent == [call EXCEPT !.pc = "forward"]
           failed == [call EXCEPT !.pc = "answered", !.answer = 502]
           new == IF call.last THEN failed ELSE sent
<1>1. PICK failing \in BOOLEAN :
        /\ muddled' = muddled \cup (IF failing THEN {x.id : x \in call.accepted} ELSE {})
        /\ status' = IF failing THEN status
                     ELSE [id \in E!Ids |-> IF E!Recorded(id) THEN E!Highest(id, call.accepted) ELSE "none"]
  BY DEF E!Record
<1>2. call.pc = "record" /\ calls' = [calls EXCEPT ![c] = new] /\ UNCHANGED <<deleted, told, elsewhere>>
  BY DEF E!Record, E!Update
<1>3. CallOK(call, told, deleted) /\ status \in [E!Ids -> E!Event \cup {"none"}]
  BY DEF ClientInv, ClientType
<1>4. call.accepted \subseteq ClientReceipts /\ \A x \in call.accepted : told[<<x.id, x.event>>] > 0
  BY <1>2, <1>3 DEF CallOK
<1>5. Busy(calls[c])
  BY <1>2 DEF Busy
<1> HIDE DEF call
<1>6. /\ DOMAIN sent = CallFields /\ sent.pc = "forward" /\ sent.todo = call.todo /\ sent.sent = call.sent
      /\ sent.results = call.results /\ sent.body = call.body /\ sent.accepted = call.accepted
      /\ sent.refused = call.refused /\ sent.last = call.last /\ sent.answer = call.answer
  BY <1>3 DEF CallOK, CallFields
<1>7. /\ DOMAIN failed = CallFields /\ failed.pc = "answered" /\ failed.answer = 502 /\ failed.todo = call.todo
      /\ failed.body = call.body /\ failed.accepted = call.accepted /\ failed.refused = call.refused
  BY <1>3 DEF CallOK, CallFields
<1> HIDE DEF sent, failed
<1>8. CallOK(new, told, deleted) /\ (Busy(new) => new = sent)
  <2>1. ASSUME call.last PROVE CallOK(failed, told, deleted) /\ ~Busy(failed) /\ new = failed
    BY <2>1, <1>2, <1>3, <1>7 DEF CallOK, Busy
  <2>2. ASSUME ~call.last PROVE CallOK(sent, told, deleted) /\ new = sent
    <3>1. \A e, r : Foretold(call, told, e, r) => Foretold(sent, told, e, r)
      BY <1>6 DEF Foretold
    <3>2. QED BY <2>2, <3>1, <1>2, <1>3, <1>6 DEF CallOK
  <2>3. QED BY <2>1, <2>2
<1>9. new.pc \in {"forward", "answered"} /\ (new.pc = "forward" => new.todo = call.todo)
  BY <1>6, <1>7
<1> HIDE DEF new
<1>10. calls' = [d \in Callers |-> calls'[d]] /\ calls'[c] = new /\ \A d \in Callers : d # c => calls'[d] = calls[d]
  BY <1>2, ClientMoves DEF ClientInv
<1>11. \A d \in Callers : CallOK(calls'[d], told', deleted')
  <2>1. CallOK(new, told', deleted')
    BY <1>2, <1>8
  <2>2. QED BY <2>1, <1>2, OtherCalls
<1>12. ASSUME NEW id \in E!Ids
       PROVE  /\ status'[id] \in E!Event \cup {"none"}
              /\ status'[id] \in E!Event => told[<<id, status'[id]>>] > 0
              /\ ~failing /\ E!Recorded(id) =>
                   /\ E!Rank(status[id]) <= E!Rank(status'[id])
                   /\ \A e \in E!Event : [id |-> id, event |-> e] \in call.accepted => E!Rank(e) <= E!Rank(status'[id])
  <2>1. CASE failing
    <3>1. status' = status
      BY <2>1, <1>1, Zenon
    <3>2. QED BY <2>1, <3>1, <1>3 DEF ClientInv, StatusTold
  <2>2. CASE ~failing
    <3> DEFINE h == E!Highest(id, call.accepted)
    <3>1. status'[id] = IF E!Recorded(id) THEN h ELSE "none"
      BY <2>2, <1>1
    <3>2. /\ E!Rank(status[id]) <= E!Rank(h)
          /\ \A e \in E!Event : [id |-> id, event |-> e] \in call.accepted => E!Rank(e) <= E!Rank(h)
          /\ h = status[id] \/ (h \in E!Event /\ [id |-> id, event |-> h] \in call.accepted)
      BY <1>3, HighestIs
    <3> HIDE DEF h
    <3>3. ASSUME h \in E!Event, [id |-> id, event |-> h] \in call.accepted PROVE told[<<id, h>>] > 0
      <4> DEFINE y == [id |-> id, event |-> h]
      <4>1. y.id = id /\ y.event = h
        OBVIOUS
      <4> HIDE DEF y
      <4>2. y \in call.accepted => told[<<y.id, y.event>>] > 0
        BY <1>4
      <4>3. QED BY <4>1, <4>2, <3>3 DEF y
    <3>4. status[id] \in E!Event \cup {"none"} /\ (status[id] \in E!Event => told[<<id, status[id]>>] > 0)
      BY <1>3 DEF ClientInv, StatusTold
    <3>5. CASE E!Recorded(id)
      BY <3>1, <3>2, <3>3, <3>4, <3>5
    <3>6. CASE ~E!Recorded(id)
      BY <3>1, <3>6, ClientRanks
    <3>7. QED BY <3>5, <3>6
  <2>3. QED BY <2>1, <2>2
<1>13. status' \in [E!Ids -> E!Event \cup {"none"}]
  <2>1. status' = [id \in E!Ids |-> status'[id]]
    <3>1. CASE failing
      <4>1. status' = status
        BY <3>1, <1>1, Zenon
      <4>2. QED BY <4>1, <1>3
    <3>2. CASE ~failing
      BY <3>2, <1>1
    <3>3. QED BY <3>1, <3>2
  <2>2. QED BY <2>1, <1>12
<1>14. ClientType'
  BY <1>2, <1>10, <1>13 DEF ClientInv, ClientType
<1>15. StatusTold'
  BY <1>2, <1>12 DEF StatusTold
<1>16. AloneInv'
  <2> SUFFICES ASSUME NEW m \in Sent, m.id \notin muddled' PROVE Alone(m.id)'
    BY DEF AloneInv
  <2>1. Alone(m.id) /\ m.id \in E!Ids /\ E!Recorded(m.id) /\ (failing => \A x \in call.accepted : x.id # m.id)
    BY <1>1 DEF ClientInv, AloneInv, E!Ids, E!Recorded
  <2>2. \A d \in Callers : Busy(calls[d]) => d = c
    BY <2>1, <1>5 DEF Alone
  <2>3. \A a, b \in Callers : Busy(calls'[a]) /\ Busy(calls'[b]) => a = b
    BY <2>2, <1>10
  <2>4. \A e \in E!Event \cup {"none"} : E!Rank(e) \in Nat
    BY ClientRanks
  <2>5. \/ failing /\ status' = status
        \/ ~failing /\ status'[m.id] = E!Highest(m.id, call.accepted)
    BY <1>1, <2>1
  <2>6. ASSUME NEW e \in E!Event, told[<<m.id, e>>] > 0
        PROVE  E!Rank(e) <= E!Rank(status'[m.id])
    <3>1. \/ E!Rank(e) <= E!Rank(status[m.id])
          \/ [id |-> m.id, event |-> e] \in call.accepted
      <4>1. \/ E!Rank(e) <= E!Rank(status[m.id])
            \/ \E d \in Callers : calls[d].pc = "record" /\ [id |-> m.id, event |-> e] \in calls[d].accepted
        BY <2>1, <2>6 DEF Alone
      <4>2. \A d \in Callers : calls[d].pc = "record" => d = c
        BY <2>2 DEF Busy
      <4>3. QED BY <4>1, <4>2 DEF call
    <3>2. CASE failing
      <4>1. [id |-> m.id, event |-> e].id = m.id
        OBVIOUS
      <4>2. [id |-> m.id, event |-> e] \notin call.accepted
        BY <4>1, <3>2, <2>1, Zenon
      <4>3. QED BY <3>1, <3>2, <4>2, <2>5
    <3>3. CASE ~failing
      <4>1. /\ E!Rank(status[m.id]) <= E!Rank(status'[m.id])
            /\ [id |-> m.id, event |-> e] \in call.accepted => E!Rank(e) <= E!Rank(status'[m.id])
        BY <2>1, <3>3, <1>12
      <4>2. E!Rank(e) \in Nat /\ E!Rank(status[m.id]) \in Nat /\ E!Rank(status'[m.id]) \in Nat
        BY <2>1, <2>4, <1>3, <1>13
      <4>3. QED BY <3>1, <4>1, <4>2
    <3>4. QED BY <3>2, <3>3
  <2>7. Ahead(call, status, m.id) /\ RisingOf(call.todo, m.id)
    BY <2>1, <1>2 DEF Alone, Ahead, call
  <2>8. ASSUME NEW k \in DOMAIN call.todo, call.todo[k].id = m.id
        PROVE  E!Rank(status'[m.id]) < E!Rank(call.todo[k].event)
    <3>1. /\ E!Rank(status[m.id]) < E!Rank(call.todo[k].event)
          /\ \A x \in call.accepted : x.id = m.id => E!Rank(x.event) < E!Rank(call.todo[k].event)
      BY <2>7, <2>8, <1>2 DEF Ahead
    <3>2. CASE failing
      BY <3>1, <3>2, <2>5
    <3>3. CASE ~failing
      <4>1. \/ status'[m.id] = status[m.id]
            \/ [id |-> m.id, event |-> status'[m.id]] \in call.accepted
        BY <2>1, <2>5, <3>3, <1>3, HighestIs
      <4>2. [id |-> m.id, event |-> status'[m.id]].id = m.id /\ [id |-> m.id, event |-> status'[m.id]].event = status'[m.id]
        OBVIOUS
      <4>3. QED BY <3>1, <4>1, <4>2
    <3>4. QED BY <3>2, <3>3
  <2>9. Ahead(new, status', m.id)
    BY <2>7, <2>8, <1>9 DEF Ahead
  <2>10. \A d \in Callers : d # c => Ahead(calls'[d], status', m.id)
    BY <2>2, <1>10 DEF Ahead, Busy
  <2>11. \A e \in E!Event : told[<<m.id, e>>] <= 1
    BY <2>1 DEF Alone
  <2>12. QED BY <2>3, <2>6, <2>9, <2>10, <2>11, <1>2, <1>10 DEF Alone
<1>17. QED BY <1>11, <1>14, <1>15, <1>16 DEF ClientInv

\* A batch and the rest of a list.
LEMMA BatchAndRest ==
  ASSUME FlowsAssumption, NEW list \in Seq(ClientReceipts)
  PROVE  LET batch == E!Prefix(list, MaxBatch)
             rest == SubSeq(list, Len(batch) + 1, Len(list))
         IN  /\ Len(batch) \in 0 .. Len(list) /\ DOMAIN batch = 1 .. Len(batch)
             /\ \A j \in 1 .. Len(batch) : batch[j] = list[j] /\ j \in DOMAIN list
             /\ rest \in Seq(ClientReceipts)
             /\ \A i \in DOMAIN rest : i \in Nat \ {0} /\ Len(batch) + i \in DOMAIN list /\ rest[i] = list[Len(batch) + i]
             /\ \A k \in DOMAIN list : k <= Len(batch) \/ (k - Len(batch) \in DOMAIN rest /\ rest[k - Len(batch)] = list[k])
<1> DEFINE n == IF Len(list) < MaxBatch THEN Len(list) ELSE MaxBatch
           batch == E!Prefix(list, MaxBatch)
           rest == SubSeq(list, n + 1, Len(list))
<1>1. n \in 0 .. Len(list) /\ Len(list) \in Nat /\ DOMAIN list = 1 .. Len(list) /\ \A k \in DOMAIN list : list[k] \in ClientReceipts
  BY DEF FlowsAssumption, E!ClientEventsAssumption
<1>2. batch = SubSeq(list, 1, n)
  BY DEF E!Prefix
<1> HIDE DEF n
<1>3. /\ batch \in Seq(ClientReceipts) /\ Len(batch) = n /\ \A j \in 1 .. n : batch[j] = list[j]
  <2>1. 1 \in Int /\ n \in Int /\ \A i \in 1 .. n : list[i] \in ClientReceipts
    BY <1>1
  <2> HIDE DEF batch
  <2>2. /\ batch \in Seq(ClientReceipts) /\ Len(batch) = (IF 1 <= n THEN n - 1 + 1 ELSE 0)
        /\ \A i \in 1 .. n - 1 + 1 : batch[i] = list[1 + i - 1]
    BY <2>1, <1>2, SubSeqProperties
  <2>3. n - 1 + 1 = n /\ \A i \in 1 .. n : 1 + i - 1 = i
    BY <1>1
  <2>4. Len(batch) = n
    BY <1>1, <2>2
  <2>5. QED BY <2>2, <2>3, <2>4
<1> HIDE DEF batch
<1>4. /\ rest \in Seq(ClientReceipts) /\ Len(rest) = Len(list) - n /\ \A i \in 1 .. Len(list) - n : rest[i] = list[n + i]
  <2>1. n + 1 \in Int /\ Len(list) \in Int /\ \A i \in n + 1 .. Len(list) : list[i] \in ClientReceipts
    BY <1>1
  <2> HIDE DEF rest
  <2>2. /\ rest \in Seq(ClientReceipts) /\ Len(rest) = (IF n + 1 <= Len(list) THEN Len(list) - (n + 1) + 1 ELSE 0)
        /\ \A i \in 1 .. Len(list) - (n + 1) + 1 : rest[i] = list[n + 1 + i - 1]
    BY <2>1, SubSeqProperties DEF rest
  <2>3. Len(list) - (n + 1) + 1 = Len(list) - n /\ \A i \in 1 .. Len(list) - n : n + 1 + i - 1 = n + i
    BY <1>1
  <2>4. Len(rest) = Len(list) - n
    <3>1. n \in Nat /\ Len(list) \in Nat /\ n <= Len(list)
      BY <1>1
    <3>2. CASE n + 1 <= Len(list)
      BY <2>2, <2>3, <3>2
    <3>3. CASE ~(n + 1 <= Len(list))
      BY <2>2, <3>1, <3>3
    <3>4. QED BY <3>2, <3>3
  <2>5. QED BY <2>2, <2>3, <2>4
<1>5. SubSeq(list, Len(batch) + 1, Len(list)) = rest
  BY <1>3
<1> HIDE DEF rest
<1>6. DOMAIN batch = 1 .. n /\ DOMAIN rest = 1 .. Len(list) - n
  BY <1>3, <1>4
<1>7. \A i \in DOMAIN rest : i \in Nat \ {0} /\ n + i \in DOMAIN list /\ rest[i] = list[n + i]
  BY <1>1, <1>4, <1>6
<1>8. ASSUME NEW k \in DOMAIN list PROVE k <= n \/ (k - n \in DOMAIN rest /\ rest[k - n] = list[k])
  <2>1. CASE k <= n
    BY <2>1
  <2>2. CASE ~(k <= n)
    <3>1. k - n \in 1 .. Len(list) - n /\ n + (k - n) = k
      BY <2>2, <1>1
    <3>2. QED BY <3>1, <1>4, <1>6
  <2>3. QED BY <2>1, <2>2
<1>9. QED
  <2>1. /\ Len(batch) \in 0 .. Len(list) /\ DOMAIN batch = 1 .. Len(batch)
        /\ \A j \in 1 .. Len(batch) : batch[j] = list[j] /\ j \in DOMAIN list
    BY <1>1, <1>3, <1>6
  <2>2. QED BY <1>3, <1>4, <1>5, <1>7, <1>8, <2>1 DEF batch

LEMMA ClientForward ==
  ASSUME FlowsAssumption, ClientInv, NEW c \in Callers, NEW failed, NEW gained, E!Forward(c, failed, gained)
  PROVE  ClientInv'
<1> DEFINE call == calls[c]
           batch == E!Prefix(call.todo, MaxBatch)
           gone == {j \in DOMAIN batch : batch[j].id \in deleted}
           live == DOMAIN batch \ (gone \cup failed)
           rest == SubSeq(call.todo, Len(batch) + 1, Len(call.todo))
           accepted == {batch[j] : j \in live}
           refused == call.refused \cup {batch[j].id : j \in gone \ failed}
           cut == failed # {}
           new == [call EXCEPT !.pc = "record", !.todo = rest, !.accepted = accepted, !.refused = refused, !.last = cut]
           hits(i, e) == {j \in live : batch[j] = [id |-> i, event |-> e]}
           again(i, e) == {j \in gained : batch[j] = [id |-> i, event |-> e]}
<1>1. /\ call.pc = "forward" /\ gained \subseteq DOMAIN batch /\ calls' = [calls EXCEPT ![c] = new]
      /\ muddled' = muddled \cup {batch[j].id : j \in gained}
      /\ UNCHANGED <<status, deleted, elsewhere>>
  BY DEF E!Forward, E!Update
<1>2. told' = [x \in DOMAIN told |-> told[x] + Cardinality(hits(x[1], x[2])) + Cardinality(again(x[1], x[2]))]
  BY ClientSets DEF E!Forward
<1>3. CallOK(call, told, deleted)
  BY DEF ClientInv
<1>4. /\ call.todo \in Seq(ClientReceipts) /\ call.refused \subseteq deleted /\ call.answer # 200 /\ ~call.last
      /\ call.body \in Bodies /\ call.sent \subseteq ClientReceipts
      /\ \A x \in call.sent : told[<<x.id, x.event>>] > 0 \/ x.id \in call.refused \/ Among(x, call.todo)
      /\ \A k \in DOMAIN call.body : Foretold(call, told, call.body[k], call.results[k])
  BY <1>1, <1>3 DEF CallOK
<1>5. /\ Len(batch) \in 0 .. Len(call.todo) /\ DOMAIN batch = 1 .. Len(batch)
      /\ \A j \in 1 .. Len(batch) : batch[j] = call.todo[j] /\ j \in DOMAIN call.todo
      /\ rest \in Seq(ClientReceipts)
      /\ \A i \in DOMAIN rest : i \in Nat \ {0} /\ Len(batch) + i \in DOMAIN call.todo /\ rest[i] = call.todo[Len(batch) + i]
      /\ \A k \in DOMAIN call.todo : k <= Len(batch) \/ (k - Len(batch) \in DOMAIN rest /\ rest[k - Len(batch)] = call.todo[k])
  BY <1>4, BatchAndRest
<1> HIDE DEF batch, rest
<1>6. \A k \in DOMAIN call.todo : k \in Nat \ {0} /\ call.todo[k] \in ClientReceipts
  BY <1>4
<1>7. \A j \in DOMAIN batch : j \in 1 .. Len(batch) /\ j \in DOMAIN call.todo /\ batch[j] = call.todo[j] /\ batch[j] \in ClientReceipts
  BY <1>1, <1>5, <1>6
<1>8. \A x \in ClientReceipts : x.id \in E!Ids /\ x.event \in E!Event /\ x = [id |-> x.id, event |-> x.event]
  BY DEF ClientReceipts
<1>9. ASSUME NEW i, NEW e
      PROVE  /\ Cardinality(hits(i, e)) \in Nat /\ Cardinality(again(i, e)) \in Nat
             /\ hits(i, e) # {} => Cardinality(hits(i, e)) > 0
             /\ (\A j, k \in hits(i, e) : j = k) => Cardinality(hits(i, e)) <= 1
  <2> DEFINE set == hits(i, e)
  <2>1. set \subseteq 1 .. Len(batch) /\ again(i, e) \subseteq 1 .. Len(batch)
    BY <1>1, <1>5
  <2> HIDE DEF set, again
  <2>2. IsFiniteSet(1 .. Len(batch))
    BY <1>5, FS_Interval
  <2>3. IsFiniteSet(set) /\ Cardinality(set) \in Nat /\ Cardinality(again(i, e)) \in Nat
    BY <2>1, <2>2, FS_Subset, FS_CardinalityType
  <2>4. set # {} => Cardinality(set) # 0
    BY <2>3, FS_EmptySet
  <2>5. ASSUME \A j, k \in set : j = k PROVE Cardinality(set) <= 1
    <3>1. CASE set = {}
      <4>1. Cardinality(set) = 0
        BY <3>1, FS_EmptySet
      <4>2. QED BY <4>1
    <3>2. CASE set # {}
      <4>1. PICK j \in set : TRUE
        BY <3>2
      <4>2. set = {j}
        BY <4>1, <2>5
      <4>3. Cardinality(set) = 1
        BY <4>2, FS_Singleton
      <4>4. QED BY <4>3
    <3>3. QED BY <3>1, <3>2
  <2>6. QED BY <2>3, <2>4, <2>5 DEF set
<1>10. \A x : x \in accepted <=> \E j \in live : batch[j] = x
  OBVIOUS
<1>11. accepted \subseteq ClientReceipts /\ refused \subseteq deleted /\ call.refused \subseteq refused
  BY <1>4, <1>7
<1>12. told \in [E!Ids \X E!Event -> Nat] /\ DOMAIN told = E!Ids \X E!Event
  BY DEF ClientInv, ClientType
<1>13. \A i \in E!Ids, e \in E!Event :
         /\ told[<<i, e>>] \in Nat /\ told'[<<i, e>>] \in Nat
         /\ told'[<<i, e>>] = told[<<i, e>>] + Cardinality(hits(i, e)) + Cardinality(again(i, e))
  <2> HIDE DEF hits, again
  <2> TAKE i \in E!Ids, e \in E!Event
  <2>1. <<i, e>> \in DOMAIN told /\ told[<<i, e>>] \in Nat
    BY <1>12
  <2>2. told'[<<i, e>>] = told[<<i, e>>] + Cardinality(hits(i, e)) + Cardinality(again(i, e))
    BY <2>1, <1>2
  <2>3. QED BY <2>1, <2>2, <1>9
<1>14. told' \in [E!Ids \X E!Event -> Nat]
  <2> HIDE DEF hits, again
  <2>1. \A x \in E!Ids \X E!Event : told[x] + Cardinality(hits(x[1], x[2])) + Cardinality(again(x[1], x[2])) \in Nat
    <3>1. \A x \in E!Ids \X E!Event : told[x] \in Nat
      BY <1>12
    <3>2. QED BY <3>1, <1>9
  <2>2. QED BY <2>1, <1>2, <1>12
<1>15. \A i \in E!Ids, e \in E!Event : told[<<i, e>>] > 0 => told'[<<i, e>>] > 0
  <2> HIDE DEF hits, again
  <2>1. QED BY <1>9, <1>13
<1>16. \A x \in accepted : told'[<<x.id, x.event>>] > 0
  <2> TAKE x \in accepted
  <2>1. x \in ClientReceipts
    BY <1>11
  <2>2. x.id \in E!Ids /\ x.event \in E!Event /\ x = [id |-> x.id, event |-> x.event]
    BY <2>1, <1>8
  <2>3. hits(x.id, x.event) # {}
    BY <2>2, <1>10
  <2> HIDE DEF hits, again
  <2>4. QED BY <2>2, <2>3, <1>9, <1>13
<1>17. ASSUME ~cut, NEW x \in call.sent
       PROVE  told'[<<x.id, x.event>>] > 0 \/ x.id \in refused \/ Among(x, rest)
  <2>1. x.id \in E!Ids /\ x.event \in E!Event
    BY <1>4, <1>8
  <2>2. CASE told[<<x.id, x.event>>] > 0 \/ x.id \in call.refused
    BY <2>1, <2>2, <1>11, <1>15
  <2>3. CASE Among(x, call.todo)
    <3>1. PICK k \in DOMAIN call.todo : call.todo[k] = x
      BY <2>3 DEF Among
    <3>2. CASE k <= Len(batch)
      <4>1. k \in DOMAIN batch /\ batch[k] = x /\ failed = {}
        BY <3>1, <3>2, <1>5, <1>6, <1>17
      <4>2. CASE k \in live
        BY <4>1, <4>2, <1>16
      <4>3. CASE k \notin live
        BY <4>1, <4>3
      <4>4. QED BY <4>2, <4>3
    <3>3. CASE ~(k <= Len(batch))
      BY <3>1, <3>3, <1>5 DEF Among
    <3>4. QED BY <3>2, <3>3
  <2>4. QED BY <2>2, <2>3, <1>4
<1> HIDE DEF accepted, refused, cut, live, gone, hits, again
<1>18. /\ DOMAIN new = CallFields /\ new.pc = "record" /\ new.todo = rest /\ new.accepted = accepted /\ new.refused = refused
       /\ new.last = cut /\ new.body = call.body /\ new.sent = call.sent /\ new.results = call.results /\ new.answer = call.answer
  BY <1>3 DEF CallOK, CallFields
<1> HIDE DEF new, call
<1>19. CallOK(new, told', deleted')
  <2>1. \A e, r : Foretold(call, told, e, r) => Foretold(new, told', e, r)
    <3> SUFFICES ASSUME NEW e, NEW r, Foretold(call, told, e, r) PROVE Foretold(new, told', e, r)
      OBVIOUS
    <3>1. \A x \in ClientReceipts, f \in E!Event :
            told[<<x.id, f>>] > 0 \/ x.id \in call.refused \/ [id |-> x.id, event |-> f] \in call.sent =>
              told'[<<x.id, f>>] > 0 \/ x.id \in new.refused \/ [id |-> x.id, event |-> f] \in new.sent
      BY <1>8, <1>11, <1>15, <1>18
    <3>2. QED BY <3>1, <1>18 DEF Foretold
  <2>2. \A k \in DOMAIN new.body : Foretold(new, told', new.body[k], new.results[k])
    BY <2>1, <1>4, <1>18
  <2>3. ~new.last => \A x \in new.sent : told'[<<x.id, x.event>>] > 0 \/ x.id \in new.refused \/ Among(x, new.todo)
    BY <1>17, <1>18
  <2>4. QED BY <2>2, <2>3, <1>1, <1>4, <1>5, <1>11, <1>16, <1>18 DEF CallOK
<1>20. calls' = [d \in Callers |-> calls'[d]] /\ calls'[c] = new /\ \A d \in Callers : d # c => calls'[d] = calls[d]
  BY <1>1, ClientMoves DEF ClientInv
<1>21. \A d \in Callers : CallOK(calls'[d], told', deleted')
  BY <1>1, <1>15, <1>19, OtherCalls
<1>22. ClientType' /\ StatusTold'
  <2>1. ClientType'
    BY <1>1, <1>14, <1>20 DEF ClientInv, ClientType
  <2>2. StatusTold'
    BY <1>1, <1>15 DEF ClientInv, StatusTold
  <2>3. QED BY <2>1, <2>2
<1>23. AloneInv'
  <2> SUFFICES ASSUME NEW m \in Sent, m.id \notin muddled' PROVE Alone(m.id)'
    BY DEF AloneInv
  <2>0. Alone(m.id) /\ m.id \in E!Ids /\ \A j \in gained : batch[j].id # m.id
    BY <1>1 DEF ClientInv, AloneInv, E!Ids
  <2>1. \A d \in Callers : Busy(calls[d]) => d = c
    <3>1. Busy(calls[c])
      BY <1>1 DEF Busy, call
    <3>2. QED BY <2>0, <3>1 DEF Alone
  <2>2. RisingOf(call.todo, m.id) /\ \A k \in DOMAIN call.todo : call.todo[k].id = m.id =>
                                         E!Rank(status[m.id]) < E!Rank(call.todo[k].event)
    BY <1>1, <2>0 DEF Alone, Ahead, call
  <2>3. \A e \in E!Event \cup {"none"} : E!Rank(e) \in Nat
    BY ClientRanks
  <2>4. ASSUME NEW e \in E!Event
        PROVE  /\ told'[<<m.id, e>>] <= 1
               /\ told'[<<m.id, e>>] > 0 =>
                    E!Rank(e) <= E!Rank(status[m.id]) \/ [id |-> m.id, event |-> e] \in accepted
    <3> DEFINE x == [id |-> m.id, event |-> e]
    <3>1. again(m.id, e) = {}
      <4>1. x.id = m.id
        OBVIOUS
      <4> HIDE DEF x
      <4>2. QED BY <4>1, <2>0 DEF again, x
    <3>2. /\ told[<<m.id, e>>] <= 1
          /\ told[<<m.id, e>>] > 0 => E!Rank(e) <= E!Rank(status[m.id])
      <4>1. \A d \in Callers : calls[d].pc = "record" => FALSE
        BY <2>1, <1>1 DEF Busy, call
      <4>2. QED BY <4>1, <2>0 DEF Alone
    <3>3. /\ told[<<m.id, e>>] \in Nat /\ told'[<<m.id, e>>] = told[<<m.id, e>>] + Cardinality(hits(m.id, e))
      <4>1. Cardinality(again(m.id, e)) = 0 /\ Cardinality(hits(m.id, e)) \in Nat
        BY <3>1, <1>9, FS_EmptySet
      <4>2. QED BY <4>1, <2>0, <1>13
    <3>4. CASE hits(m.id, e) = {}
      <4>1. Cardinality(hits(m.id, e)) = 0
        BY <3>4, FS_EmptySet
      <4>2. QED BY <4>1, <3>2, <3>3
    <3>5. CASE hits(m.id, e) # {}
      <4>1. x.id = m.id /\ x.event = e
        OBVIOUS
      <4> HIDE DEF x
      <4>2. \A j \in hits(m.id, e) : j \in live /\ j \in DOMAIN batch /\ j \in DOMAIN call.todo /\ batch[j] = x /\ call.todo[j] = x
        BY <1>7 DEF hits, live, x
      <4>3. x \in accepted
        BY <3>5, <4>2 DEF accepted
      <4>4. E!Rank(status[m.id]) < E!Rank(e)
        BY <3>5, <4>1, <4>2, <2>2
      <4>5. E!Rank(e) \in Nat /\ E!Rank(status[m.id]) \in Nat
        <5>1. status[m.id] \in E!Event \cup {"none"}
          BY <2>0 DEF ClientInv, ClientType
        <5>2. QED BY <5>1, <2>3
      <4>6. told[<<m.id, e>>] = 0
        BY <3>2, <3>3, <4>4, <4>5
      <4>7. \A j, k \in hits(m.id, e) : j = k
        <5> SUFFICES ASSUME NEW j \in hits(m.id, e), NEW k \in hits(m.id, e), j < k PROVE FALSE
          <6>1. \A j \in hits(m.id, e) : j \in Nat
            BY <4>2, <1>6
          <6>2. QED BY <6>1
        <5>1. E!Rank(x.event) < E!Rank(x.event)
          BY <4>1, <4>2, <2>2 DEF RisingOf
        <5>2. QED BY <5>1, <4>1, <4>5
      <4>8. Cardinality(hits(m.id, e)) <= 1 /\ Cardinality(hits(m.id, e)) \in Nat
        BY <4>7, <1>9
      <4>9. QED BY <3>3, <4>3, <4>6, <4>8 DEF x
    <3>6. QED BY <3>4, <3>5
  <2>5. Ahead(new, status, m.id)
    <3>1. RisingOf(rest, m.id)
      <4> SUFFICES ASSUME NEW j \in DOMAIN rest, NEW k \in DOMAIN rest, j < k, rest[j].id = m.id, rest[k].id = m.id
                   PROVE  E!Rank(rest[j].event) < E!Rank(rest[k].event)
        BY DEF RisingOf
      <4>1. /\ Len(batch) + j \in DOMAIN call.todo /\ Len(batch) + k \in DOMAIN call.todo /\ Len(batch) + j < Len(batch) + k
            /\ rest[j] = call.todo[Len(batch) + j] /\ rest[k] = call.todo[Len(batch) + k]
        BY <1>5
      <4>2. QED BY <4>1, <2>2 DEF RisingOf
    <3>2. ASSUME NEW k \in DOMAIN rest, rest[k].id = m.id
          PROVE  /\ E!Rank(status[m.id]) < E!Rank(rest[k].event)
                 /\ \A x \in accepted : x.id = m.id => E!Rank(x.event) < E!Rank(rest[k].event)
      <4>1. Len(batch) + k \in DOMAIN call.todo /\ rest[k] = call.todo[Len(batch) + k] /\ k \in Nat \ {0}
        BY <1>5
      <4>2. ASSUME NEW x \in accepted, x.id = m.id PROVE E!Rank(x.event) < E!Rank(rest[k].event)
        <5>1. PICK j \in live : batch[j] = x
          BY DEF accepted
        <5>2. j \in 1 .. Len(batch) /\ j \in DOMAIN call.todo /\ call.todo[j] = x
          BY <5>1, <1>7 DEF live
        <5>3. j < Len(batch) + k
          BY <5>2, <4>1, <1>5
        <5>4. QED BY <5>2, <5>3, <4>1, <4>2, <3>2, <2>2 DEF RisingOf
      <4>3. QED BY <4>1, <4>2, <3>2, <2>2
    <3>3. QED BY <3>1, <3>2, <1>18 DEF Ahead
  <2>6. \A d \in Callers : d # c => Ahead(calls'[d], status, m.id)
    BY <2>1, <1>20 DEF Ahead, Busy
  <2>7. \A a, b \in Callers : Busy(calls'[a]) /\ Busy(calls'[b]) => a = b
    BY <2>1, <1>20
  <2>8. calls'[c].pc = "record" /\ calls'[c].accepted = accepted
    BY <1>18, <1>20
  <2>9. QED BY <2>4, <2>5, <2>6, <2>7, <2>8, <1>1, <1>20 DEF Alone
<1>24. QED BY <1>21, <1>22, <1>23 DEF ClientInv

\* The process ends: nobody is served any more, and what was accepted and not recorded is doubtful.
LEMMA ClientCrash == ClientInv /\ E!Crash => ClientInv'
<1> SUFFICES ASSUME ClientInv, E!Crash PROVE ClientInv'
  OBVIOUS
<1> DEFINE stopped(c) == [calls[c] EXCEPT !.pc = "answered"]
<1>1. /\ calls' = [c \in Callers |-> IF c \in E!UnderWay THEN stopped(c) ELSE calls[c]]
      /\ muddled' = muddled \cup {x.id : x \in UNION {calls[c].accepted : c \in {d \in Callers : calls[d].pc = "record"}}}
      /\ UNCHANGED <<status, deleted, told, elsewhere>>
  BY DEF E!Crash
<1>2. ASSUME NEW c \in Callers PROVE CallOK(calls'[c], told, deleted) /\ calls'[c].pc \in {"idle", "answered"}
  <2>1. CallOK(calls[c], told, deleted)
    BY DEF ClientInv
  <2>2. CASE c \in E!UnderWay
    <3> DEFINE call == calls[c]
               new == stopped(c)
    <3>1. calls'[c] = new /\ call.pc \notin {"idle", "answered"}
      BY <2>2, <1>1 DEF E!UnderWay
    <3> HIDE DEF call
    <3>2. /\ DOMAIN new = CallFields /\ new.pc = "answered" /\ new.todo = call.todo /\ new.body = call.body
          /\ new.accepted = call.accepted /\ new.refused = call.refused /\ new.answer = call.answer
      BY <2>1 DEF CallOK, CallFields, call
    <3> HIDE DEF new
    <3>3. CallOK(new, told, deleted)
      BY <2>1, <3>1, <3>2 DEF CallOK, call
    <3>4. QED BY <3>1, <3>2, <3>3
  <2>3. CASE c \notin E!UnderWay
    BY <2>1, <2>3, <1>1 DEF E!UnderWay
  <2>4. QED BY <2>2, <2>3
<1>3. ClientType' /\ StatusTold' /\ \A c \in Callers : CallOK(calls'[c], told', deleted')
  BY <1>1, <1>2 DEF ClientInv, ClientType, StatusTold
<1>4. AloneInv'
  <2> SUFFICES ASSUME NEW m \in Sent, m.id \notin muddled' PROVE Alone(m.id)'
    BY DEF AloneInv
  <2>1. /\ Alone(m.id)
        /\ \A c \in Callers : calls[c].pc = "record" => \A x \in calls[c].accepted : x.id # m.id
    BY <1>1 DEF ClientInv, AloneInv
  <2>2. \A c \in Callers : ~Busy(calls'[c]) /\ Ahead(calls'[c], status', m.id)
    BY <1>2 DEF Busy, Ahead
  <2>3. ASSUME NEW e \in E!Event
        PROVE  told[<<m.id, e>>] <= 1 /\ (told[<<m.id, e>>] > 0 => E!Rank(e) <= E!Rank(status[m.id]))
    <3>1. [id |-> m.id, event |-> e].id = m.id
      OBVIOUS
    <3>2. ~ \E c \in Callers : calls[c].pc = "record" /\ [id |-> m.id, event |-> e] \in calls[c].accepted
      BY <2>1, <3>1, Zenon
    <3>3. QED BY <2>1, <3>2 DEF Alone
  <2>4. QED BY <2>2, <2>3, <1>1 DEF Alone
<1>5. QED BY <1>3, <1>4 DEF ClientInv

LEMMA ClientStep == FlowsAssumption /\ ClientInv /\ E!Next => ClientInv'
<1> SUFFICES ASSUME FlowsAssumption, ClientInv, E!Next PROVE ClientInv'
  OBVIOUS
<1>1. ASSUME NEW c \in Callers, NEW body \in Bodies, E!Receive(c, body) PROVE ClientInv'
  BY <1>1, ClientReceive
<1>2. ASSUME NEW c \in Callers, E!Reconcile(c) PROVE ClientInv'
  BY <1>2, ClientReconcile
<1>3. ASSUME NEW c \in Callers, NEW failed, NEW gained, E!Forward(c, failed, gained) PROVE ClientInv'
  BY <1>3, ClientForward
<1>4. ASSUME NEW c \in Callers, E!Record(c) PROVE ClientInv'
  BY <1>4, ClientRecord
<1>5. ASSUME NEW c \in Callers, E!Answer(c) PROVE ClientInv'
  BY <1>5, ClientAnswer
<1>6. ASSUME NEW m \in Sent, NEW e \in E!Event, E!Elsewhere(m, e) PROVE ClientInv'
  BY <1>6, ClientElsewhere
<1>7. ASSUME NEW id \in E!Ids, E!Delete(id) PROVE ClientInv'
  BY <1>7, ClientDelete
<1>8. QED BY <1>1, <1>2, <1>3, <1>4, <1>5, <1>6, <1>7, ClientCrash DEF E!Next

LEMMA ClientUnchanged == ClientInv /\ UNCHANGED client => ClientInv'
<1> SUFFICES ASSUME ClientInv, UNCHANGED client PROVE ClientInv'
  OBVIOUS
<1>1. UNCHANGED <<status, deleted, told, calls, elsewhere, muddled>>
  BY DEF client
<1>2. QED BY <1>1 DEF ClientInv, ClientType, StatusTold, AloneInv, Alone

LEMMA ClientInvSays == ClientInv => E!ResultsAreTrue /\ E!RetriesRepeatNothing
<1> SUFFICES ASSUME ClientInv PROVE E!ResultsAreTrue /\ E!RetriesRepeatNothing
  OBVIOUS
<1>1. ASSUME NEW c \in Callers, calls[c].answer = 200, NEW k \in DOMAIN calls[c].body
      PROVE  LET x == E!ReceiptOf(calls[c].body[k]) says == calls[c].results[k]
             IN  /\ says = "forwarded" => told[<<x.id, x.event>>] > 0
                 /\ says = "rejected" => x.id \in deleted
                 /\ says = "already_reported" =>
                       \E e \in E!Event : E!Rank(e) >= E!Rank(x.event) /\ (told[<<x.id, e>>] > 0 \/ x.id \in calls[c].refused)
  <2>1. True200(calls[c], told, deleted, calls[c].body[k], calls[c].results[k])
    BY <1>1 DEF ClientInv, CallOK
  <2>2. QED BY <2>1 DEF True200
<1>2. E!ResultsAreTrue
  BY <1>1 DEF E!ResultsAreTrue
<1>3. E!RetriesRepeatNothing
  BY DEF ClientInv, AloneInv, Alone, E!RetriesRepeatNothing
<1>4. QED BY <1>2, <1>3

\* For any messages, lists of events, callers and batch size: what a 200 says of each event is so, and
\* however often a list is repeated, a message is reported twice only after a lost answer about it, a
\* failure or end of its bookkeeping, or beside another reporter (client-events.ts, reconcileWebhookReceipts).
THEOREM ClientHoldsAlways == MCSpec => []ClientHolds
<1> DEFINE J == part = "client" => ClientInv
<1>1. MCInit => J
  BY ClientStart DEF MCInit
<1>2. J /\ [MCNext]_<<part, vars, inbound, client, values, meter, settings>> => J'
  <2> SUFFICES ASSUME J, [MCNext]_<<part, vars, inbound, client, values, meter, settings>>, part' = "client" PROVE ClientInv'
    OBVIOUS
  <2>1. part = "client" /\ ClientInv
    BY DEF MCNext
  <2>2. E!Next \/ UNCHANGED client
    BY <2>1 DEF MCNext
  <2>3. QED BY <2>1, <2>2, ClientStep, ClientUnchanged, FlowsAssumption
<1>3. J => ClientHolds
  BY ClientInvSays DEF ClientHolds
<1>4. QED BY <1>1, <1>2, <1>3, PTL DEF MCSpec
-----------------------------------------------------------------------------
(* What the messages are filled with (Resolver).                             *)

InputOf(w, what, loaded, cols, fnd) ==
  IF what = "user" THEN <<w>>
  ELSE IF what = "meta" THEN V!Meta(loaded)
  ELSE IF cols THEN fnd[w].plan ELSE V!EmptyText
InputsOf(n, w, loaded, cols, fnd) == [i \in DOMAIN Def[n].reads |-> InputOf(w, Def[n].reads[i], loaded, cols, fnd)]
KeyOf(n, inputs) == <<n, IF Def[n].place = "text" THEN <<V!FlattenSeq(inputs)>> ELSE inputs>>
AskedFor == {Asked[k] : k \in DOMAIN Asked}

\* The inputs of a recipient are a matter of what was found, read and loaded.
LEMMA InputsAre ==
  /\ \A n, w, loaded : V!Inputs(n, w, loaded) = InputsOf(n, w, loaded, columns, found)
  /\ \A n, w, loaded : V!Inputs(n, w, loaded)' = InputsOf(n, w, loaded, columns', found')
  /\ \A n, w, loaded : V!Key(n, w, loaded) = KeyOf(n, InputsOf(n, w, loaded, columns, found))
<1>1. \A n, w, loaded : V!Inputs(n, w, loaded) = InputsOf(n, w, loaded, columns, found)
  BY DEF V!Inputs, V!Value, InputsOf, InputOf
<1>2. \A n, w, loaded : V!Inputs(n, w, loaded)' = InputsOf(n, w, loaded, columns', found')
  BY DEF V!Inputs, V!Value, InputsOf, InputOf
<1>3. \A n, w, loaded : V!Key(n, w, loaded) = KeyOf(n, V!Inputs(n, w, loaded))
  BY DEF V!Key, KeyOf
<1>4. QED BY <1>1, <1>2, <1>3

\* Equal keys are of one variable, and of equal inputs where words tell apart.
LEMMA KeysTellInputs ==
  ASSUME V!WordsApart, NEW n \in DOMAIN Def, NEW m \in DOMAIN Def, NEW x \in V!Readings(n), NEW y \in V!Readings(m),
         KeyOf(n, x) = KeyOf(m, y)
  PROVE  n = m /\ x = y
<1>1. n = m
  BY DEF KeyOf
<1>2. CASE Def[n].place = "text"
  <2>1. V!FlattenSeq(x) = V!FlattenSeq(y)
    BY <1>1, <1>2 DEF KeyOf
  <2>2. QED BY <1>1, <1>2, <2>1 DEF V!WordsApart, V!Names
<1>3. CASE Def[n].place # "text"
  BY <1>1, <1>3 DEF KeyOf
<1>4. QED BY <1>1, <1>2, <1>3

\* What a recipient that was asked for can have as inputs.
LEMMA InputsAreReadings ==
  ASSUME NEW n \in DOMAIN Def, NEW fnd, NEW w \in DOMAIN fnd, DOMAIN fnd \subseteq AskedFor,
         fnd[w].plan \in {V!EmptyText} \cup {r.plan : r \in Records}, NEW loaded \in BOOLEAN, NEW cols \in BOOLEAN
  PROVE  InputsOf(n, w, loaded, cols, fnd) \in V!Readings(n)
<1> DEFINE reads == Def[n].reads
           x == InputsOf(n, w, loaded, cols, fnd)
<1>1. \A what : InputOf(w, what, loaded, cols, fnd) \in V!Words(what)
  <2>1. w \in V!ToSet(Asked)
    BY DEF AskedFor, V!ToSet
  <2>2. QED BY <2>1 DEF InputOf, V!Words, V!Meta
<1>2. DOMAIN x = DOMAIN reads /\ \A i \in DOMAIN reads : x[i] \in V!Words(reads[i])
  BY <1>1 DEF InputsOf
<1>3. x = [i \in DOMAIN reads |-> x[i]]
  BY DEF InputsOf
<1> HIDE DEF x
<1>4. x \in [DOMAIN reads -> UNION {V!Words(reads[i]) : i \in DOMAIN reads}]
  BY <1>2, <1>3
<1>5. x \in V!Readings(n)
  BY <1>2, <1>4 DEF V!Readings
<1>6. QED BY <1>5 DEF x

LEMMA ValuesAtIsSublist ==
  ASSUME NEW list, NEW S
  PROVE  V!At(list, S) = Sublist(list, S)
BY DEF V!At, Sublist, PositionAt, PlaceOf, V!Cardinality, Cardinality

\* Without repeats a list holds what it holds.
LEMMA DistinctHolds ==
  ASSUME NEW s, NEW T, s \in Seq(T)
  PROVE  \A i \in DOMAIN V!Distinct(s) : \E k \in DOMAIN s : V!Distinct(s)[i] = s[k]
<1> DEFINE S == {k \in DOMAIN s : \A j \in DOMAIN s : j < k => s[j] # s[k]}
<1>1. S \subseteq 1 .. Len(s) /\ Len(s) \in Nat /\ DOMAIN s = 1 .. Len(s)
  OBVIOUS
<1>2. IsFiniteSet(1 .. Len(s))
  BY <1>1, FS_Interval
<1> HIDE DEF S
<1>3. IsFiniteSet(S) /\ S \in SUBSET Nat
  <2>1. IsFiniteSet(S)
    BY <1>1, <1>2, FS_Subset
  <2>2. S \in SUBSET Nat
    BY <1>1
  <2>3. QED BY <2>1, <2>2
<1>4. \A n \in DOMAIN Sublist(s, S) : PositionAt(S, n) \in S /\ Sublist(s, S)[n] = s[PositionAt(S, n)]
  BY <1>3, SublistIs
<1>5. V!Distinct(s) = Sublist(s, S)
  BY ValuesAtIsSublist DEF V!Distinct, S
<1>6. QED BY <1>1, <1>4, <1>5

\* What is worked on or was learnt is of some recipient that was found.
JobOK(name, inputs, loaded, cols, fnd) ==
  /\ name \in DOMAIN Def /\ ~V!Skipped(name, loaded)
  /\ \E w \in DOMAIN fnd : inputs = InputsOf(name, w, loaded, cols, fnd)
OutcomeOK(k, inputs, loaded, cols, fnd) ==
  \E n \in DOMAIN Def : k = KeyOf(n, inputs) /\ \E w \in DOMAIN fnd : inputs = InputsOf(n, w, loaded, cols, fnd)

\* The names of a network's directory, as it answered.
FoundIs(fnd, ans) ==
  /\ DOMAIN fnd = {w \in AskedFor : \E a \in ans : w \in a[1] /\ \E r \in a[2] : r.id = w /\ r.reachable}
  /\ \A w \in DOMAIN fnd : \E a \in ans : w \in a[1] /\ fnd[w] \in a[2]

Texts == {V!EmptyText} \cup {r.plan : r \in Records}
NetworkChunks == (Len(V!Distinct(Asked)) + ChunkSize - 1) \div ChunkSize

LookupInv ==
  /\ columns \in BOOLEAN /\ schemas \in BOOLEAN
  /\ registry \subseteq DOMAIN Def
  /\ stage \in {"lookup", "plan", "resolve", "render", "done", "thrown"}
  /\ stage = "lookup" => \A w \in DOMAIN found : found[w] \in Records
  /\ stage \notin {"lookup", "thrown"} => DOMAIN found \subseteq AskedFor /\ \A w \in DOMAIN found : found[w].plan \in Texts
  /\ backend = "network" => FoundIs(found, answered)
  /\ backend = "network" /\ NetworkChunks = 0 => answered = {}

JobsInv ==
  /\ planned \subseteq DOMAIN Def
  /\ stage # "resolve" => queue = {} /\ running = {}
  /\ stage \in {"lookup", "plan"} => outcomes = <<>> /\ fetched = <<>>
  /\ \A j \in queue \cup running : j.key = KeyOf(j.name, j.inputs) /\ JobOK(j.name, j.inputs, schemas, columns, found)
  /\ \A i, j \in queue : i.key = j.key => i = j
  /\ IsFiniteSet(running) /\ Cardinality(running) <= Concurrency
  /\ fetched \in Seq({fetched[i] : i \in DOMAIN fetched})
  /\ \A i \in DOMAIN fetched : JobOK(fetched[i].name, fetched[i].inputs, schemas, columns, found)
  /\ \A i \in DOMAIN fetched : \A j \in queue : j.key # KeyOf(fetched[i].name, fetched[i].inputs)
  /\ \A i, j \in DOMAIN fetched : fetched[i] = fetched[j] => i = j
  /\ \A k \in DOMAIN outcomes : OutcomeOK(k, outcomes[k].inputs, schemas, columns, found)

\* The backend of a dispatch stays, and with it what is inactive and what is resolved for it.
LEMMA SourcesStay ==
  ASSUME UNCHANGED backend
  PROVE  \A n : (V!Unsaid(n)' <=> V!Unsaid(n)) /\ (V!Dynamic(n)' <=> V!Dynamic(n))
BY DEF V!Unsaid, V!Inactive, V!Dynamic, V!Source

RenderInv ==
  /\ stage \notin {"render", "done"} => rendered = <<>>
  /\ stage = "render" /\ ~stirred => used = V!Countable(registry)
  /\ stage \in {"lookup", "plan", "resolve"} => ~stirred
  /\ V!CountsAgree
  /\ \A i \in DOMAIN rendered : \A t \in Content :
       LET x == rendered[i].texts[t]
       IN x.kind = "value" /\ V!Dynamic(t[1]) => x.of = InputsOf(t[1], Asked[i], schemas, columns, found)

ValuesInv == LookupInv /\ JobsInv /\ RenderInv

LEMMA ValuesStart == FlowsAssumption /\ V!ResolverInit => ValuesInv
<1> SUFFICES ASSUME FlowsAssumption, V!ResolverInit PROVE ValuesInv
  OBVIOUS
<1>1. LookupInv
  <2>1. registry \subseteq DOMAIN Def
    BY DEF V!ResolverInit, V!Names
  <2>2. DOMAIN found = {} /\ answered = {} /\ columns = FALSE /\ schemas = FALSE /\ stage = "lookup"
    BY DEF V!ResolverInit
  <2>3. FoundIs(found, answered)
    BY <2>2 DEF FoundIs
  <2>4. QED BY <2>1, <2>2, <2>3 DEF LookupInv
<1>2. JobsInv
  <2>1. Concurrency \in Nat
    BY FlowsAssumption DEF FlowsAssumption, V!ResolverAssumption
  <2>2. IsFiniteSet({}) /\ Cardinality({}) = 0
    BY FS_EmptySet
  <2>3. QED BY <2>1, <2>2 DEF V!ResolverInit, JobsInv
<1>3. RenderInv
  BY DEF V!ResolverInit, RenderInv, V!CountsAgree
<1>4. QED BY <1>1, <1>2, <1>3 DEF ValuesInv

LEMMA LaterIs ==
  ASSUME NEW records
  PROVE  /\ DOMAIN V!Later(records) = {r.id : r \in records}
         /\ \A w \in DOMAIN V!Later(records) : V!Later(records)[w] \in records /\ V!Later(records)[w].id = w
<1>1. DOMAIN V!Later(records) = {r.id : r \in records}
  BY DEF V!Later
<1>2. ASSUME NEW w \in DOMAIN V!Later(records)
      PROVE  V!Later(records)[w] \in records /\ V!Later(records)[w].id = w
  <2>1. V!Later(records)[w] = CHOOSE r \in records : r.id = w
    BY <1>2 DEF V!Later
  <2>2. \E r \in records : r.id = w
    BY <1>1, <1>2
  <2>3. QED BY <2>1, <2>2, Zenon
<1>3. QED BY <1>1, <1>2

\* A network is asked for what the dispatch asked for, chunk by chunk.
LEMMA ChunkIsAsked ==
  ASSUME FlowsAssumption, backend = "network"
  PROVE  V!Chunk \subseteq AskedFor /\ V!Chunks = NetworkChunks
<1>1. V!Wanted = V!Distinct(Asked)
  BY DEF V!Wanted
<1>2. Asked \in Seq(V!ToSet(Asked))
  BY FlowsAssumption DEF FlowsAssumption, V!ResolverAssumption
<1>3. \A i \in DOMAIN V!Distinct(Asked) : \E k \in DOMAIN Asked : V!Distinct(Asked)[i] = Asked[k]
  BY <1>2, DistinctHolds
<1>4. V!Chunk \subseteq AskedFor
  BY <1>1, <1>3 DEF V!Chunk, AskedFor
<1>5. QED BY <1>1, <1>4 DEF V!Chunks, NetworkChunks

\* What an answer leaves of the lookup: the end of it, or its next chunk.
LEMMA LookupAdvances ==
  ASSUME FlowsAssumption, LookupInv, stage = "lookup", NEW f, \A w \in DOMAIN f : f[w] \in Records,
         backend = "network" => FoundIs(f, answered'), backend = "network" /\ NetworkChunks = 0 => answered' = {},
         backend' = backend, registry' = registry, schemas' = schemas, columns' \in BOOLEAN, V!Advance(f)
  PROVE  LookupInv' /\ stage' \in {"lookup", "plan"}
<1>1. CASE stage' = "lookup"
  <2>1. found' = f
    BY <1>1 DEF V!Advance
  <2>2. QED BY <1>1, <2>1 DEF LookupInv
<1>2. CASE stage' = "plan" /\ backend = "network"
  <2>1. found' = f
    BY <1>2 DEF V!Advance
  <2>2. DOMAIN f \subseteq AskedFor
    BY <1>2 DEF FoundIs
  <2>3. \A w \in DOMAIN f : f[w].plan \in Texts
    BY DEF Texts
  <2>4. QED BY <1>2, <2>1, <2>2, <2>3 DEF LookupInv
<1>3. CASE stage' = "plan" /\ backend # "network"
  <2>1. found' = V!ByWire(f)
    BY <1>3 DEF V!Advance, LookupInv
  <2>2. \A r \in Records : "plan" \in DOMAIN r
    BY FlowsAssumption DEF FlowsAssumption, V!ResolverAssumption
  <2>3. DOMAIN V!ByWire(f) \subseteq AskedFor
    BY DEF V!ByWire, V!ToSet, AskedFor
  <2>4. ASSUME NEW w \in DOMAIN V!ByWire(f) PROVE V!ByWire(f)[w].plan \in Texts
    <3>1. Canonical[w] \in DOMAIN f /\ V!ByWire(f)[w] = [f[Canonical[w]] EXCEPT !.id = w]
      BY <2>4 DEF V!ByWire
    <3>2. f[Canonical[w]] \in Records
      BY <3>1
    <3>3. V!ByWire(f)[w].plan = f[Canonical[w]].plan
      BY <2>2, <3>1, <3>2
    <3>4. QED BY <3>2, <3>3 DEF Texts
  <2>5. QED BY <1>3, <2>1, <2>3, <2>4 DEF LookupInv
<1>4. stage' \in {"lookup", "plan"}
  BY DEF V!Advance
<1>5. QED BY <1>1, <1>2, <1>3, <1>4

\* Before the calls nothing waits, runs or was learnt.
LEMMA JobsIdle ==
  ASSUME FlowsAssumption, JobsInv, RenderInv, stage \in {"lookup", "plan"}, stage' \in {"lookup", "plan", "thrown"},
         planned' \in {planned} \cup SUBSET DOMAIN Def, UNCHANGED <<queue, running, outcomes, fetched, rendered, stirred>>
  PROVE  JobsInv' /\ RenderInv'
<1>1. queue = {} /\ running = {} /\ outcomes = <<>> /\ fetched = <<>> /\ rendered = <<>> /\ ~stirred
  BY DEF JobsInv, RenderInv
<1>2. JobsInv'
  <2>1. IsFiniteSet({}) /\ Cardinality({}) = 0 /\ Concurrency \in Nat
    BY FS_EmptySet, FlowsAssumption DEF FlowsAssumption, V!ResolverAssumption
  <2>2. QED BY <1>1, <2>1 DEF JobsInv
<1>3. RenderInv'
  BY <1>1 DEF RenderInv, V!CountsAgree
<1>4. QED BY <1>2, <1>3

LEMMA ValuesAnswered == FlowsAssumption /\ ValuesInv /\ V!Answered => ValuesInv'
<1> SUFFICES ASSUME FlowsAssumption, ValuesInv, V!Answered PROVE ValuesInv'
  OBVIOUS
<1>1. stage = "lookup" /\ V!Chunks > 0 /\ LookupInv /\ JobsInv /\ RenderInv
  BY DEF V!Answered, ValuesInv
<1>2. PICK A \in V!Answers : V!Advance(V!Over(V!Taken(A), found)) /\ answered' = answered \cup {<<V!Chunk, A>>}
  BY DEF V!Answered
<1> DEFINE T == V!Taken(A)
           f == V!Over(T, found)
           kept == {r \in A : r.reachable /\ r.id \in V!Chunk}
<1>3. A \subseteq Records
  BY DEF V!Answers
<1>4. \A w \in DOMAIN T : T[w] \in A /\ T[w].id = w
  <2>1. \A R, w : w \in DOMAIN V!Later(R) => V!Later(R)[w] \in R /\ V!Later(R)[w].id = w
    BY LaterIs
  <2>2. T = V!Later(kept) \/ T = V!Later(A)
    BY DEF V!Taken
  <2> HIDE DEF T
  <2>3. QED BY <2>1, <2>2
<1>5. backend = "network" =>
        /\ DOMAIN T = {r.id : r \in kept}
        /\ \A w \in DOMAIN T : T[w] \in kept
  <2>1. backend = "network" => T = V!Later(kept)
    BY DEF V!Taken
  <2>2. \A R : DOMAIN V!Later(R) = {r.id : r \in R} /\ \A w \in DOMAIN V!Later(R) : V!Later(R)[w] \in R
    BY LaterIs
  <2> HIDE DEF T, kept
  <2>3. QED BY <2>1, <2>2
<1> HIDE DEF T
<1>6. DOMAIN f = DOMAIN T \cup DOMAIN found /\ \A w \in DOMAIN f : f[w] = IF w \in DOMAIN T THEN T[w] ELSE found[w]
  BY DEF V!Over
<1> HIDE DEF f
<1>7. \A w \in DOMAIN f : f[w] \in Records
  BY <1>1, <1>3, <1>4, <1>6 DEF LookupInv
<1>8. ASSUME backend = "network" PROVE FoundIs(f, answered')
  <2>1. V!Chunk \subseteq AskedFor
    BY <1>8, ChunkIsAsked
  <2>2. FoundIs(found, answered)
    BY <1>1, <1>8 DEF LookupInv
  <2> DEFINE a == <<V!Chunk, A>>
  <2>3. a[1] = V!Chunk /\ a[2] = A /\ a \in answered' /\ answered \subseteq answered' /\ \A b \in answered' : b \in answered \/ b = a
    BY <1>2
  <2> HIDE DEF a
  <2>4. ASSUME NEW w \in DOMAIN f
        PROVE  /\ w \in AskedFor
               /\ \E b \in answered' : w \in b[1] /\ \E r \in b[2] : r.id = w /\ r.reachable
               /\ \E b \in answered' : w \in b[1] /\ f[w] \in b[2]
    <3>1. CASE w \in DOMAIN T
      <4>1. f[w] \in A /\ f[w].id = w /\ f[w].reachable /\ w \in V!Chunk
        BY <1>4, <1>5, <1>6, <1>8, <3>1
      <4>2. w \in a[1] /\ f[w] \in a[2] /\ a \in answered'
        BY <2>3, <4>1
      <4>3. \E r \in a[2] : r.id = w /\ r.reachable
        BY <4>1, <4>2
      <4>4. w \in AskedFor
        BY <2>1, <4>1
      <4>5. QED BY <4>2, <4>3, <4>4
    <3>2. CASE w \notin DOMAIN T
      <4>1. w \in DOMAIN found /\ f[w] = found[w]
        BY <1>6, <2>4, <3>2
      <4>2. /\ w \in AskedFor
            /\ \E b \in answered : w \in b[1] /\ \E r \in b[2] : r.id = w /\ r.reachable
            /\ \E b \in answered : w \in b[1] /\ found[w] \in b[2]
        BY <2>2, <4>1 DEF FoundIs
      <4>3. QED BY <2>3, <4>1, <4>2
    <3>3. QED BY <3>1, <3>2
  <2>5. ASSUME NEW w \in AskedFor, NEW b \in answered', w \in b[1], NEW r \in b[2], r.id = w, r.reachable
        PROVE  w \in DOMAIN f
    <3>1. CASE b \in answered
      BY <1>6, <2>2, <2>5, <3>1 DEF FoundIs
    <3>2. CASE b = a
      BY <1>5, <1>6, <1>8, <2>3, <2>5, <3>2
    <3>3. QED BY <2>3, <3>1, <3>2
  <2>6. QED BY <2>4, <2>5 DEF FoundIs
<1>9. backend = "network" => NetworkChunks # 0
  BY <1>1, ChunkIsAsked
<1>10. columns' \in BOOLEAN
  BY <1>1 DEF V!Answered, V!Probe, LookupInv
<1>11. UNCHANGED <<backend, registry, schemas, planned, queue, running, outcomes, fetched, rendered, stirred>>
  BY DEF V!Answered
<1>12. V!Advance(f)
  BY <1>2 DEF f, T
<1>13. LookupInv' /\ stage' \in {"lookup", "plan"}
  BY <1>1, <1>7, <1>8, <1>9, <1>10, <1>11, <1>12, LookupAdvances
<1>14. JobsInv' /\ RenderInv'
  BY <1>1, <1>11, <1>13, JobsIdle
<1>15. QED BY <1>13, <1>14 DEF ValuesInv

LEMMA ValuesUnanswered == FlowsAssumption /\ ValuesInv /\ V!Unanswered => ValuesInv'
<1> SUFFICES ASSUME FlowsAssumption, ValuesInv, V!Unanswered PROVE ValuesInv'
  OBVIOUS
<1>1. stage = "lookup" /\ LookupInv /\ JobsInv /\ RenderInv
  BY DEF V!Unanswered, ValuesInv
<1>2. UNCHANGED <<backend, registry, columns, schemas, answered, planned, queue, running, outcomes, fetched, rendered, stirred>>
  BY DEF V!Unanswered
<1>3. CASE UNCHANGED <<found, stage>>
  <2>1. LookupInv'
    BY <1>1, <1>2, <1>3 DEF LookupInv
  <2>2. JobsInv' /\ RenderInv'
    BY <1>1, <1>2, <1>3, JobsIdle
  <2>3. QED BY <2>1, <2>2 DEF ValuesInv
<1>4. CASE V!Advance(found)
  <2>1. \A w \in DOMAIN found : found[w] \in Records
    BY <1>1 DEF LookupInv
  <2>2. backend = "network" => FoundIs(found, answered')
    BY <1>1, <1>2 DEF LookupInv
  <2>3. backend = "network" /\ NetworkChunks = 0 => answered' = {}
    BY <1>1, <1>2 DEF LookupInv
  <2>4. columns' \in BOOLEAN
    BY <1>1, <1>2 DEF LookupInv
  <2>5. LookupInv' /\ stage' \in {"lookup", "plan"}
    BY <1>1, <1>2, <1>4, <2>1, <2>2, <2>3, <2>4, LookupAdvances
  <2>6. JobsInv' /\ RenderInv'
    BY <1>1, <1>2, <2>5, JobsIdle
  <2>7. QED BY <2>5, <2>6 DEF ValuesInv
<1>5. QED BY <1>3, <1>4 DEF V!Unanswered

LEMMA ValuesNothingToAsk == FlowsAssumption /\ ValuesInv /\ (V!SqlFails \/ V!NothingToAsk) => ValuesInv'
<1> SUFFICES ASSUME FlowsAssumption, ValuesInv, V!SqlFails \/ V!NothingToAsk PROVE ValuesInv'
  OBVIOUS
<1>1. stage = "lookup" /\ LookupInv /\ JobsInv /\ RenderInv
  BY DEF V!SqlFails, V!NothingToAsk, ValuesInv
<1>2. UNCHANGED <<backend, registry, columns, schemas, answered, planned, queue, running, outcomes, fetched, rendered, stirred>>
  BY DEF V!SqlFails, V!NothingToAsk
<1>3. CASE V!SqlFails
  <2>1. stage' = "thrown" /\ found' = found
    BY <1>3 DEF V!SqlFails
  <2>2. LookupInv'
    BY <1>1, <1>2, <2>1 DEF LookupInv
  <2>3. JobsInv' /\ RenderInv'
    BY <1>1, <1>2, <2>1, JobsIdle
  <2>4. QED BY <2>2, <2>3 DEF ValuesInv
<1>4. CASE V!NothingToAsk
  <2>1. stage' = "plan"
    BY <1>4 DEF V!NothingToAsk
  <2>2. JobsInv' /\ RenderInv'
    BY <1>1, <1>2, <2>1, JobsIdle
  <2>3. CASE backend = "mock"
    <3>1. found' = [w \in AskedFor |-> [id |-> w, reachable |-> TRUE, plan |-> V!EmptyText]]
      BY <1>4, <2>3 DEF V!NothingToAsk, AskedFor, V!ToSet
    <3>2. DOMAIN found' = AskedFor /\ \A w \in AskedFor : found'[w].plan \in Texts
      BY <3>1 DEF Texts
    <3>3. LookupInv'
      BY <1>1, <1>2, <2>1, <2>3, <3>2 DEF LookupInv
    <3>4. QED BY <2>2, <3>3 DEF ValuesInv
  <2>4. CASE backend # "mock"
    <3>1. found' = <<>> /\ V!Chunks = 0
      BY <1>4, <2>4 DEF V!NothingToAsk
    <3>2. DOMAIN found' = {}
      BY <3>1
    <3>3. backend = "network" => answered = {}
      BY <1>1, <3>1, ChunkIsAsked DEF LookupInv
    <3>4. backend = "network" => FoundIs(found', answered')
      BY <1>2, <3>2, <3>3 DEF FoundIs
    <3>5. LookupInv'
      BY <1>1, <1>2, <2>1, <3>2, <3>3, <3>4 DEF LookupInv
    <3>6. QED BY <2>2, <3>5 DEF ValuesInv
  <2>5. QED BY <2>3, <2>4
<1>5. QED BY <1>3, <1>4

LEMMA ValuesPlan == FlowsAssumption /\ ValuesInv /\ V!Plan => ValuesInv'
<1> SUFFICES ASSUME FlowsAssumption, ValuesInv, V!Plan PROVE ValuesInv'
  OBVIOUS
<1> DEFINE ns == {n \in registry : V!Dynamic(n)}
<1>1. stage = "plan" /\ LookupInv /\ JobsInv /\ RenderInv
  BY DEF V!Plan, ValuesInv
<1>2. UNCHANGED <<backend, registry, columns, found, answered, running, outcomes, fetched, rendered, stirred, used>>
  BY DEF V!Plan
<1>3. PICK loaded \in BOOLEAN :
        /\ schemas' = loaded /\ planned' = ns
        /\ LET live == {n \in ns : ~V!Skipped(n, loaded)} IN
           \/ stage' = "thrown" /\ UNCHANGED queue
           \/ stage' = "resolve" /\ \E jobs \in SUBSET V!Needs(live, loaded) : V!OnePerKey(jobs, V!Needs(live, loaded)) /\ queue' = jobs
  BY Zenon DEF V!Plan
<1>4. planned' \in SUBSET DOMAIN Def
  BY <1>1, <1>3 DEF LookupInv
<1>5. stage' \in {"thrown", "resolve"}
  BY <1>3
<1>6. LookupInv'
  BY <1>1, <1>2, <1>3, <1>5 DEF LookupInv
<1>7. CASE stage' = "thrown" /\ UNCHANGED queue
  <2>1. JobsInv' /\ RenderInv'
    BY <1>1, <1>2, <1>4, <1>7, JobsIdle
  <2>2. QED BY <1>6, <2>1 DEF ValuesInv
<1>8. CASE stage' = "resolve" /\ ~(UNCHANGED queue /\ stage' = "thrown")
  <2> DEFINE live == {n \in ns : ~V!Skipped(n, loaded)}
  <2>1. V!OnePerKey(queue', V!Needs(live, loaded))
    BY <1>3, <1>8
  <2>2. running' = {} /\ outcomes' = <<>> /\ fetched' = <<>> /\ rendered' = <<>> /\ ~stirred'
    BY <1>1, <1>2 DEF JobsInv, RenderInv
  <2>3. ASSUME NEW j \in queue'
        PROVE  j.key = KeyOf(j.name, j.inputs) /\ JobOK(j.name, j.inputs, loaded, columns, found)
    <3>1. PICK n \in live, w \in DOMAIN found : j = [key |-> V!Key(n, w, loaded), name |-> n, inputs |-> V!Inputs(n, w, loaded)]
      BY <2>1, <2>3 DEF V!OnePerKey, V!Needs
    <3>2. j.name = n /\ j.inputs = InputsOf(n, w, loaded, columns, found) /\ j.key = KeyOf(n, InputsOf(n, w, loaded, columns, found))
      BY <3>1, InputsAre
    <3>3. n \in DOMAIN Def /\ ~V!Skipped(n, loaded)
      BY <1>1 DEF LookupInv
    <3>4. QED BY <3>2, <3>3 DEF JobOK
  <2>4. \A i, j \in queue' : i.key = j.key => i = j
    BY <2>1 DEF V!OnePerKey
  <2>5. JobsInv'
    <3>1. IsFiniteSet({}) /\ Cardinality({}) = 0 /\ Concurrency \in Nat
      BY FS_EmptySet, FlowsAssumption DEF FlowsAssumption, V!ResolverAssumption
    <3>2. schemas' = loaded /\ columns' = columns /\ found' = found
      BY <1>2, <1>3
    <3> HIDE DEF live, ns
    <3>3. QED BY <1>4, <1>8, <2>2, <2>3, <2>4, <3>1, <3>2 DEF JobsInv
  <2>6. RenderInv'
    BY <1>8, <2>2 DEF RenderInv, V!CountsAgree
  <2>7. QED BY <1>6, <2>5, <2>6 DEF ValuesInv
<1>9. QED BY <1>3, <1>7, <1>8

LEMMA ValueSets == \A S : V!Cardinality(S) = Cardinality(S)
<1>1. ASSUME NEW S PROVE V!Cardinality(S) = Cardinality(S)
  BY DEF V!Cardinality, Cardinality
<1>2. QED BY <1>1

LEMMA ValuesStartJob == FlowsAssumption /\ ValuesInv /\ V!Start => ValuesInv'
<1> SUFFICES ASSUME FlowsAssumption, ValuesInv, V!Start PROVE ValuesInv'
  OBVIOUS
<1>1. stage = "resolve" /\ LookupInv /\ JobsInv /\ RenderInv
  BY DEF V!Start, ValuesInv
<1>2. PICK j \in queue : /\ running' = running \cup {j} /\ queue' = queue \ {j}
                         /\ fetched' = Append(fetched, [name |-> j.name, inputs |-> j.inputs])
  <2> DEFINE j == CHOOSE job \in queue : TRUE
  <2>1. queue # {} /\ j \in queue
    BY DEF V!Start
  <2>2. running' = running \cup {j} /\ queue' = queue \ {j} /\ fetched' = Append(fetched, [name |-> j.name, inputs |-> j.inputs])
    BY DEF V!Start
  <2> HIDE DEF j
  <2>3. QED BY <2>1, <2>2
<1>3. UNCHANGED <<backend, registry, stage, columns, found, planned, schemas, outcomes, used, rendered, answered, stirred>>
  BY DEF V!Start
<1>4. LookupInv'
  BY <1>1, <1>3 DEF LookupInv
<1>5. RenderInv'
  BY <1>1, <1>3, SourcesStay DEF RenderInv, V!CountsAgree, V!Countable
<1>6. IsFiniteSet(running') /\ Cardinality(running') <= Concurrency
  <2>1. Cardinality(running) < Concurrency /\ Concurrency \in Nat
    BY ValueSets, FlowsAssumption DEF V!Start, FlowsAssumption, V!ResolverAssumption
  <2>2. IsFiniteSet(running) /\ Cardinality(running) \in Nat
    BY <1>1, FS_CardinalityType DEF JobsInv
  <2>3. /\ IsFiniteSet(running \cup {j})
        /\ Cardinality(running \cup {j}) = IF j \in running THEN Cardinality(running) ELSE Cardinality(running) + 1
    BY <2>2, FS_AddElement
  <2>4. running' = running \cup {j}
    BY <1>2
  <2>5. QED BY <2>1, <2>2, <2>3, <2>4
<1> DEFINE call == [name |-> j.name, inputs |-> j.inputs]
           T == {fetched[i] : i \in DOMAIN fetched}
<1>7. fetched \in Seq(T) /\ Len(fetched) \in Nat /\ DOMAIN fetched = 1 .. Len(fetched)
  BY <1>1 DEF JobsInv
<1>8. /\ DOMAIN fetched' = 1 .. (Len(fetched) + 1) /\ Len(fetched') = Len(fetched) + 1
      /\ \A i \in 1 .. Len(fetched) : fetched'[i] = fetched[i]
      /\ fetched'[Len(fetched) + 1] = call
  <2>1. call \in T \cup {call} /\ fetched \in Seq(T \cup {call})
    BY <1>7
  <2> HIDE DEF T, call
  <2>2. fetched' = Append(fetched, call)
    BY <1>2 DEF call
  <2>3. QED BY <2>1, <2>2
<1>9. fetched' \in Seq({fetched'[i] : i \in DOMAIN fetched'})
  <2>1. Append(fetched, call) \in Seq(T \cup {call})
    BY <1>7
  <2>2. Append(fetched, call) = fetched'
    BY <1>2
  <2>3. \A s, S : s \in Seq(S) => s \in Seq({s[i] : i \in DOMAIN s})
    OBVIOUS
  <2>4. QED BY <2>1, <2>2, <2>3
<1>10. call.name = j.name /\ call.inputs = j.inputs
  OBVIOUS
<1>11. j.key = KeyOf(j.name, j.inputs) /\ JobOK(j.name, j.inputs, schemas, columns, found)
  BY <1>1 DEF JobsInv
<1> HIDE DEF call, T
<1>12. \A i \in DOMAIN fetched' : JobOK(fetched'[i].name, fetched'[i].inputs, schemas, columns, found)
  <2>1. \A i \in DOMAIN fetched : JobOK(fetched[i].name, fetched[i].inputs, schemas, columns, found)
    BY <1>1 DEF JobsInv
  <2>2. QED BY <1>7, <1>8, <1>10, <1>11, <2>1
<1>13. \A i \in DOMAIN fetched' : \A k \in queue' : k.key # KeyOf(fetched'[i].name, fetched'[i].inputs)
  <2>1. \A i \in DOMAIN fetched : \A k \in queue : k.key # KeyOf(fetched[i].name, fetched[i].inputs)
    BY <1>1 DEF JobsInv
  <2>2. \A k \in queue' : k \in queue /\ k.key # j.key
    BY <1>1, <1>2 DEF JobsInv
  <2>3. QED BY <1>7, <1>8, <1>10, <1>11, <2>1, <2>2
<1>14. \A h, i \in DOMAIN fetched' : fetched'[h] = fetched'[i] => h = i
  <2>1. \A h, i \in DOMAIN fetched : fetched[h] = fetched[i] => h = i
    BY <1>1 DEF JobsInv
  <2>2. \A i \in DOMAIN fetched : fetched[i] # call
    BY <1>1, <1>10, <1>11 DEF JobsInv
  <2>3. QED BY <1>7, <1>8, <2>1, <2>2
<1>15. \A k \in queue' \cup running' : k \in queue \cup running
  BY <1>2
<1>16. JobsInv'
  <2>1. schemas' = schemas /\ columns' = columns /\ found' = found /\ stage' = stage /\ outcomes' = outcomes /\ planned' = planned
    BY <1>3
  <2>2. /\ planned \subseteq DOMAIN Def /\ \A i, k \in queue : i.key = k.key => i = k
        /\ \A k \in queue \cup running : k.key = KeyOf(k.name, k.inputs) /\ JobOK(k.name, k.inputs, schemas, columns, found)
        /\ \A k \in DOMAIN outcomes : OutcomeOK(k, outcomes[k].inputs, schemas, columns, found)
    BY <1>1 DEF JobsInv
  <2>3. \A i, k \in queue' : i.key = k.key => i = k
    BY <1>2, <2>2
  <2>4. \A k \in queue' \cup running' : k.key = KeyOf(k.name, k.inputs) /\ JobOK(k.name, k.inputs, schemas, columns, found)
    BY <1>15, <2>2
  <2>5. QED BY <1>1, <1>6, <1>9, <1>12, <1>13, <1>14, <2>1, <2>2, <2>3, <2>4 DEF JobsInv
<1>17. QED BY <1>4, <1>5, <1>16 DEF ValuesInv

LEMMA ValuesFinish == FlowsAssumption /\ ValuesInv /\ (\E j \in running : V!Finish(j)) => ValuesInv'
<1> SUFFICES ASSUME FlowsAssumption, ValuesInv, NEW j \in running, V!Finish(j) PROVE ValuesInv'
  OBVIOUS
<1>1. stage = "resolve" /\ LookupInv /\ JobsInv /\ RenderInv
  BY DEF ValuesInv, JobsInv
<1>2. UNCHANGED <<backend, registry, stage, columns, found, planned, schemas, queue, fetched, used, rendered, answered, stirred>>
  BY DEF V!Finish
<1>3. running' = running \ {j}
  BY DEF V!Finish
<1>4. PICK yields : outcomes' = V!Over([k \in {j.key} |-> [inputs |-> j.inputs, yields |-> yields]], outcomes)
  BY DEF V!Finish
<1>5. /\ DOMAIN outcomes' \subseteq DOMAIN outcomes \cup {j.key}
      /\ outcomes'[j.key].inputs = j.inputs
      /\ \A k \in DOMAIN outcomes' : k # j.key => outcomes'[k] = outcomes[k]
  BY <1>4 DEF V!Over
<1>6. LookupInv'
  BY <1>1, <1>2 DEF LookupInv
<1>7. RenderInv'
  BY <1>1, <1>2, SourcesStay DEF RenderInv, V!CountsAgree, V!Countable
<1>8. IsFiniteSet(running') /\ Cardinality(running') <= Concurrency
  <2>1. IsFiniteSet(running) /\ Cardinality(running) <= Concurrency /\ Concurrency \in Nat
    BY <1>1, FlowsAssumption DEF JobsInv, FlowsAssumption, V!ResolverAssumption
  <2>2. running' \subseteq running
    BY <1>3
  <2>3. IsFiniteSet(running') /\ Cardinality(running') <= Cardinality(running)
    BY <2>1, <2>2, FS_Subset
  <2>4. Cardinality(running) \in Nat /\ Cardinality(running') \in Nat
    BY <2>1, <2>3, FS_CardinalityType
  <2>5. QED BY <2>1, <2>3, <2>4
<1>9. \A k \in DOMAIN outcomes' : OutcomeOK(k, outcomes'[k].inputs, schemas, columns, found)
  <2>1. OutcomeOK(j.key, j.inputs, schemas, columns, found)
    BY <1>1 DEF JobsInv, JobOK, OutcomeOK
  <2>2. \A k \in DOMAIN outcomes : OutcomeOK(k, outcomes[k].inputs, schemas, columns, found)
    BY <1>1 DEF JobsInv
  <2>3. QED BY <1>5, <2>1, <2>2
<1>10. JobsInv'
  BY <1>1, <1>2, <1>3, <1>8, <1>9 DEF JobsInv
<1>11. QED BY <1>6, <1>7, <1>10 DEF ValuesInv

LEMMA ValuesSwap == ValuesInv /\ V!Swap => ValuesInv'
<1> SUFFICES ASSUME ValuesInv, V!Swap PROVE ValuesInv'
  OBVIOUS
<1>1. LookupInv /\ JobsInv /\ RenderInv
  BY DEF ValuesInv
<1>2. UNCHANGED <<backend, stage, columns, found, planned, schemas, queue, running, outcomes, fetched, used, rendered, answered>>
  BY DEF V!Swap
<1>3. registry' \subseteq DOMAIN Def /\ stirred' = (stirred \/ stage = "render")
  BY DEF V!Swap, V!Names
<1>4. LookupInv'
  BY <1>1, <1>2, <1>3 DEF LookupInv
<1>5. JobsInv'
  BY <1>1, <1>2 DEF JobsInv
<1>6. RenderInv'
  <2>1. V!CountsAgree'
    BY <1>1, <1>2, <1>3, SourcesStay DEF RenderInv, V!CountsAgree
  <2>2. QED BY <1>1, <1>2, <1>3, <2>1, SourcesStay DEF RenderInv
<1>7. QED BY <1>4, <1>5, <1>6 DEF ValuesInv

LEMMA ValuesResolved == ValuesInv /\ V!Resolved => ValuesInv'
<1> SUFFICES ASSUME ValuesInv, V!Resolved PROVE ValuesInv'
  OBVIOUS
<1>1. LookupInv /\ JobsInv /\ RenderInv
  BY DEF ValuesInv
<1>2. UNCHANGED <<backend, registry, columns, found, planned, schemas, queue, running, outcomes, fetched, rendered, answered, stirred>>
  BY DEF V!Resolved
<1>3. stage = "resolve" /\ queue = {} /\ running = {} /\ used' = V!Countable(registry) /\ stage' = "render"
  BY DEF V!Resolved
<1>4. LookupInv'
  BY <1>1, <1>2, <1>3 DEF LookupInv
<1>5. JobsInv'
  BY <1>1, <1>2, <1>3 DEF JobsInv
<1>6. RenderInv'
  <2>1. rendered' = <<>> /\ ~stirred'
    BY <1>1, <1>2, <1>3 DEF RenderInv
  <2>2. used' = V!Countable(registry')
    BY <1>2, <1>3
  <2>3. V!CountsAgree'
    BY <2>1 DEF V!CountsAgree
  <2>4. QED BY <1>3, <2>1, <2>2, <2>3 DEF RenderInv
<1>7. QED BY <1>4, <1>5, <1>6 DEF ValuesInv

\* What is yielded to a recipient was computed from its own inputs.
LEMMA YieldIsOwn ==
  ASSUME V!WordsApart, LookupInv, JobsInv, stage = "render", NEW w \in DOMAIN found, NEW t, t[1] \in DOMAIN Def,
         V!Yield(w, t) # V!Fallback
  PROVE  V!Yield(w, t).of = InputsOf(t[1], w, schemas, columns, found)
<1> DEFINE own == InputsOf(t[1], w, schemas, columns, found)
           k == V!Key(t[1], w, schemas)
<1>1. k \in DOMAIN outcomes /\ V!Yield(w, t) = V!Own(outcomes[k].inputs)
  BY DEF V!Yield
<1>2. k = KeyOf(t[1], own)
  BY InputsAre
<1> HIDE DEF k
<1>3. PICK n \in DOMAIN Def, v \in DOMAIN found :
        k = KeyOf(n, outcomes[k].inputs) /\ outcomes[k].inputs = InputsOf(n, v, schemas, columns, found)
  BY <1>1 DEF JobsInv, OutcomeOK
<1>4. /\ columns \in BOOLEAN /\ schemas \in BOOLEAN /\ DOMAIN found \subseteq AskedFor
      /\ \A u \in DOMAIN found : found[u].plan \in {V!EmptyText} \cup {r.plan : r \in Records}
  BY DEF LookupInv, Texts
<1>5. own \in V!Readings(t[1])
  BY <1>4, InputsAreReadings
<1>6. outcomes[k].inputs \in V!Readings(n)
  <2>1. InputsOf(n, v, schemas, columns, found) \in V!Readings(n)
    BY <1>4, InputsAreReadings
  <2>2. QED BY <1>3, <2>1
<1> HIDE DEF own
<1>7. outcomes[k].inputs = own
  BY <1>2, <1>3, <1>5, <1>6, KeysTellInputs
<1>8. V!Own(own).of = own
  BY DEF V!Own
<1>9. QED BY <1>1, <1>7, <1>8 DEF own

LEMMA TextIsOwn ==
  ASSUME V!WordsApart, LookupInv, JobsInv, stage = "render", NEW w \in DOMAIN found, NEW t,
         V!Text(w, t).kind = "value", V!Dynamic(t[1])
  PROVE  V!Text(w, t).of = InputsOf(t[1], w, schemas, columns, found)
<1>1. V!Fallback.kind # "value" /\ V!Raw.kind # "value"
  BY DEF V!Fallback, V!Raw
<1>2. V!Text(w, t) = V!Yield(w, t) /\ (t \in V!Tokens \/ t[1] \in registry)
  <2>1. CASE t[2] = "" /\ t[1] \in registry
    <3>1. V!Text(w, t) = V!Placeholder(w, t)
      BY <2>1 DEF V!Text
    <3>2. V!Placeholder(w, t) = IF t \in V!Tokens THEN V!Yield(w, t) ELSE V!Fallback
      BY DEF V!Placeholder
    <3>3. QED BY <1>1, <2>1, <3>1, <3>2
  <2>2. CASE ~(t[2] = "" /\ t[1] \in registry)
    <3>1. V!Text(w, t) \in {V!Fallback, V!Raw} \/ (t \in V!Tokens /\ V!Text(w, t) = V!Yield(w, t))
      BY <2>2 DEF V!Text
    <3>2. QED BY <1>1, <3>1
  <2>3. QED BY <2>1, <2>2
<1>3. ASSUME t \in V!Tokens PROVE t[1] \in planned
  <2>1. PICK n \in planned : t \in {<<n, p>> : p \in {""} \cup V!Paths(n)}
    BY <1>3 DEF V!Tokens
  <2>2. PICK p : t = <<n, p>>
    BY <2>1
  <2>3. QED BY <2>2
<1>4. t[1] \in DOMAIN Def
  BY <1>2, <1>3 DEF LookupInv, JobsInv
<1>5. V!Yield(w, t) # V!Fallback
  BY <1>1, <1>2
<1>6. QED BY <1>2, <1>4, <1>5, YieldIsOwn

\* While the registry stays, what is counted as a fallback is rendered as one.
LEMMA CountedIsRendered ==
  ASSUME NEW w, NEW t \in V!Countable(registry)
  PROVE  t \in Content /\ t[1] \in registry /\ (V!Placeholder(w, t) = V!Fallback <=> V!Text(w, t) = V!Fallback)
<1>1. t \in Content /\ t[1] \in registry /\ (t[2] # "" => Def[t[1]].source = "api")
  BY DEF V!Countable
<1>2. CASE t[2] = ""
  BY <1>1, <1>2 DEF V!Text
<1>3. CASE t[2] # ""
  <2>1. V!Dynamic(t[1])
    BY <1>1, <1>3 DEF V!Dynamic, V!Source, V!Inactive
  <2>2. V!Placeholder(w, t) = IF t \in V!Tokens THEN V!Yield(w, t) ELSE V!Fallback
    BY <2>1 DEF V!Placeholder
  <2>3. V!Text(w, t) = IF t \in V!Tokens THEN V!Yield(w, t) ELSE V!Fallback
    BY <1>1, <1>3 DEF V!Text
  <2>4. QED BY <1>1, <2>2, <2>3
<1>4. QED BY <1>2, <1>3

LEMMA ValuesRender == V!WordsApart /\ ValuesInv /\ V!Render => ValuesInv'
<1> SUFFICES ASSUME V!WordsApart, ValuesInv, V!Render PROVE ValuesInv'
  OBVIOUS
<1>1. stage = "render" /\ LookupInv /\ JobsInv /\ RenderInv
  BY DEF V!Render, ValuesInv
<1>2. UNCHANGED <<backend, registry, columns, found, planned, schemas, queue, running, outcomes, fetched, used, answered, stirred>>
  BY DEF V!Render
<1>3. stage' \in {"render", "done"}
  BY <1>1 DEF V!Render
<1>4. LookupInv'
  BY <1>1, <1>2, <1>3 DEF LookupInv
<1>5. JobsInv'
  BY <1>1, <1>2, <1>3 DEF JobsInv
<1>6. CASE UNCHANGED rendered
  <2>1. V!CountsAgree'
    BY <1>1, <1>2, <1>6, SourcesStay DEF RenderInv, V!CountsAgree
  <2>2. RenderInv'
    <3>1. V!Countable(registry) = V!Countable(registry')
      BY <1>2
    <3>2. QED BY <1>1, <1>2, <1>3, <1>6, <2>1, <3>1, SourcesStay DEF RenderInv
  <2>3. QED BY <1>4, <1>5, <2>2 DEF ValuesInv
<1>7. CASE ~ UNCHANGED rendered
  <2> DEFINE w == Asked[position]
             output == [texts |-> [t \in Content |-> V!Text(w, t)], count |-> V!Count(w)]
  <2>1. w \in DOMAIN found /\ rendered' = V!Over([i \in {position} |-> output], rendered)
    BY <1>7 DEF V!Render
  <2>2. output.count = V!Count(w) /\ \A t \in Content : output.texts[t] = V!Text(w, t)
    OBVIOUS
  <2> HIDE DEF output
  <2>3. /\ DOMAIN rendered' = DOMAIN rendered \cup {position}
        /\ rendered'[position] = output
        /\ \A i \in DOMAIN rendered : i # position => rendered'[i] = rendered[i]
    BY <2>1 DEF V!Over
  <2>4. ASSUME ~stirred PROVE output.count = V!Cardinality({t \in used : output.texts[t] = V!Fallback /\ ~V!Unsaid(t[1])})
    <3>1. used = V!Countable(registry)
      BY <1>1, <2>4 DEF RenderInv
    <3>2. \A t \in used : t \in Content /\ t[1] \in registry /\ (V!Placeholder(w, t) = V!Fallback <=> V!Text(w, t) = V!Fallback)
      BY <3>1, CountedIsRendered
    <3>3. {t \in used : t[1] \in registry /\ V!Placeholder(w, t) = V!Fallback /\ ~V!Unsaid(t[1])}
            = {t \in used : output.texts[t] = V!Fallback /\ ~V!Unsaid(t[1])}
      BY <2>2, <3>2
    <3>4. V!Count(w) = V!Cardinality({t \in used : t[1] \in registry /\ V!Placeholder(w, t) = V!Fallback /\ ~V!Unsaid(t[1])})
      BY DEF V!Count
    <3>5. QED BY <2>2, <3>3, <3>4
  <2>5. V!CountsAgree'
    <3> SUFFICES ASSUME ~stirred', NEW i \in DOMAIN rendered'
                 PROVE  rendered'[i].count = V!Cardinality({t \in used' : rendered'[i].texts[t] = V!Fallback /\ ~V!Unsaid(t[1])})
      BY <1>2, SourcesStay DEF V!CountsAgree
    <3>1. used' = used /\ ~stirred
      BY <1>2
    <3>2. CASE i = position
      BY <2>3, <2>4, <3>1, <3>2
    <3>3. CASE i # position
      BY <1>1, <2>3, <3>1, <3>3 DEF RenderInv, V!CountsAgree
    <3>4. QED BY <3>2, <3>3
  <2>6. ASSUME NEW i \in DOMAIN rendered', NEW t \in Content, rendered'[i].texts[t].kind = "value", V!Dynamic(t[1])
        PROVE  rendered'[i].texts[t].of = InputsOf(t[1], Asked[i], schemas, columns, found)
    <3>1. CASE i = position
      <4>1. rendered'[i].texts[t] = V!Text(w, t)
        BY <2>2, <2>3, <3>1
      <4>2. V!Text(w, t).of = InputsOf(t[1], w, schemas, columns, found)
        BY <1>1, <2>1, <2>6, <4>1, TextIsOwn
      <4>3. QED BY <3>1, <4>1, <4>2
    <3>2. CASE i # position
      BY <1>1, <2>3, <2>6, <3>2 DEF RenderInv
    <3>3. QED BY <3>1, <3>2
  <2> HIDE DEF w
  <2>7. RenderInv'
    <3>1. V!Countable(registry) = V!Countable(registry')
      BY <1>2
    <3>2. QED BY <1>1, <1>2, <1>3, <2>5, <2>6, <3>1, SourcesStay DEF RenderInv
  <2>8. QED BY <1>4, <1>5, <2>7 DEF ValuesInv
<1>8. QED BY <1>6, <1>7

LEMMA ValuesStep == FlowsAssumption /\ V!WordsApart /\ ValuesInv /\ V!ResolverNext => ValuesInv'
BY ValuesSwap, ValuesAnswered, ValuesUnanswered, ValuesNothingToAsk, ValuesPlan, ValuesStartJob, ValuesResolved,
   ValuesRender, ValuesFinish DEF V!ResolverNext

LEMMA ValuesUnchanged == ValuesInv /\ UNCHANGED values => ValuesInv'
<1> SUFFICES ASSUME ValuesInv, UNCHANGED values PROVE ValuesInv'
  OBVIOUS
<1>1. LookupInv'
  BY DEF ValuesInv, LookupInv, values
<1>2. JobsInv'
  BY DEF ValuesInv, JobsInv, values
<1>3. RenderInv'
  <2>1. V!Countable(registry) = V!Countable(registry')
    BY DEF values
  <2>2. QED BY <2>1, SourcesStay DEF ValuesInv, RenderInv, V!CountsAgree, values
<1>4. QED BY <1>1, <1>2, <1>3 DEF ValuesInv

LEMMA ValuesInvSays == ValuesInv => V!ResolverSound
<1> SUFFICES ASSUME ValuesInv PROVE V!ResolverSound
  OBVIOUS
<1>1. LookupInv /\ JobsInv /\ RenderInv
  BY DEF ValuesInv
<1>2. V!OwnValuesOnly
  BY <1>1, InputsAre DEF RenderInv, V!OwnValuesOnly
<1>3. V!CallsAreFew
  <2>1. V!Cardinality(running) <= Concurrency
    BY <1>1, ValueSets DEF JobsInv
  <2>2. ASSUME NEW i \in DOMAIN fetched, Def[fetched[i].name].required, NEW k \in DOMAIN fetched[i].inputs,
               Def[fetched[i].name].reads[k] = "meta", fetched[i].inputs[k] = V!EmptyText
        PROVE  FALSE
    <3> DEFINE n == fetched[i].name
    <3>1. PICK w \in DOMAIN found : fetched[i].inputs = InputsOf(n, w, schemas, columns, found)
      BY <1>1 DEF JobsInv, JobOK
    <3>2. ~V!Skipped(n, schemas)
      BY <1>1 DEF JobsInv, JobOK
    <3>3. k \in DOMAIN Def[n].reads /\ fetched[i].inputs[k] = InputOf(w, Def[n].reads[k], schemas, columns, found)
      BY <2>2, <3>1 DEF InputsOf
    <3>4. fetched[i].inputs[k] = V!Meta(schemas)
      BY <2>2, <3>3 DEF InputOf
    <3>5. QED BY <2>2, <3>2, <3>3, <3>4 DEF V!Skipped
  <2>3. \A i, j \in DOMAIN fetched : fetched[i] = fetched[j] => i = j
    BY <1>1 DEF JobsInv
  <2>4. QED BY <2>1, <2>2, <2>3 DEF V!CallsAreFew
<1>4. V!LookupIsLocal
  <2>1. V!ToSet(Asked) = AskedFor
    BY DEF V!ToSet, AskedFor
  <2>2. QED BY <1>1, <2>1 DEF LookupInv, FoundIs, V!LookupIsLocal
<1>5. V!CountsAgree
  BY <1>1 DEF RenderInv
<1>6. QED BY <1>2, <1>3, <1>4, <1>5 DEF V!ResolverSound

\* For any directory, variables, recipients, workers and replacements of the registry, where the inputs
\* that run together in a header or a body still tell the calls apart: a recipient reads values computed
\* from its own inputs, no call is made twice or without a value it requires, a failed chunk costs its
\* own recipients, and the count of fallbacks is of those that were rendered, but for inactive variables
\* that have one (variables/resolver.ts, user-lookup/adapters/network.ts, personalize.ts).
THEOREM ResolverHoldsAlways == V!WordsApart => (MCSpec => []ResolverHolds)
<1> SUFFICES ASSUME V!WordsApart PROVE MCSpec => []ResolverHolds
  OBVIOUS
<1> DEFINE Inv == part = "values" => ValuesInv
<1>1. MCInit => Inv
  BY ValuesStart, FlowsAssumption DEF MCInit
<1>2. Inv /\ [MCNext]_<<part, vars, inbound, client, values, meter, settings>> => Inv'
  <2> SUFFICES ASSUME Inv, [MCNext]_<<part, vars, inbound, client, values, meter, settings>>, part' = "values" PROVE ValuesInv'
    OBVIOUS
  <2>1. CASE part = "values" /\ V!ResolverNext
    BY <2>1, ValuesStep, FlowsAssumption
  <2>2. CASE UNCHANGED <<part, values>>
    BY <2>2, ValuesUnchanged
  <2>3. QED BY <2>1, <2>2 DEF MCNext
<1>3. Inv => ResolverHolds
  BY ValuesInvSays DEF ResolverHolds
<1> HIDE DEF Inv
<1>4. QED BY <1>1, <1>2, <1>3, PTL DEF MCSpec
=============================================================================
