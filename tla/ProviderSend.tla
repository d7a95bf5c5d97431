---------------------------- MODULE ProviderSend ----------------------------
(***************************************************************************)
(* One dispatch run from its content to the providers' answers: the boot   *)
(* check of the senders, the choice of a template, the message built for   *)
(* each recipient, the request each provider client makes of it, what the  *)
(* client makes of the answer, and whether the next sender is asked.       *)
(* SenderFailover has the breakers and the order of the chain; here the    *)
(* chain is any order of the enabled senders.                              *)
(*                                                                         *)
(* A field of a sender is "inline" or "env" (the named variable is set),   *)
(* "unset" (it is not) or "none".  Texts and urls are named for where they *)
(* come from.                                                              *)
(***************************************************************************)
EXTENDS Naturals, Sequences, FiniteSets

CONSTANTS Yaml,       \* the lists of senders .env.yaml may hold
          Envs,       \* the environments: sets of the variables that are set
          Contents,   \* contents of a dispatch
          Recipients, \* the sequence of recipients
          OnTimeout,  \* routing.failover.on_timeout
          MaxAttempts \* routing.failover.max_attempts

ASSUME ProviderSendAssumption ==
    /\ OnTimeout \in BOOLEAN /\ MaxAttempts \in Nat \ {0}
    /\ \A list \in Yaml :
          /\ list \in Seq({list[i] : i \in DOMAIN list})
          /\ \A i \in DOMAIN list : /\ list[i].provider \in {"ses", "sendgrid", "gupshup", "freshchat"}
                                   /\ list[i].id \notin {"shared", "mixed", "nobody", "role"}
    /\ Recipients \in Seq({Recipients[r] : r \in DOMAIN Recipients})

VARIABLES env,      \* the variables that are set
          senders,  \* the senders in the order of the file
          content,  \* the content, with its first image
          pc,       \* where the run is
          todo,     \* recipients still to be served
          media,    \* the caption message of the run, or None
          template, \* the template of the run, or None
          message,  \* the message of the recipient at hand
          chain,    \* senders it may still be sent by
          request,  \* the last request, or None
          shown,    \* the request as it was logged before it was made, or None
          result,   \* what the run says of each recipient
          took,     \* history: how often a provider took the message of each
          unclear   \* history: recipients with a call nobody knows the outcome of

vars == <<env, senders, content, pc, todo, media, template, message, chain, request, shown, result, took, unclear>>

None == [kind |-> "none"]

(***************************************************************************)
(* The senders at boot.                                                    *)
(***************************************************************************)
Present(field) == field \in {"inline", "env"}

\* loadEnvYaml: without senders in the file there is one per channel, from the environment.  In env,
\* "EMAIL_PROVIDER" is that variable set to sendgrid, "WHATSAPP_PROVIDER" set to freshchat, and
\* "GUPSHUP_USER" the user id with its password.
Blank == [id |-> "default-email", channel |-> "email", provider |-> "ses", enabled |-> TRUE, from |-> "env", key |-> "none",
          secret |-> "none", user |-> "none", src |-> "none", source |-> FALSE, default |-> "none"]
Named(name) == IF name \in env THEN "env" ELSE "unset"
Synthesized ==
    LET aws == IF "AWS_KEYS" \in env THEN "env" ELSE "none"
        email == IF "EMAIL_PROVIDER" \in env THEN [Blank EXCEPT !.provider = "sendgrid", !.key = Named("SENDGRID_API_KEY")]
                 ELSE [Blank EXCEPT !.key = aws, !.secret = aws]
        hasGupshup == {"GUPSHUP_API_KEY", "GUPSHUP_USER"} \cap env # {}
        whatsapp == [Blank EXCEPT !.channel = "whatsapp", !.src = "inline", !.source = TRUE]
        gupshup == [whatsapp EXCEPT !.id = "default-wa", !.provider = "gupshup",
                                    !.key = Named("GUPSHUP_API_KEY"), !.user = Named("GUPSHUP_USER")]
        freshchat == [whatsapp EXCEPT !.id = "default-freshchat", !.provider = "freshchat", !.key = Named("FRESHCHAT_API_KEY")]
    IN  <<email>> \o (IF "WHATSAPP_PROVIDER" \in env \/ ("FRESHCHAT_API_KEY" \in env /\ ~hasGupshup) THEN <<freshchat>>
                      ELSE IF hasGupshup THEN <<gupshup>> ELSE <<>>)

\* A mail sender without keys is meant for the role of the machine.
Keyless(s) == s.provider = "ses" /\ s.key = "none" /\ s.secret = "none"

\* senderCredentials: the complete ways to authenticate, each a set of fields.
Ways(s) ==
    CASE s.provider = "ses" -> IF Keyless(s) THEN {{}} ELSE {{s.key, s.secret}}
      [] s.provider = "gupshup" -> {{s.key, s.src}, {s.user}}
      [] OTHER -> {{s.key}}
Satisfied(s) == \E way \in Ways(s) : \A field \in way : Present(field)

\* ensureEnvYamlValid, which ends the boot where it does not hold (what it asks of routing and of the
\* poller is left out: no part of this run reads it).
ValidSender(s) ==
    /\ s.channel = "email" => s.provider \in {"ses", "sendgrid"}
    /\ s.channel = "whatsapp" => s.provider \in {"gupshup", "freshchat"}
    /\ s.enabled =>
          /\ s.channel = "email" => s.from # "none"
          /\ Satisfied(s)
          /\ s.provider = "freshchat" => s.source \/ s.from # "none"
Valid(list) ==
    /\ \A i, j \in DOMAIN list : list[i].id = list[j].id => i = j
    /\ \A i, j \in DOMAIN list :
          list[i].channel = "email" /\ list[j].channel = "email" /\ list[i].from = list[j].from
             /\ list[i].from # "none" => i = j
    /\ \A i \in DOMAIN list : ValidSender(list[i])

(***************************************************************************)
(* Whose credentials a client uses: the sender's own (named by its id),    *)
(* those of the provider-wide variables, or nobody's.  SES completes what  *)
(* the sender lacks from the variables of the process, and without a pair  *)
(* of keys the machine's role is used.                                     *)
(***************************************************************************)
Own(s, field, name) == IF Present(field) THEN s.id ELSE IF name \in env THEN "shared" ELSE "nobody"
SesAccount(s) ==
    LET id == Own(s, s.key, "AWS_KEYS") secret == Own(s, s.secret, "AWS_KEYS")
    IN  IF "nobody" \in {id, secret} THEN "role"
        ELSE IF id = secret THEN id ELSE "mixed"
SendgridAccount(s) == Own(s, s.key, "no such variable")

\* The provider-wide key before the sender's own.
FreshchatSharedAccount(s) == IF "FRESHCHAT_API_KEY" \in env THEN "shared" ELSE Own(s, s.key, "FRESHCHAT_API_KEY")

FreshchatAccount(s) == Own(s, s.key, "FRESHCHAT_API_KEY")

GupshupMode(s) == IF Present(s.key) /\ Present(s.src) THEN "apikey"
                  ELSE IF Present(s.user) THEN "enterprise"
                  ELSE IF Present(s.key) THEN "apikey" ELSE "enterprise"

(***************************************************************************)
(* From the content to a caption message or a template.                    *)
(* content.body is what text_body (or html_body) holds: JSON with a        *)
(* caption, with or without media, JSON of a template with or without an   *)
(* id, one line of text, several lines, or nothing.                        *)
(***************************************************************************)
FirstOf(choices) == IF \E i \in DOMAIN choices : choices[i] # "none"
                    THEN choices[CHOOSE i \in DOMAIN choices :
                                    choices[i] # "none" /\ \A j \in 1 .. i - 1 : choices[j] = "none"]
                    ELSE "none"
If(condition, value) == IF condition THEN value ELSE "none"

ParseMedia(c) ==
    LET inBody == ~c.caption /\ c.body \in {"caption", "caption and media"}
        text == FirstOf(<<If(c.caption, "content"), If(inBody, "body"), If("TEST_CAPTION" \in env, "env")>>)
        own == IF inBody /\ c.body = "caption and media" THEN "body" ELSE If(c.media, "content")
        image == If(c.image, "image")
        test == If("TEST_MEDIA" \in env, "env")
    IN  IF text = "none" THEN None
        ELSE [kind |-> "caption", text |-> text,
              media |-> IF text = "env" THEN FirstOf(<<own, test, image>>) ELSE FirstOf(<<own, image, test>>)]

Template(id) == [kind |-> "template", id |-> id]
ParseTemplate(c, fallback) ==
    CASE c.body \in {"caption", "caption and media", "lines"} -> None
      [] c.body = "template" -> Template("body")
      [] c.body = "template without id" -> Template("none")
      [] c.body = "word" -> Template("word")
      [] OTHER -> LET id == FirstOf(<<fallback, If("GUPSHUP_DEFAULT_TEMPLATE" \in env, "env")>>)
                  IN  IF id = "none" THEN None ELSE Template(id)

ParseFreshchat(c, fallback) ==
    LET named == If(c.named, "content")
        default == FirstOf(<<fallback, If("FRESHCHAT_DEFAULT_TEMPLATE" \in env, "env")>>)
        media_url == FirstOf(<<If(c.media, "content"), If(c.image, "image")>>)
        Spec(id) == [kind |-> "template", id |-> id, media |-> media_url]
    IN  CASE c.params -> Spec(FirstOf(<<named, fallback>>))
          [] ~c.params /\ c.named -> Spec(named)
          [] ~c.params /\ ~c.named /\ c.body = "template" -> Spec("body")
          [] OTHER -> IF default = "none" THEN None ELSE Spec(default)

(***************************************************************************)
(* Requests.  Preview is the request as it is logged; Gupshup and          *)
(* Freshchat are the requests that are made, None when the client answers  *)
(* with an error of its own.                                               *)
(***************************************************************************)
Request(gateway, account, text, media_url, id) ==
    [kind |-> "request", gateway |-> gateway, account |-> account, text |-> text, media |-> media_url, id |-> id]

ViaMedia(s, m) == Request("media", s.id, m.text, m.media, "none")
ViaText(s, m) == Request("text", s.id, m.text, "none", "none")
ViaApiKey(s, m) == Request("io", s.id, "none", "none", m.template.id)
ViaEnterprise(s, m) == Request("hsm", s.id, "none", "none", m.template.id)

Preview(s, m) ==
    CASE m.text # "none" /\ m.media # "none" -> ViaMedia(s, m)
      [] m.text # "none" /\ m.media = "none" -> ViaText(s, m)
      [] m.text = "none" /\ (m.template = None \/ m.template.id = "none") -> None
      [] OTHER -> IF GupshupMode(s) = "apikey" THEN ViaApiKey(s, m) ELSE ViaEnterprise(s, m)

Gupshup(s, m) ==
    IF m.text # "none"
    THEN IF ~Present(s.user) THEN None ELSE IF m.media # "none" THEN ViaMedia(s, m) ELSE ViaText(s, m)
    ELSE CASE m.template = None \/ m.template.id = "none" -> None
           [] m.template # None /\ GupshupMode(s) = "apikey" ->
                 IF Present(s.key) /\ Present(s.src) /\ s.source THEN ViaApiKey(s, m) ELSE None
           [] OTHER -> IF Present(s.user) THEN ViaEnterprise(s, m) ELSE None

FreshchatSpec(m) ==
    IF m.fresh # None THEN m.fresh
    ELSE IF m.template # None THEN [kind |-> "template", id |-> m.template.id, media |-> "none"] ELSE None
Freshchat(s, m) ==
    LET spec == FreshchatSpec(m)
        id == FirstOf(<<spec.id, s.default>>)
    IN  IF spec = None THEN None
        ELSE IF id = "none" THEN None
        ELSE Request("outbound", FreshchatAccount(s), "none", FirstOf(<<m.media, spec.media>>), id)

Ses(s) == Request("ses", SesAccount(s), "none", "none", "none")
Sendgrid(s) == IF SendgridAccount(s) = "nobody" THEN None
               ELSE Request("sendgrid", SendgridAccount(s), "none", "none", "none")

RequestOf(s, m) == CASE s.provider = "gupshup" -> Gupshup(s, m)
                     [] s.provider = "freshchat" -> Freshchat(s, m)
                     [] s.provider = "ses" -> Ses(s)
                     [] OTHER -> Sendgrid(s)

(***************************************************************************)
(* Answers: the provider accepts; answers 2xx with a page that is not its  *)
(* own; refuses; is busy (429 or 5xx); the connection breaks; it times     *)
(* out.  After the last two nobody knows whether the message was taken.    *)
(***************************************************************************)
Answers(s) == {"accepted", "refused", "busy", "reset", "timeout"}
                 \cup (IF s.channel = "whatsapp" THEN {"page"} ELSE {})
MayTake(answer) == CASE answer = "accepted" -> {1}
                     [] answer \in {"reset", "timeout"} -> {0, 1}
                     [] OTHER -> {0}

\* parseEnterpriseResponse, parseIoResponse, parseMediaGatewayResponse: the body must say so.
GupshupSuccess(answer) == answer = "accepted"

\* Freshchat's client goes by response.ok alone, and the mail clients throw otherwise.
FreshchatSuccess(answer) == answer \in {"accepted", "page"}
EmailSuccess(answer) == answer = "accepted"
Success(s, answer) == CASE s.provider = "gupshup" -> GupshupSuccess(answer)
                        [] s.provider = "freshchat" -> FreshchatSuccess(answer)
                        [] OTHER -> EmailSuccess(answer)

\* classifyError reads the text of the error: the text of a refusal or of a page may hold "500".
FailsOver(answer) == CASE answer = "timeout" -> {OnTimeout}
                       [] answer \in {"reset", "busy"} -> {TRUE}
                       [] answer = "no request" -> {FALSE}
                       [] OTHER -> BOOLEAN

(***************************************************************************)
(* The run.                                                                *)
(***************************************************************************)
Init ==
    /\ env \in Envs
    /\ senders \in {IF list = <<>> THEN Synthesized ELSE list : list \in Yaml}
    /\ content \in Contents
    /\ pc = "boot" /\ todo = Recipients
    /\ media = None /\ template = None /\ message = None /\ chain = <<>> /\ request = None /\ shown = None
    /\ result = [r \in DOMAIN Recipients |-> "none"]
    /\ took = [r \in DOMAIN Recipients |-> 0] /\ unclear = {}

Channel == IF \E i \in DOMAIN senders : senders[i].channel = "whatsapp" THEN "whatsapp" ELSE "email"
Now == Len(Recipients) - Len(todo) + 1

Boot ==
    /\ pc = "boot"
    /\ pc' = IF Valid(senders) THEN "parse" ELSE "not started"
    /\ UNCHANGED <<env, senders, content, todo, media, template, message, chain, request, shown, result, took, unclear>>

\* The run's own template, and the name its send log gives it.
Parse ==
    /\ pc = "parse"
    /\ LET caption == IF Channel = "whatsapp" THEN ParseMedia(content) ELSE None
           own == IF caption = None /\ Channel = "whatsapp" THEN ParseTemplate(content, "none") ELSE None
       IN  /\ media' = caption
           /\ template' = own
           /\ pc' = IF own # None /\ own.id = "none" THEN "failed" ELSE "next"
    /\ UNCHANGED <<env, senders, content, todo, message, chain, request, shown, result, took, unclear>>

Enabled == {i \in DOMAIN senders : senders[i].enabled /\ senders[i].channel = Channel}
Chains == LET length == IF Cardinality(Enabled) < MaxAttempts THEN Cardinality(Enabled) ELSE MaxAttempts
          IN  {c \in [1 .. length -> Enabled] : \A i, j \in DOMAIN c : c[i] = c[j] => i = j}

\* The template where the content has none: of the first sender of this recipient.
DefaultTemplate(first) ==
    LET given == ParseTemplate(content, first.default)
        fresh == ParseFreshchat(content, first.default)
    IN  IF given # None THEN given ELSE IF fresh # None THEN Template(fresh.id) ELSE None

MessageFor(id, fresh) ==
    [kind |-> "message", template |-> id, text |-> IF media = None THEN "none" ELSE media.text,
     media |-> IF media = None THEN "none" ELSE media.media, fresh |-> fresh]

Prepare(c) ==
    /\ pc = "next" /\ todo # <<>> /\ c \in Chains /\ c # <<>>
    /\ LET first == senders[c[1]]
           default == IF first.provider = "freshchat" THEN first.default ELSE "none"
           chosen == IF media = None /\ template = None /\ Channel = "whatsapp" THEN DefaultTemplate(first) ELSE template
       IN  /\ template' = chosen
           /\ IF Channel = "whatsapp" /\ media = None /\ chosen = None
              THEN pc' = "failed" /\ UNCHANGED <<message, chain>>
              ELSE /\ pc' = "send"
                   /\ chain' = c
                   /\ message' = MessageFor(chosen, IF Channel = "whatsapp" THEN ParseFreshchat(content, default) ELSE None)
    /\ UNCHANGED <<env, senders, content, todo, media, request, shown, result, took, unclear>>

Done(outcome) ==
    /\ result' = [result EXCEPT ![Now] = outcome]
    /\ todo' = Tail(todo)
    /\ pc' = "next" /\ message' = None /\ chain' = <<>>

\* The client makes its request, or answers with an error of its own, which ends the loop.
Send ==
    /\ pc = "send"
    /\ LET s == senders[Head(chain)]
           made == RequestOf(s, message)
       IN  /\ request' = made
           /\ shown' = IF s.provider = "gupshup" THEN Preview(s, message) ELSE None
           /\ IF made = None THEN Done("failed")
              ELSE pc' = "answer" /\ UNCHANGED <<todo, message, chain, result>>
    /\ UNCHANGED <<env, senders, content, media, template, took, unclear>>

Answer(answer) ==
    LET s == senders[Head(chain)]
    IN  /\ pc = "answer" /\ answer \in Answers(s)
        /\ \E n \in MayTake(answer) : took' = [took EXCEPT ![Now] = @ + n]
        /\ unclear' = IF answer \in {"reset", "timeout"} \/ (s.provider = "freshchat" /\ answer = "page")
                      THEN unclear \cup {Now} ELSE unclear
        /\ IF Success(s, answer) THEN Done("sent")
           ELSE \E further \in FailsOver(answer) :
                   IF further /\ Len(chain) > 1
                   THEN /\ chain' = Tail(chain) /\ pc' = "send"
                        /\ UNCHANGED <<todo, message, result>>
                   ELSE Done("failed")
        /\ UNCHANGED <<env, senders, content, media, template, request, shown>>

Next == Boot \/ Parse \/ (\E c \in Chains : Prepare(c)) \/ Send
           \/ (\E answer \in {"accepted", "refused", "busy", "reset", "timeout", "page"} : Answer(answer))
Spec == Init /\ [][Next]_vars

(***************************************************************************)
(* Properties.                                                             *)
(***************************************************************************)
\* A sender that passed the boot check sends on its own credentials, whatever provider-wide variables
\* are set and whichever sender was asked before it; only a mail sender without keys goes out on the
\* machine's role or the process's AWS keys (sender-credentials.ts, the clients' configurations).
OwnAccountOnly ==
    pc = "answer" =>
        LET s == senders[Head(chain)]
        IN  request.account = s.id \/ (Keyless(s) /\ request.account \in {"role", "shared"})

\* What the log shows of a Gupshup send, built by a copy of the code that builds the request,
\* is the request that was made (previewGupshupSendRequest, sendGupshupWhatsApp).
PreviewIsSent == request # None /\ shown # None => shown = request

\* Where every answer was clear, a recipient reported as sent was taken by exactly one provider and one
\* reported as failed by none, over every failover (the clients' parsing, classifyError, sendWithFailover).
ReportIsTrue ==
    \A r \in DOMAIN Recipients \ unclear :
        /\ result[r] = "sent" => took[r] = 1
        /\ result[r] = "failed" => took[r] = 0

\* No sender uses a provider-wide variable (sender-credentials.ts: "Never from a provider-wide environment variable").
NeverProviderWide == request # None => request.account # "shared"

\* A sender the boot check lets through can send a template (sender-credentials.ts: boot and send
\* "can never disagree about whether a sender is configured").
ConfiguredSends ==
    [][pc = "send" /\ message.template # None /\ message.template.id # "none" => request' # None]_vars

\* A sender's default template is sent by that sender only.
DefaultIsTheSenders ==
    \A i \in DOMAIN senders :
        request # None /\ request.id # "none" /\ senders[i].default = request.id => request.account = senders[i].id
=============================================================================
