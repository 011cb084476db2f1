------------------------------ MODULE CodeInbox ------------------------------
(***************************************************************************)
(* How codes leave the service: the settings it starts with                *)
(* (core/config.py, main.py), the sender they select, and the inboxes that *)
(* keep the codes of a development service in memory                       *)
(* (the modules of integrations and api/v1/dev).                          *)
(*                                                                         *)
(* Codes for phones, emails and lost passwords have an inbox each; the     *)
(* modelled one is channel.  Threads read the clock and then wait for its  *)
(* lock.                                                                   *)
(***************************************************************************)
EXTENDS Integers, Sequences, FiniteSets

CONSTANTS
    Recipients,
    Threads,
    Delay,      \* fake_*_delivery_delay_seconds
    Ttl,        \* fake_*_inbox_ttl_seconds
    Lifetime,   \* *_code_expiry_minutes
    Capacity,   \* fake_*_inbox_max_messages
    MaxWait,    \* bound on how long a thread waits for the lock
    MaxCodes,   \* bound on the codes that are sent
    MaxTime     \* bound on the clock

ConstantsAreValid ==
    /\ {Delay, Ttl, Lifetime, Capacity, MaxWait, MaxCodes, MaxTime} \subseteq Nat
    /\ Ttl > 0 /\ Lifetime > 0 /\ Capacity > 0

VARIABLES
    channel,
    settings,
    service,   \* starting, running, or refused by validate_runtime_security
    now,
    messages,  \* _messages
    call,      \* what a thread waits for the lock with
    codes      \* how many were sent

vars == <<channel, settings, service, now, messages, call, codes>>

Channels == {"sms", "reset", "email"}

Settings ==
    [development: BOOLEAN,                      \* app_env
     enabled: BOOLEAN,                          \* sms_enabled
     provider: {"disabled", "fake", "other"},
     inbox: BOOLEAN,                            \* enable_fake_*_dev_inbox
     localhostOnly: BOOLEAN,
     strongSecret: BOOLEAN,                     \* verification_code_hash_secret
     cookies: {"secure", "plain", "unsound"}, \* refresh_cookie_*, csrf_cookie_*, frontend_url
     tokens: BOOLEAN,                           \* jwt_*
     cursorKey: {"none", "own", "weak"}]        \* browse_cursor_signing_key

Quiet == [op |-> "none"]

Init ==
    /\ channel \in Channels
    /\ settings \in Settings
    /\ service = "starting"
    /\ now = 0
    /\ messages = <<>>
    /\ call = [t \in Threads |-> Quiet]
    /\ codes = 0

-----------------------------------------------------------------------------
(* Starting.                                                                  *)

FakeIsSafe(s) ==
    /\ s.development \/ (s.provider # "fake" /\ ~s.inbox)
    /\ s.inbox => s.localhostOnly
    /\ channel # "sms" =>
        /\ s.provider # "other"
        /\ s.inbox => s.provider = "fake"

SecretIsSafe(s) ==
    ~s.development \/ (channel # "sms" /\ s.provider = "fake") => s.strongSecret

\* Unsound is what no environment may have: a lifetime over the absolute one, a
\* cookie for other sites that is not secure, a name, path or origin of bad form.
CookiesAreSafe(s) == s.cookies = "secure" \/ (s.development /\ s.cookies = "plain")

CursorKeyIsSafe(s) == s.cursorKey = "own" \/ (s.development /\ s.cursorKey = "none")

Start ==
    /\ service = "starting"
    /\ service' = IF /\ FakeIsSafe(settings) /\ SecretIsSafe(settings)
                     /\ CookiesAreSafe(settings) /\ CursorKeyIsSafe(settings)
                     /\ settings.tokens
                  THEN "running" ELSE "refused"
    /\ UNCHANGED <<channel, settings, now, messages, call, codes>>

\* The sender the dependencies build.
Sender ==
    IF channel = "sms" /\ ~settings.enabled THEN "none"
    ELSE IF settings.provider = "fake" /\ settings.development THEN "fake"
    ELSE IF settings.provider = "other" /\ channel = "sms" THEN "provider"
    ELSE "none"

\* create_app mounts the routes of an inbox.
Mounted ==
    /\ settings.development /\ settings.inbox
    /\ channel # "sms" => settings.provider = "fake"

-----------------------------------------------------------------------------
(* The calls of the senders and of the routes. *)

Call(t, op, r, code) ==
    /\ service = "running" /\ call[t] = Quiet
    /\ call' = [call EXCEPT ![t] = [op |-> op, to |-> r, code |-> code, at |-> now]]
    /\ UNCHANGED <<channel, settings, service, now, messages>>

Send(t, r) ==
    /\ Sender = "fake" /\ codes < MaxCodes
    /\ codes' = codes + 1
    /\ Call(t, "add", r, codes')

\* The routes serve requests of the same machine only.
AskLatest(t, r) ==
    Mounted /\ Call(t, "latest", r, 0) /\ UNCHANGED codes

\* The inboxes of phones and passwords ask for the message alone, that of
\* emails for a message of the signed-in user.
AskConsume(t, r, code) ==
    Mounted /\ Call(t, "consume", r, code) /\ UNCHANGED codes

\* A verification was successful; recovery leaves its code to expire.
Spend(t, r, code) ==
    /\ Sender = "fake" /\ channel # "reset"
    /\ Call(t, "spend", r, code) /\ UNCHANGED codes

-----------------------------------------------------------------------------
(* What they do with the lock. *)

\* The messages at these positions, in their order.
Only(kept) ==
    [k \in 1..Cardinality(kept) |->
        messages[CHOOSE i \in kept : Cardinality({j \in kept : j <= i}) = k]]

Live(at) == {i \in DOMAIN messages : messages[i].expires > at}

\* Mutant: the inbox does not know when a code expires.
ExpiryOfInbox(at) == at + Ttl

\* A text message is not told when its code expires.
Expiry(at) ==
    IF channel = "sms" \/ Ttl < Lifetime THEN at + Ttl ELSE at + Lifetime

Newest(s) == IF Len(s) > Capacity THEN SubSeq(s, Len(s) - Capacity + 1, Len(s)) ELSE s

Done(t) ==
    /\ call' = [call EXCEPT ![t] = Quiet]
    /\ UNCHANGED <<channel, settings, service, now, codes>>

Add(t) ==
    LET c == call[t]
        others == {i \in Live(c.at) : messages[i].to # c.to} IN
    /\ c.op = "add"
    /\ messages' = Newest(Append(Only(others),
            [to |-> c.to, code |-> c.code, sent |-> c.at,
             available |-> c.at + Delay, expires |-> Expiry(c.at)]))
    /\ Done(t)

\* latest_available
Shown(t) ==
    LET c == call[t]
        found == {i \in Live(c.at) : messages[i].to = c.to /\ messages[i].available <= c.at}
    IN  {messages[i] : i \in {j \in found : \A k \in found : k <= j}}

Latest(t) ==
    /\ call[t].op = "latest"
    /\ messages' = Only(Live(call[t].at))
    /\ Done(t)

Consume(t) ==
    LET c == call[t]
        Meant(m) == m.code = c.code /\ (channel = "email" => m.to = c.to) IN
    /\ c.op = "consume"
    /\ messages' = Only({i \in Live(c.at) : ~Meant(messages[i])})
    /\ Done(t)

ConsumeCode(t) ==
    LET c == call[t] IN
    /\ c.op = "spend"
    /\ messages' = Only({i \in Live(c.at) :
            ~(messages[i].to = c.to /\ messages[i].code = c.code)})
    /\ Done(t)

Tick ==
    /\ service = "running" /\ now < MaxTime
    /\ \A t \in Threads : call[t] # Quiet => now - call[t].at < MaxWait
    /\ now' = now + 1
    /\ UNCHANGED <<channel, settings, service, messages, call, codes>>

\* Nothing is asked of the service, which may have been refused.
Idle ==
    /\ service # "starting" /\ \A t \in Threads : call[t] = Quiet
    /\ UNCHANGED vars

Next ==
    \/ Start \/ Tick \/ Idle
    \/ \E t \in Threads :
        \/ \E r \in Recipients :
            \/ Send(t, r) \/ AskLatest(t, r)
            \/ \E code \in 1..codes : AskConsume(t, r, code) \/ Spend(t, r, code)
        \/ Add(t) \/ Latest(t) \/ Consume(t) \/ ConsumeCode(t)

Spec == Init /\ [][Next]_vars

-----------------------------------------------------------------------------

\* A code is shown by a development service alone, behind a strong secret where
\* it is checked with one, when it has been delivered, no longer than it counts
\* (but for phones), and only the last one stored for its recipient; the inbox
\* never outgrows its capacity (add, latest_available, validate_runtime_security).
InboxShowsTheLatest ==
    /\ Len(messages) <= Capacity
    /\ \A t \in Threads : call[t].op = "latest" => \A m \in Shown(t) :
        /\ settings.development /\ settings.localhostOnly
        /\ m.available <= now
        /\ channel # "sms" => settings.strongSecret /\ now < m.sent + Lifetime + MaxWait
        /\ \A i \in DOMAIN messages : messages[i].to = m.to => messages[i] = m
=============================================================================
