----------------------------- MODULE CommunityPage -----------------------------
(***************************************************************************)
(* The community tab of the wallet page (public/app.js) and the sessions   *)
(* behind it (server/routes/community.js, server/community/sessions.js,    *)
(* discordOAuth.js and identityService.js): one browser with several       *)
(* pages, which share the cookie and keep each its own picture of who is   *)
(* signed in, its selected wallet and its challenge.                       *)
(*                                                                         *)
(* A session gets a new id and a new token when its user signs in, links   *)
(* or unlinks, each after waiting for Discord.  Requests of the other      *)
(* pages run in between with the old cookie and the old token.             *)
(*                                                                         *)
(* Roles and the table of the links are those of module CommunityIdentity; *)
(* here a link is a wallet.  Tokens, states and challenges are drawn at    *)
(* random by the code; here they are the numbers of what they belong to.   *)
(***************************************************************************)
EXTENDS Naturals, FiniteSets, Functions

CONSTANTS
  Tabs,           \* the pages of the browser
  Users,          \* the Discord users
  Wallets,        \* the wallets in the browser
  Pending,        \* bound: the requests under way at a time
  MaxSessions,    \* bound: the sessions that are made
  MaxChallenges,  \* bound: the challenges that are made
  MaxClicks,      \* bound: what the user does
  MaxMishaps,     \* bound: failed calls and requests, expired sessions, restarts
  Null            \* an absent value

ASSUME PageAssumption ==
  /\ MaxSessions \in Nat /\ MaxChallenges \in Nat
  /\ MaxClicks \in Nat /\ MaxMishaps \in Nat
  /\ Null \notin Users \cup Wallets

VARIABLES
  tab,         \* per page: where it is, communityMe, the wallet, the challenge
  cookie,      \* the session the cookie of the browser names, 0 for none
  session,     \* the sessions of the server: user, token and OAuth state
  made,        \* the sessions ever made
  challenge,   \* identity_challenges: user, wallet and used
  link,        \* the linked wallet of each user
  call,        \* the requests under way
  signatures,  \* history: the challenges signed and the wallets that signed
  acted,       \* history: the users the server acted for and those shown
  clicks, mishaps

pageVars == <<tab, cookie, session, made, challenge, link, call, signatures,
              acted, clicks, mishaps>>

Closed == [at |-> "closed", me |-> Null, wallet |-> Null, challenge |-> Null,
           dialog |-> Null, state |-> 0]

Click == clicks < MaxClicks /\ clicks' = clicks + 1

Mishap == mishaps < MaxMishaps /\ mishaps' = mishaps + 1

-----------------------------------------------------------------------------
(* Requests.  One takes the cookie and the token it leaves the page with,  *)
(* and remembers whom the page shows.                                      *)

Request(t, kind) ==
  [kind |-> kind, from |-> t, stage |-> "sent", cookie |-> cookie,
   signs |-> kind = "verify",
   token |-> IF tab[t].me = Null THEN 0 ELSE tab[t].me.token,
   shown |-> IF tab[t].me = Null THEN Null ELSE tab[t].me.user,
   wallet |-> Null, challenge |-> 0, signed |-> Null, state |-> 0, user |-> Null,
   ok |-> FALSE, reply |-> Null, setCookie |-> 0]

Sends(c, r) == call[c] = Null /\ call' = [call EXCEPT ![c] = r]

(* The server waits for Discord, or has answered: with a reply and, when   *)
(* it is not 0, a cookie, or with an error.                                *)
AsksDiscord(c, user) == call' = [call EXCEPT ![c].stage = "waits", ![c].user = user]

Replies(c, reply, set) ==
  call' = [call EXCEPT ![c].stage = "answered", ![c].ok = TRUE,
                       ![c].reply = reply, ![c].setCookie = set]

Refuses(c) == call' = [call EXCEPT ![c].stage = "answered"]

-----------------------------------------------------------------------------
(* The page.                                                               *)

(* The page opens, showing one of the wallets, and asks who is signed in.  *)
OpenPage(t, w, c) ==
  /\ tab[t].at = "closed" /\ Click
  /\ Sends(c, Request(t, "me"))
  /\ tab' = [tab EXCEPT ![t] = [Closed EXCEPT !.at = "wallet", !.wallet = w]]
  /\ UNCHANGED <<cookie, session, made, challenge, link, signatures, acted, mishaps>>

(* A wallet is added, imported or deleted, which selects another: the      *)
(* challenge stays.                                                        *)
ReplaceWallet(t, w) ==
  /\ tab[t].at = "wallet" /\ tab[t].wallet # w /\ Click
  /\ tab' = [tab EXCEPT ![t].wallet = w]
  /\ UNCHANGED <<cookie, session, made, challenge, link, call, signatures, acted, mishaps>>

(* switchWallet: the challenge is dropped, and the page asks again who is  *)
(* signed in.                                                              *)
SwitchWallet(t, w, c) ==
  /\ tab[t].at = "wallet" /\ tab[t].wallet # w /\ Click
  /\ Sends(c, Request(t, "me"))
  /\ tab' = [tab EXCEPT ![t].wallet = w, ![t].challenge = Null]
  /\ UNCHANGED <<cookie, session, made, challenge, link, signatures, acted, mishaps>>

SignedIn(t) == tab[t].at = "wallet" /\ tab[t].me # Null /\ tab[t].me.user # Null

(* The buttons of a page that shows a user.                                *)
Press(t, kind, c) ==
  /\ SignedIn(t) /\ Click
  /\ kind \in IF tab[t].me.wallet = Null THEN {"challenge"} ELSE {"sync", "privacy", "unlink"}
  /\ Sends(c, [Request(t, kind) EXCEPT !.wallet = tab[t].wallet])
  /\ UNCHANGED <<tab, cookie, session, made, challenge, link, signatures, acted, mishaps>>

(* The sign button is disabled from its click until the link is refused or *)
(* shown.                                                                  *)
Signing(t) ==
  tab[t].dialog # Null \/ \E c \in Pending : call[c] # Null /\ call[c].from = t /\ call[c].signs

(* signCommunityChallenge: the dialog shows the message of the challenge,  *)
(* which is dropped when it was labelled for another wallet.               *)
SignChallenge(t) ==
  /\ SignedIn(t) /\ tab[t].challenge # Null /\ ~Signing(t) /\ Click
  /\ tab' = IF tab[t].challenge.label = tab[t].wallet
              THEN [tab EXCEPT ![t].dialog = [message |-> tab[t].challenge.id,
                                              by |-> tab[t].wallet]]
              ELSE [tab EXCEPT ![t].challenge = Null]
  /\ UNCHANGED <<cookie, session, made, challenge, link, call, signatures, acted, mishaps>>

(* The dialog is confirmed: what it showed is signed, and sent with the    *)
(* challenge and the wallet of now.  The challenge may be gone: then the   *)
(* handler throws.  The user may close the dialog instead.                 *)
Confirm(t, c) ==
  /\ tab[t].dialog # Null
  /\ signatures' = signatures \cup {tab[t].dialog}
  /\ IF tab[t].challenge = Null THEN UNCHANGED call
     ELSE Sends(c, [Request(t, "verify") EXCEPT !.wallet = tab[t].wallet,
                                                !.challenge = tab[t].challenge.id,
                                                !.signed = tab[t].dialog])
  /\ tab' = [tab EXCEPT ![t].dialog = Null]
  /\ UNCHANGED <<cookie, session, made, challenge, link, acted, clicks, mishaps>>

Cancel(t) ==
  /\ tab[t].dialog # Null /\ Click
  /\ tab' = [tab EXCEPT ![t].dialog = Null]
  /\ UNCHANGED <<cookie, session, made, challenge, link, call, signatures, acted, mishaps>>

(* The page is left for Discord by way of /discord/start: no one waits for *)
(* its other requests any more.                                            *)
Connect(t, c) ==
  /\ tab[t].at = "wallet" /\ tab[t].dialog = Null /\ call[c] = Null /\ Click
  /\ call' = [d \in Pending |->
                CASE d = c -> [Request(t, "start") EXCEPT !.state = clicks']
                  [] call[d] # Null /\ call[d].from = t -> [call[d] EXCEPT !.from = Null]
                  [] OTHER -> call[d]]
  /\ tab' = [tab EXCEPT ![t] = [Closed EXCEPT !.at = "leaving"]]
  /\ UNCHANGED <<cookie, session, made, challenge, link, signatures, acted, mishaps>>

(* The user agrees on the page of Discord, which leads to the callback.    *)
Agree(t, u, c) ==
  /\ tab[t].at = "discord" /\ Click
  /\ Sends(c, [Request(t, "callback") EXCEPT !.state = tab[t].state, !.user = u])
  /\ tab' = [tab EXCEPT ![t].at = "leaving"]
  /\ UNCHANGED <<cookie, session, made, challenge, link, signatures, acted, mishaps>>

-----------------------------------------------------------------------------
(* The server.                                                             *)

Of(id) == IF id \in DOMAIN session THEN session[id] ELSE Null

(* create: a session with a token of its own.                              *)
New(user) == [user |-> user, token |-> made + 1, state |-> 0]

With(map, id, s) == [i \in DOMAIN map \cup {id} |-> IF i = id THEN s ELSE map[i]]

\* Mutant of Rotated: the token goes on to the new session.
RotatedWithToken(id, user) ==
  With(Restrict(session, DOMAIN session \ {id}), made + 1,
       [New(user) EXCEPT !.token = IF id \in DOMAIN session THEN session[id].token ELSE @])

(* rotate: the session is deleted, if it is still there, and one with      *)
(* another id and token made in its place.                                 *)
Rotated(id, user) ==
  With(Restrict(session, DOMAIN session \ {id}), made + 1, New(user))

Makes == made < MaxSessions /\ made' = made + 1

(* GET /me.                                                                *)
HandleMe(c) ==
  LET s == Of(call[c].cookie)
      Me(user, token) ==
        [user |-> user, token |-> token, wallet |-> IF user = Null THEN Null ELSE link[user]]
  IN /\ call[c].kind = "me"
     /\ \/ /\ s # Null
           /\ Replies(c, Me(s.user, s.token), 0)
           /\ UNCHANGED <<session, made>>
        \/ /\ s = Null /\ Makes
           /\ session' = With(session, made', New(Null))
           /\ Replies(c, Me(Null, made'), made')
     /\ UNCHANGED <<challenge, link, acted>>

(* GET /discord/start: the state is drawn, the click stands for it.        *)
HandleStart(c) ==
  LET s  == Of(call[c].cookie)
      id == IF s = Null THEN made + 1 ELSE call[c].cookie
  IN /\ call[c].kind = "start"
     /\ IF s = Null THEN Makes ELSE UNCHANGED made
     /\ session' = With(session, id, [(IF s = Null THEN New(Null) ELSE s)
                                         EXCEPT !.state = call[c].state])
     /\ Replies(c, call[c].state, id)
     /\ UNCHANGED <<challenge, link, acted>>

(* GET /discord/callback: the state is taken from the session before the   *)
(* server asks Discord.                                                    *)
HandleCallback(c) ==
  LET s == Of(call[c].cookie)
  IN /\ call[c].kind = "callback"
     /\ IF s = Null \/ s.state = 0
          THEN Refuses(c) /\ UNCHANGED session
          ELSE /\ session' = [session EXCEPT ![call[c].cookie].state = 0]
               /\ IF s.state = call[c].state THEN AsksDiscord(c, call[c].user)
                                             ELSE Refuses(c)
     /\ UNCHANGED <<made, challenge, link, acted>>

(* requireDiscord and requireCsrf.                                         *)
Allowed(r) ==
  /\ Of(r.cookie) # Null /\ session[r.cookie].user # Null
  /\ r.token = session[r.cookie].token

\* Mutant of Verified: a signature of the wallet under any message will do.
VerifiedAnyMessage(r, user) ==
  /\ challenge[r.challenge].user = user /\ challenge[r.challenge].wallet = r.wallet
  /\ ~challenge[r.challenge].used
  /\ r.signed.by = r.wallet
  /\ \A u \in Users \ {user} : link[u] # r.wallet

(* verifyAndLink and consumeAndLink: the challenge is of this user and     *)
(* wallet and unused, the signature is that of the wallet under its        *)
(* message, and no one else has linked the wallet.                         *)
Verified(r, user) ==
  /\ challenge[r.challenge].user = user /\ challenge[r.challenge].wallet = r.wallet
  /\ ~challenge[r.challenge].used
  /\ r.signed = [message |-> r.challenge, by |-> r.wallet]
  /\ \A u \in Users \ {user} : link[u] # r.wallet

(* The effect of an allowed request, up to where it waits for Discord.     *)
Acts(c, user) ==
  LET r == call[c]
  IN \/ /\ r.kind = "challenge" /\ Cardinality(DOMAIN challenge) < MaxChallenges
        /\ LET id == Cardinality(DOMAIN challenge) + 1
           IN /\ challenge' = With(challenge, id,
                                   [user |-> user, wallet |-> r.wallet, used |-> FALSE])
              /\ Replies(c, id, 0)
        /\ UNCHANGED link
     \/ /\ r.kind = "verify"
        /\ IF Verified(r, user)
             THEN /\ challenge' = [challenge EXCEPT ![r.challenge].used = TRUE]
                  /\ link' = [link EXCEPT ![user] = r.wallet]
                  /\ AsksDiscord(c, user)
             ELSE Refuses(c) /\ UNCHANGED <<challenge, link>>
     \/ /\ r.kind = "unlink"
        /\ IF link[user] # Null THEN AsksDiscord(c, user) ELSE Refuses(c)
        /\ link' = [link EXCEPT ![user] = Null]
        /\ UNCHANGED challenge
     \/ /\ r.kind \in {"sync", "privacy"}
        /\ IF link[user] = Null THEN Refuses(c)
           ELSE IF r.kind = "sync" THEN AsksDiscord(c, user) ELSE Replies(c, Null, 0)
        /\ UNCHANGED <<challenge, link>>

HandleAction(c) ==
  /\ call[c].kind \in {"challenge", "verify", "sync", "privacy", "unlink"}
  /\ \/ /\ ~Allowed(call[c])
        /\ Refuses(c)
        /\ UNCHANGED <<challenge, link, acted>>
     \/ /\ Allowed(call[c])
        /\ LET user == session[call[c].cookie].user
           IN /\ Acts(c, user)
              /\ acted' = acted \cup {[user |-> user, shown |-> call[c].shown]}
  /\ UNCHANGED <<session, made>>

Handle(c) ==
  /\ call[c] # Null /\ call[c].stage = "sent"
  /\ HandleMe(c) \/ HandleStart(c) \/ HandleCallback(c) \/ HandleAction(c)
  /\ UNCHANGED <<tab, cookie, signatures, clicks, mishaps>>

(* The wait is over: all but a synchronization rotate the session the      *)
(* request came with, whatever became of it meanwhile.  A failure of       *)
(* Discord changes that only for the callback: syncIdentity and unlink     *)
(* catch it, and answer that the roles are delayed.                        *)
DiscordAnswers(c) ==
  /\ call[c] # Null /\ call[c].stage = "waits"
  /\ IF call[c].kind = "sync"
       THEN Replies(c, Null, 0) /\ UNCHANGED <<session, made>>
       ELSE /\ Makes
            /\ session' = Rotated(call[c].cookie, call[c].user)
            /\ Replies(c, Null, made')
  /\ UNCHANGED <<tab, cookie, challenge, link, signatures, acted, clicks, mishaps>>

(* Discord refuses the sign-in.                                            *)
DiscordFails(c) ==
  /\ call[c] # Null /\ call[c].stage = "waits" /\ call[c].kind = "callback" /\ Mishap
  /\ Refuses(c)
  /\ UNCHANGED <<tab, cookie, session, made, challenge, link, signatures, acted, clicks>>

Expire(id) ==
  /\ id \in DOMAIN session /\ Mishap
  /\ session' = Restrict(session, DOMAIN session \ {id})
  /\ UNCHANGED <<tab, cookie, made, challenge, link, call, signatures, acted, clicks>>

(* The server starts again: the sessions were in its memory, and whoever   *)
(* waits for an answer gets none.                                          *)
SessionsLost ==
  /\ session' = <<>>
  /\ call' = [c \in Pending |-> Null]
  /\ tab' = [t \in Tabs |-> IF tab[t].at = "leaving" THEN Closed ELSE tab[t]]
  /\ UNCHANGED <<cookie, made, challenge, link, signatures, acted, clicks>>

-----------------------------------------------------------------------------
(* Answers.                                                                *)

(* The browser keeps the cookie of an answer, its page still open or not.  *)
Keeps(r) == cookie' = IF r.setCookie = 0 THEN cookie ELSE r.setCookie

Ended(c) == call' = [call EXCEPT ![c] = Null]

(* What the page becomes with an answer; after a refusal it stays as it is.*)
(* A new challenge is labelled with the wallet of now.                     *)
Shown(p, r) ==
  IF ~r.ok THEN p
  ELSE CASE r.kind = "me"        -> [p EXCEPT !.me = r.reply]
         [] r.kind = "challenge" -> [p EXCEPT !.challenge = [id |-> r.reply, label |-> p.wallet]]
         [] r.kind = "verify"    -> [p EXCEPT !.challenge = Null]
         [] OTHER                -> p

(* An answer to a page that is open; one whose action was done asks again  *)
(* who is signed in.                                                       *)
Answered(c) ==
  LET r == call[c]
      t == r.from
  IN /\ r # Null /\ r.stage = "answered" /\ t # Null
     /\ r.kind \notin {"start", "callback"}
     /\ Keeps(r)
     /\ tab' = [tab EXCEPT ![t] = Shown(@, r)]
     /\ call' = [call EXCEPT ![c] =
                   IF r.ok /\ r.kind \notin {"me", "challenge"}
                     THEN [Request(t, "me") EXCEPT !.cookie = cookie', !.signs = r.signs]
                     ELSE Null]
     /\ UNCHANGED <<session, made, challenge, link, signatures, acted, clicks, mishaps>>

(* /discord/start leads to Discord, the callback back to the wallet page,  *)
(* signed in or not.                                                       *)
Redirected(c) ==
  LET r == call[c]
      t == r.from
  IN /\ r # Null /\ r.stage = "answered" /\ r.kind \in {"start", "callback"}
     /\ Keeps(r)
     /\ tab' = IF r.kind = "start"
                 THEN [tab EXCEPT ![t].at = "discord", ![t].state = r.reply]
                 ELSE [tab EXCEPT ![t] = Closed]
     /\ Ended(c)
     /\ UNCHANGED <<session, made, challenge, link, signatures, acted, clicks, mishaps>>

(* The answer to a page that was left, or one that does not arrive.        *)
Dropped(c) ==
  LET r == call[c]
  IN /\ r # Null /\ r.stage = "answered"
     /\ \/ /\ r.from = Null
           /\ Keeps(r) /\ UNCHANGED <<tab, mishaps>>
        \/ /\ Mishap /\ UNCHANGED cookie
           /\ tab' = [t \in Tabs |-> IF tab[t].at = "leaving" /\ r.from = t
                                        THEN Closed ELSE tab[t]]
     /\ Ended(c)
     /\ UNCHANGED <<session, made, challenge, link, signatures, acted, clicks>>

-----------------------------------------------------------------------------

(* A browser without a cookie, or one whose pages show the user of the     *)
(* first session, who has linked a wallet before or not.                   *)
PageInit(user, linked, w) ==
  /\ tab = [t \in Tabs |->
             IF user = Null THEN Closed
             ELSE [Closed EXCEPT !.at = "wallet", !.wallet = w,
                                 !.me = [user |-> user, token |-> 1, wallet |-> linked]]]
  /\ made = IF user = Null THEN 0 ELSE 1
  /\ cookie = made
  /\ session = [id \in 1 .. made |-> [user |-> user, token |-> id, state |-> 0]]
  /\ link = [u \in Users |-> IF u = user THEN linked ELSE Null]
  /\ challenge = IF linked = Null THEN <<>>
                 ELSE <<[user |-> user, wallet |-> linked, used |-> TRUE]>>
  /\ signatures = IF linked = Null THEN {} ELSE {[message |-> 1, by |-> linked]}
  /\ call = [c \in Pending |-> Null]
  /\ acted = {}

PageNext ==
  \/ \E t \in Tabs, c \in Pending :
       \/ \E w \in Wallets : OpenPage(t, w, c) \/ SwitchWallet(t, w, c)
       \/ \E kind \in {"challenge", "sync", "privacy", "unlink"} : Press(t, kind, c)
       \/ Confirm(t, c)
       \/ Connect(t, c)
       \/ \E u \in Users : Agree(t, u, c)
  \/ \E t \in Tabs : SignChallenge(t) \/ Cancel(t) \/ \E w \in Wallets : ReplaceWallet(t, w)
  \/ \E c \in Pending :
       \/ Handle(c) \/ DiscordAnswers(c) \/ DiscordFails(c)
       \/ Answered(c) \/ Redirected(c) \/ Dropped(c)
  \/ \E id \in DOMAIN session : Expire(id)

-----------------------------------------------------------------------------
(* The server acts for the user the page showed when the button was        *)
(* pressed, although another page may have signed in another user since:   *)
(* a picture that is out of date gets a refusal (sessions.js, rotate and   *)
(* requireCsrf; app.js, communityApi).                                     *)
ActsForShownUser == \A a \in acted : a.user = a.shown

(* A wallet is linked by a challenge only that the wallet itself signed,   *)
(* although a page may label a challenge with a wallet selected later, and *)
(* send one it received while another was in the dialog (app.js,           *)
(* createCommunityChallenge; identityService.js, verifyAndLink).           *)
OnlySignedIsLinked ==
  \A id \in DOMAIN challenge :
    challenge[id].used => [message |-> id, by |-> challenge[id].wallet] \in signatures

=============================================================================
