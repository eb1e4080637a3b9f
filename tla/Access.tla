------------------------------- MODULE Access -------------------------------
(***************************************************************************)
(* Who gets dashboard pages, and how the server goes down: logins and      *)
(* logouts on the table of sessions, the check before every page and every *)
(* stream, their expiry, restarts with their cleaning, and the graceful    *)
(* shutdown that waits for what is being served.                           *)
(*                                                                         *)
(* Time is discrete; the age of a session counts up to ttl + 1, the first  *)
(* that the cleaning at a start removes.  Passwords and the drawing of     *)
(* tokens are left out: a login that succeeds makes a token never used.    *)
(*                                                                         *)
(* The names are the module's own, so that DashboardProofs can extend it   *)
(* together with Reports.                                                  *)
(***************************************************************************)
EXTENDS Integers, FiniteSets

CONSTANTS Browser,
          Token,      \* bound: as many logins as tokens
          ttl,        \* 24 hours
          MaxStarts   \* bound: starts of the server

ASSUME AccessAssumption == ttl \in Nat \ {0} /\ MaxStarts \in Nat \ {0}

NoToken == "no token"
ASSUME NoTokenAssumption == NoToken \notin Token

Absent == -1          \* no row in the table
Age == Absent..(ttl + 1)

VARIABLES
    sessions,   \* the table sessions: the age of each token's row
    cookie,     \* per browser, its damsac_session cookie
    asked,      \* per browser, the token of a request not yet checked
    serving,    \* per browser, what it is being served
    server,     \* "up", "stopping" or "down"
    expired,    \* the ten seconds that a shutdown waits have passed
    starts,     \* bound: starts so far
    login,      \* history: time since the login that made the token
    revoked,    \* history: tokens whose row a logout deleted
    failed      \* history: the last check could not read the table

browsers   == <<cookie, asked, serving>>
process    == <<server, expired, starts>>
history    == <<login, revoked, failed>>
accessVars == <<sessions, browsers, process, history>>

AccessInit ==
    /\ sessions = [t \in Token |-> Absent]
    /\ cookie = [b \in Browser |-> NoToken]
    /\ asked = [b \in Browser |-> NoToken]
    /\ serving = [b \in Browser |-> "nothing"]
    /\ server = "up" /\ expired = FALSE /\ starts = 1
    /\ login = [t \in Token |-> Absent] /\ revoked = {} /\ failed = FALSE

-----------------------------------------------------------------------------

(* HandleLogin and CreateSession.  If they fail nothing changes.           *)
HandleLogin(b) ==
    /\ server = "up"
    /\ \E t \in Token :
        /\ login[t] = Absent
        /\ sessions' = [sessions EXCEPT ![t] = 0]
        /\ login' = [login EXCEPT ![t] = 0]
        /\ cookie' = [cookie EXCEPT ![b] = t]
    /\ UNCHANGED <<asked, serving, process, revoked, failed>>

(* HandleLogout.  The deletion may fail, and nobody is told.               *)
HandleLogout(b) ==
    /\ server = "up" /\ cookie[b] # NoToken
    /\ \/ /\ sessions' = [sessions EXCEPT ![cookie[b]] = Absent]
          /\ revoked' = revoked \cup {cookie[b]}
       \/ UNCHANGED <<sessions, revoked>>
    /\ cookie' = [cookie EXCEPT ![b] = NoToken]
    /\ UNCHANGED <<asked, serving, process, login, failed>>

(* The row is there and young enough.                                     *)
Valid(t) == sessions[t] # Absent /\ sessions[t] < ttl

(* A browser asks for a page or the stream.                                *)
Ask(b) ==
    /\ server = "up"
    /\ cookie[b] # NoToken /\ asked[b] = NoToken /\ serving[b] = "nothing"
    /\ asked' = [asked EXCEPT ![b] = cookie[b]]
    /\ UNCHANGED <<sessions, cookie, serving, process, history>>

(* A deviation: the check renews the session.                              *)
DashboardAuthRenewing(b) ==
    /\ server # "down" /\ asked[b] # NoToken
    /\ failed' \in BOOLEAN
    /\ IF ~failed' /\ Valid(asked[b])
         THEN /\ \E what \in {"page", "stream", "github"} :
                     serving' = [serving EXCEPT ![b] = what]
              /\ sessions' = [sessions EXCEPT ![asked[b]] = 0]
         ELSE UNCHANGED <<sessions, serving>>
    /\ asked' = [asked EXCEPT ![b] = NoToken]
    /\ UNCHANGED <<cookie, process, login, revoked>>

(* The check of DashboardAuth, and the answer of the handler behind it or  *)
(* the redirection to the login page.  ValidSession makes no difference    *)
(* between a session that is not there and a row that it could not read.   *)
DashboardAuth(b) ==
    /\ server # "down" /\ asked[b] # NoToken
    /\ failed' \in BOOLEAN
    /\ IF ~failed' /\ Valid(asked[b])
         THEN \E what \in {"page", "stream", "github"} :
                  serving' = [serving EXCEPT ![b] = what]
         ELSE UNCHANGED serving
    /\ asked' = [asked EXCEPT ![b] = NoToken]
    /\ UNCHANGED <<sessions, cookie, process, login, revoked>>

(* HandleProjects waits for GitHub, with no deadline and whether or not the*)
(* browser does; then there is the board, or an error, to show.            *)
FetchProject(b) ==
    /\ serving[b] = "github"
    /\ serving' = [serving EXCEPT ![b] = "page"]
    /\ UNCHANGED <<sessions, cookie, asked, process, history>>

(* The page is written.                                                    *)
PageServed(b) ==
    /\ serving[b] = "page"
    /\ serving' = [serving EXCEPT ![b] = "nothing"]
    /\ UNCHANGED <<sessions, cookie, asked, process, history>>

(* A stream ends only with its browser.                                    *)
StreamLeft(b) ==
    /\ serving[b] = "stream"
    /\ serving' = [serving EXCEPT ![b] = "nothing"]
    /\ UNCHANGED <<sessions, cookie, asked, process, history>>

-----------------------------------------------------------------------------

Idle == \A b \in Browser : asked[b] = NoToken /\ serving[b] = "nothing"

(* The listener is closed; what is under way goes on.                      *)
Shutdown ==
    /\ server = "up" /\ server' = "stopping"
    /\ UNCHANGED <<sessions, browsers, expired, starts, history>>

GoesDown ==
    /\ server' = "down" /\ expired' = FALSE
    /\ asked' = [b \in Browser |-> NoToken]
    /\ serving' = [b \in Browser |-> "nothing"]
    /\ UNCHANGED <<sessions, cookie, starts, history>>

(* srv.Shutdown returns when nothing is under way any more, main ends.     *)
Finished == server = "stopping" /\ Idle /\ GoesDown

(* The ten seconds of the context's deadline pass.                         *)
DeadlinePasses ==
    /\ server = "stopping" /\ ~expired /\ expired' = TRUE
    /\ UNCHANGED <<sessions, browsers, server, starts, history>>

(* A deviation: Shutdown with a context that has no deadline.              *)
GivesUpNever == server = "stopping" /\ expired /\ Idle /\ GoesDown

(* srv.Shutdown returns the context's error, log.Fatalf ends the process.  *)
GivesUp == server = "stopping" /\ expired /\ GoesDown

Killed == server # "down" /\ GoesDown

(* A deviation: the cutoff is too early.                                   *)
CleanTooMuch == [t \in Token |-> IF sessions[t] < ttl - 1 THEN sessions[t]
                                                          ELSE Absent]

(* Its error is ignored: then the rows stay.                               *)
CleanExpiredSessions ==
    [t \in Token |-> IF sessions[t] > ttl THEN Absent ELSE sessions[t]]

Start ==
    /\ server = "down" /\ server' = "up"
    /\ starts < MaxStarts /\ starts' = starts + 1
    /\ sessions' \in {CleanExpiredSessions, sessions}
    /\ UNCHANGED <<browsers, expired, history>>

Older(age) == IF age \in {Absent, ttl + 1} THEN age ELSE age + 1

Tick ==
    /\ \E t \in Token : Older(login[t]) # login[t]
    /\ sessions' = [t \in Token |-> Older(sessions[t])]
    /\ login' = [t \in Token |-> Older(login[t])]
    /\ UNCHANGED <<browsers, process, revoked, failed>>

AccessNext ==
    \/ \E b \in Browser : \/ HandleLogin(b) \/ HandleLogout(b)
                          \/ Ask(b) \/ DashboardAuth(b)
                          \/ FetchProject(b) \/ PageServed(b)
                          \/ StreamLeft(b)
    \/ Shutdown \/ Finished \/ DeadlinePasses \/ GivesUp \/ Killed \/ Start
    \/ Tick

(* The server's own code runs on: goroutines of requests that wait for     *)
(* nothing, and main.  Nothing is assumed of browsers, of GitHub, or of    *)
(* the ten seconds.                                                        *)
AccessSpec ==
    /\ AccessInit /\ [][AccessNext]_accessVars
    /\ \A b \in Browser : /\ WF_accessVars(DashboardAuth(b))
                          /\ WF_accessVars(PageServed(b))
    /\ WF_accessVars(Finished) /\ WF_accessVars(GivesUp)

-----------------------------------------------------------------------------
(* Types, and that the table agrees with what logins and logouts did.      *)
AccessTypeOK ==
    /\ sessions \in [Token -> Age] /\ login \in [Token -> Age]
    /\ cookie \in [Browser -> Token \cup {NoToken}]
    /\ asked \in [Browser -> Token \cup {NoToken}]
    /\ serving \in [Browser -> {"nothing", "page", "stream", "github"}]
    /\ server \in {"up", "stopping", "down"}
    /\ expired \in BOOLEAN
    /\ expired => server = "stopping"
    /\ starts \in 1..MaxStarts
    /\ revoked \subseteq Token /\ failed \in BOOLEAN
    /\ \A t \in Token : sessions[t] \in {Absent, login[t]}
    /\ server = "down" => Idle

(* The answers of the check, as steps.                                     *)
Passes(b, t)  == asked[b] = t /\ serving'[b] # serving[b] /\ asked'[b] = NoToken
Refuses(b, t) == /\ asked[b] = t /\ asked'[b] = NoToken
                 /\ serving'[b] = serving[b] /\ server' # "down"

(* The check agrees with the past, whatever restarts, cleanings that fail  *)
(* or not, and logouts of others came between: it passes nobody but who    *)
(* logged in less than ttl ago and has not been logged out since, and them *)
(* it refuses only if it could not read the table.                         *)
CheckAgreesWithLogins ==
    [][\A b \in Browser, t \in Token :
           /\ Passes(b, t) => login[t] < ttl /\ t \notin revoked
           /\ Refuses(b, t) =>
                  login[t] >= ttl \/ t \in revoked \/ failed']_accessVars

(* What may hold the server for good: a stream, for its browser may never  *)
(* leave, and the page that waits for GitHub.                              *)
Held == \E b \in Browser : serving[b] \in {"stream", "github"}

(* Shutdown waits for what is under way, and only so long: if streams and  *)
(* GitHub let go, or the ten seconds pass, the server is down in the end.  *)
(* No new request can keep it up, nor can one that was asked or answered   *)
(* while the listener was closed.                                          *)
ShutdownEnds ==
    (server = "stopping" ~> expired \/ ~Held)
        => (server = "stopping" ~> server = "down")

=============================================================================
