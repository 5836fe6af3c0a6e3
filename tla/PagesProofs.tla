---------------------------- MODULE PagesProofs ----------------------------
(***************************************************************************)
(* Proofs about the pages of the web application for any number of events, *)
(* images and accounts: that codes of every kind pay once, that what is    *)
(* due stays offered, that imports are followed, that the register machine *)
(* follows its switch, that forms save their own, that what is only on     *)
(* screen stays there, that nothing waits for what is over, and that the   *)
(* gallery shows what the site has.  The invariant says of the page on     *)
(* screen what it needs; a page that is left says nothing, but for         *)
(* registrations, which the site goes on with.                             *)
(***************************************************************************)
EXTENDS MCPages, FiniteSetTheorems, FunctionTheorems, WellFoundedInduction, TLAPS

\* A request has exactly the fields of a request.
IsCall(c) == c = [op |-> c.op, arg |-> c.arg, by |-> c.by, got |-> c.got]
CallsOK == \A c \in calls : IsCall(c)
PageOK == "at" \in DOMAIN page /\ page.at \in UserPageNames \cup {"away"} /\ clicks \in Nat

\* The page on which codes are redeemed: the balance is what the redeemed codes are worth, and no code
\* is the user's and somebody else's.
RedeemSite(s) ==
    /\ s = [used |-> s.used, taken |-> s.taken, balance |-> s.balance]
    /\ IsFiniteSet(s.used) /\ s.balance = Cardinality(s.used) /\ s.used \cap s.taken = {}

\* What the site keeps belongs to the page on screen.
SiteOK ==
    /\ At("redeem") => RedeemSite(site)
    /\ At("membership") => "accounts" \notin DOMAIN site
    /\ At("register") => Registering

\* The values of the accounts, of the codes sent by mail and of the requests to register.
Visitors == {Visitor, Another}
Registration == [who : Visitors, code : Int, promo : BOOLEAN]
Code == [who : Visitors, guesses : Int, used : BOOLEAN]
Account == [who : Visitors, promo : BOOLEAN, row : SUBSET Int]

RegisterSite(s) ==
    /\ s = [settings |-> s.settings, accounts |-> s.accounts, lock |-> s.lock, codes |-> s.codes,
            gone |-> s.gone, invitation |-> s.invitation, promo |-> s.promo]
    /\ s.settings \in [verify : BOOLEAN, invite : BOOLEAN]
    /\ IsFiniteSet(s.accounts) /\ s.accounts \subseteq Account
    /\ s.codes \in Seq(Code)
    /\ s.invitation \in [on : BOOLEAN, by : Int]
    /\ s.promo \in [on : BOOLEAN, used : Int]

\* What accounts were made with is accounted for: the promotion code, the invitation, the mailed codes.
PaidFor(s) ==
    LET paid == {a \in s.accounts : a.promo} IN
    /\ s.promo.used = Cardinality(paid) /\ s.promo.used <= 1
    /\ \A a, b \in s.accounts : a # b => a.who # b.who /\ a.row \cap b.row = {}
    /\ s.settings.invite => \A a \in s.accounts : s.invitation.by = a.who

\* A code that made an account exists, is used, and was for the address of that account.
RowsAreUsed(s) ==
    \A a \in s.accounts :
        /\ a.row \subseteq DOMAIN s.codes
        /\ \A n \in a.row : s.codes[n].used
        /\ s.settings.verify => \E n \in a.row : s.codes[n].who = a.who /\ s.codes[n].guesses < MaxGuesses

\* Requests of those who register carry what can be asked for.
Asked(c) ==
    /\ c.op \in {"send", "mailing"} => c.arg \in Visitors
    /\ c.op \in {"register", "registering"} => c.arg \in Registration /\ c.by \in Int

\* A registration between its check and its commit holds the lock, its address is free, and its code is
\* the one that the check found: nobody spends it meanwhile.
Holds(s, c) ==
    /\ s.lock # Nothing
    /\ \A a \in s.accounts : a.who # c.arg.who
    /\ s.settings.verify =>
         /\ c.arg.code \in DOMAIN s.codes
         /\ s.codes[c.arg.code].who = c.arg.who /\ s.codes[c.arg.code].guesses < MaxGuesses

\* One registration at most is between its check and its commit.
OneHolds(s, cs) ==
    \A c \in cs : c.op = "registering" => Holds(s, c) /\ \A d \in cs : d.op = "registering" => d = c

RegisterInv(s, cs) ==
    RegisterSite(s) /\ PaidFor(s) /\ RowsAreUsed(s) /\ OneHolds(s, cs) /\ \A c \in cs : Asked(c)

\* The inductive invariant of the three pages of a user, and of registrations that outlive their page.
UserInv == PageOK /\ CallsOK /\ SiteOK /\ (Registering => RegisterInv(site, calls))

-----------------------------------------------------------------------------
\* An answer changes nothing else of its request.
LEMMA GotKeeps ==
    ASSUME NEW c, IsCall(c), NEW g
    PROVE  /\ IsCall([c EXCEPT !.got = g])
           /\ [c EXCEPT !.got = g].op = c.op /\ [c EXCEPT !.got = g].arg = c.arg
           /\ [c EXCEPT !.got = g].by = c.by /\ [c EXCEPT !.got = g].got = g
BY DEF IsCall

\* The next stage of a request changes nothing else of it.
LEMMA OpKeeps ==
    ASSUME NEW c, IsCall(c), NEW o
    PROVE  /\ IsCall([c EXCEPT !.op = o])
           /\ [c EXCEPT !.op = o].op = o /\ [c EXCEPT !.op = o].arg = c.arg
           /\ [c EXCEPT !.op = o].by = c.by /\ [c EXCEPT !.op = o].got = c.got
BY DEF IsCall

\* Redeeming, answering and listing codes keep the invariant: a code that is the user's pays once.
LEMMA RedeemStepKeeps ==
    ASSUME UserInv, NEW c \in calls, RedeemStep(c)
    PROVE  UserInv'
<1> USE DEF UserInv
<1>1. At("redeem") /\ RedeemSite(site) /\ IsCall(c)
  BY DEF RedeemStep, ServeRedeem, ServeHistory, RedeemLoaded, RedeemAnswered, RedeemReported, SiteOK, CallsOK
<1>2. ~Registering
  BY <1>1 DEF RedeemSite, Registering
<1>3. page'.at = "redeem" /\ "at" \in DOMAIN page' /\ clicks' = clicks
  BY <1>1 DEF RedeemStep, ServeRedeem, ServeHistory, RedeemLoaded, RedeemAnswered, RedeemReported, PageOK, At
<1>4. RedeemSite(site')
  <2>1. CASE site' = site
    BY <2>1, <1>1
  <2>2. CASE ServeRedeem(c) /\ RedeemFree(c.arg)
    <3>1. site' = [used |-> site.used \cup {c.arg}, taken |-> site.taken, balance |-> site.balance + 1]
      BY <2>2, <1>1 DEF ServeRedeem, RedeemSite
    <3>2. Cardinality(site.used \cup {c.arg}) = Cardinality(site.used) + 1 /\ IsFiniteSet(site.used \cup {c.arg})
      BY <2>2, <1>1, FS_AddElement DEF RedeemFree, RedeemSite
    <3> QED BY <3>1, <3>2, <2>2, <1>1 DEF RedeemFree, RedeemSite
  <2> QED BY <2>1, <2>2 DEF RedeemStep, ServeRedeem, ServeHistory, RedeemLoaded, RedeemAnswered, RedeemReported
<1>5. CallsOK'
  <2>1. CASE ServeRedeem(c) \/ ServeHistory(c)
    <3>1. PICK g : calls' = (calls \ {c}) \cup {[c EXCEPT !.got = g]}
      BY <2>1 DEF ServeRedeem, ServeHistory, Served
    <3> QED BY <3>1, <1>1, GotKeeps DEF CallsOK
  <2>2. CASE RedeemLoaded(c) \/ RedeemReported(c)
    BY <2>2 DEF RedeemLoaded, RedeemReported, CallsOK
  <2>3. CASE RedeemAnswered(c)
    BY <2>3 DEF RedeemAnswered, CallsOK, IsCall
  <2> QED BY <2>1, <2>2, <2>3 DEF RedeemStep
<1>6. ~Registering'
  BY <1>4 DEF RedeemSite, Registering
<1> QED
  BY <1>3, <1>4, <1>5, <1>6 DEF PageOK, SiteOK, At, UserPageNames

\* The answers to the page of a membership keep the invariant.
LEMMA MembershipStepKeeps ==
    ASSUME UserInv, NEW c \in calls, MembershipStep(c)
    PROVE  UserInv'
<1> USE DEF UserInv
<1>1. At("membership") /\ "accounts" \notin DOMAIN site /\ IsCall(c)
  BY DEF MembershipStep, ServeMembership, ClaimAnswered, MemberLoaded, CheckinLoaded, SiteOK, CallsOK
<1>3. page'.at = "membership" /\ "at" \in DOMAIN page' /\ clicks' = clicks
  BY <1>1 DEF MembershipStep, ServeMembership, ClaimAnswered, MemberLoaded, CheckinLoaded, MemberLoading, PageOK, At
<1>4. "accounts" \notin DOMAIN site'
  BY <1>1 DEF MembershipStep, ServeMembership, ClaimAnswered, MemberLoaded, CheckinLoaded
<1>5. CallsOK'
  <2>1. CASE ServeMembership(c)
    <3>1. PICK g : calls' = (calls \ {c}) \cup {[c EXCEPT !.got = g]}
      BY <2>1 DEF ServeMembership, Served
    <3> QED BY <3>1, <1>1, GotKeeps DEF CallsOK
  <2>2. CASE MemberLoaded(c) \/ CheckinLoaded(c)
    BY <2>2 DEF MemberLoaded, CheckinLoaded, CallsOK
  <2>3. CASE ClaimAnswered(c)
    <3>1. \A d \in MemberLoads(c.by, "claim") : IsCall(d)
      BY DEF MemberLoads, IsCall
    <3> QED BY <2>3, <3>1 DEF ClaimAnswered, CallsOK
  <2> QED BY <2>1, <2>2, <2>3 DEF MembershipStep
<1> QED
  BY <1>3, <1>4, <1>5 DEF PageOK, SiteOK, At, UserPageNames, Registering

\* So do the events of the two pages, and leaving them.
LEMMA EventsKeep ==
    ASSUME UserInv, RedeemNext \/ MembershipNext \/ LeaveUserPage
    PROVE  UserInv'
<1> USE DEF UserInv
<1>1. clicks' \in Nat
  BY DEF RedeemNext, MembershipNext, LeaveUserPage, Event, PageOK, RedeemRetry, HandleRedeem, CodeTaken,
     MemberRefresh,
     CheckinRetry, HandleClaimCheckin
<1>2. CASE RedeemNext
  <2>1. At("redeem") /\ RedeemSite(site)
    BY <1>2 DEF RedeemNext, RedeemRetry, HandleRedeem, CodeTaken, Event, SiteOK
  <2>2. page'.at = "redeem" /\ "at" \in DOMAIN page'
    BY <1>2, <2>1 DEF RedeemNext, RedeemRetry, HandleRedeem, CodeTaken, PageOK, At
  <2>3. CallsOK'
    BY <1>2 DEF RedeemNext, RedeemRetry, HandleRedeem, CodeTaken, Asks, CallsOK, IsCall
  <2>4. RedeemSite(site')
    <3>1. CASE site' = site
      BY <3>1, <2>1
    <3>2. ASSUME NEW code \in RedeemCodes, CodeTaken(code)
          PROVE  RedeemSite(site')
      <4>1. site' = [used |-> site.used, taken |-> site.taken \cup {code}, balance |-> site.balance]
        BY <3>2, <2>1 DEF CodeTaken, RedeemSite
      <4> QED BY <3>2, <4>1, <2>1 DEF CodeTaken, RedeemFree, RedeemSite
    <3> QED BY <3>1, <3>2, <1>2 DEF RedeemNext, RedeemRetry, HandleRedeem
  <2>5. ~Registering'
    BY <2>4 DEF RedeemSite, Registering
  <2> QED BY <1>1, <2>2, <2>3, <2>4, <2>5 DEF PageOK, SiteOK, At, UserPageNames
<1>3. CASE MembershipNext
  <2>1. At("membership") /\ "accounts" \notin DOMAIN site /\ site' = site
    BY <1>3 DEF MembershipNext, MemberRefresh, CheckinRetry, HandleClaimCheckin, Event, SiteOK
  <2>2. page'.at = "membership" /\ "at" \in DOMAIN page'
    BY <1>3, <2>1 DEF MembershipNext, MemberRefresh, CheckinRetry, HandleClaimCheckin, MemberLoading, PageOK, At
  <2>3. CallsOK'
    BY <1>3 DEF MembershipNext, MemberRefresh, CheckinRetry, HandleClaimCheckin, MemberLoads, Asks, CallsOK, IsCall
  <2> QED BY <1>1, <2>1, <2>2, <2>3 DEF PageOK, SiteOK, At, UserPageNames, Registering
<1>4. CASE LeaveUserPage
  <2>1. page' = Left /\ calls' = {} /\ site' = site /\ (At("redeem") \/ At("membership"))
    BY <1>4 DEF LeaveUserPage, UserPageNames, At
  <2>2. ~Registering'
    BY <2>1 DEF SiteOK, RedeemSite, Registering
  <2> QED BY <1>1, <2>1, <2>2 DEF PageOK, SiteOK, CallsOK, At, Left, UserPageNames
<1> QED
  BY <1>2, <1>3, <1>4

\* A request that fails keeps the invariant: a registration at work fails only on its way back.
LEMMA FailsKeep ==
    ASSUME UserInv, NEW c, UserPageFails(c)
    PROVE  UserInv'
<1> USE DEF UserInv
<1>1. /\ c \in calls /\ IsCall(c) /\ c.op \notin {"mailing", "registering"}
      /\ calls' = (calls \ {c}) \cup {[c EXCEPT !.got = Failure]} /\ page' = page /\ site' = site
  BY DEF UserPageFails, Fails, Served, CallsOK
<1>2. clicks' \in Nat
  BY DEF UserPageFails, Event, PageOK
<1>3. CallsOK'
  BY <1>1, GotKeeps DEF CallsOK
<1>4. ASSUME Registering PROVE RegisterInv(site, calls')
  <2> DEFINE d == [c EXCEPT !.got = Failure]
  <2>1. d.op = c.op /\ d.arg = c.arg /\ d.by = c.by
    BY <1>1, GotKeeps
  <2>2. Asked(c)
    BY <1>1, <1>4 DEF RegisterInv
  <2>3. Asked(d)
    BY <2>1, <2>2 DEF Asked
  <2>4. calls' = (calls \ {c}) \cup {d}
    BY <1>1
  <2> HIDE DEF d
  <2>5. \A x \in calls' : Asked(x)
    BY <2>3, <2>4, <1>4 DEF RegisterInv
  <2>6. OneHolds(site, calls')
    BY <2>1, <2>4, <1>1, <1>4 DEF RegisterInv, OneHolds
  <2> QED BY <2>5, <2>6, <1>4 DEF RegisterInv
<1> QED
  BY <1>1, <1>2, <1>3, <1>4 DEF PageOK, SiteOK, At, Registering

\* Steps of the page on which one registers, that change nothing on the site.
LEMMA QuietKeeps ==
    ASSUME UserInv, Registering, site' = site, calls' \subseteq calls
    PROVE  RegisterInv(site, calls')
BY DEF UserInv, RegisterInv, OneHolds

\* One more request that is not yet at work keeps what holds of those who register.
LEMMA AskedKeeps ==
    ASSUME RegisterInv(site, calls), NEW d, Asked(d), d.op # "registering", calls' \subseteq calls \cup {d}
    PROVE  RegisterInv(site, calls')
<1>1. \A x \in calls' : Asked(x)
  BY DEF UserInv, RegisterInv
<1>2. OneHolds(site, calls')
  BY DEF UserInv, RegisterInv, OneHolds
<1> QED
  BY <1>1, <1>2 DEF UserInv, RegisterInv

\* The events of the page on which one registers keep the invariant.
LEMMA RegisterEventsKeep ==
    ASSUME UserInv, RegisterNext
    PROVE  UserInv'
<1> USE DEF UserInv
<1>1. At("register") /\ Registering /\ RegisterInv(site, calls) /\ clicks' = clicks + 1 /\ clicks' \in Nat
  <2>1. At("register") /\ clicks' = clicks + 1
    BY DEF RegisterNext, HandleReloadSettings, HandleSendCode, HandleRegister, AnotherVisitor, CodesWithdrawn, Event
  <2> QED BY <2>1 DEF SiteOK, PageOK
<1>2. page'.at = "register" /\ "at" \in DOMAIN page'
  BY <1>1 DEF RegisterNext, HandleReloadSettings, HandleSendCode, HandleRegister, AnotherVisitor, CodesWithdrawn,
     PageOK, At
<1>3. CallsOK'
  BY DEF RegisterNext, HandleReloadSettings, HandleSendCode, HandleRegister, AnotherVisitor, CodesWithdrawn,
     Asks, CallsOK, IsCall
<1>4. Registering' /\ RegisterInv(site', calls')
  <2>1. CASE HandleReloadSettings
    <3> DEFINE d == Asks("settings", Nothing)
    <3>1. Asked(d) /\ d.op # "registering"
      BY DEF Asked, Asks
    <3>2. calls' \subseteq calls \cup {d} /\ site' = site
      BY <2>1 DEF HandleReloadSettings
    <3> HIDE DEF d
    <3> QED BY <3>1, <3>2, <1>1, AskedKeeps DEF Registering
  <2>2. CASE HandleSendCode
    <3> DEFINE d == Asks("send", Visitor)
    <3>1. Asked(d) /\ d.op # "registering"
      BY DEF Asked, Asks, Visitors
    <3>2. calls' \subseteq calls \cup {d} /\ site' = site
      BY <2>2 DEF HandleSendCode
    <3> HIDE DEF d
    <3> QED BY <3>1, <3>2, <1>1, AskedKeeps DEF Registering
  <2>3. CASE HandleRegister
    <3>1. PICK code \in 0 .. Len(site.codes), promo \in BOOLEAN :
            calls' = calls \cup {Asks("register", [who |-> Visitor, code |-> code, promo |-> promo])} /\ site' = site
      BY <2>3 DEF HandleRegister
    <3> DEFINE d == Asks("register", [who |-> Visitor, code |-> code, promo |-> promo])
    <3>2. code \in Int /\ clicks' \in Int
      BY <1>1
    <3>3. Asked(d) /\ d.op # "registering"
      BY <3>2 DEF Asked, Asks, Visitors, Registration
    <3>4. calls' \subseteq calls \cup {d} /\ site' = site
      BY <3>1
    <3> HIDE DEF d
    <3> QED BY <3>3, <3>4, <1>1, AskedKeeps DEF Registering
  <2>4. CASE AnotherVisitor
    <3>1. PICK promo \in BOOLEAN :
            calls' = calls \cup {Asks("register", [who |-> Another, code |-> 1, promo |-> promo])} /\ site' = site
      BY <2>4 DEF AnotherVisitor
    <3> DEFINE d == Asks("register", [who |-> Another, code |-> 1, promo |-> promo])
    <3>3. Asked(d) /\ d.op # "registering"
      BY <1>1 DEF Asked, Asks, Visitors, Registration
    <3>4. calls' \subseteq calls \cup {d} /\ site' = site
      BY <3>1
    <3> HIDE DEF d
    <3> QED BY <3>3, <3>4, <1>1, AskedKeeps DEF Registering
  <2>5. CASE CodesWithdrawn
    <3>1. PICK i \in [on : BOOLEAN, by : Int], p \in [on : BOOLEAN, used : Int] :
            /\ site' = [settings |-> site.settings, accounts |-> site.accounts, lock |-> site.lock, codes |-> site.codes,
                        gone |-> site.gone, invitation |-> i, promo |-> p]
            /\ i.by = site.invitation.by /\ p.used = site.promo.used
      <4>1. CASE site' = [site EXCEPT !.invitation.on = FALSE]
        <5> DEFINE i == [site.invitation EXCEPT !.on = FALSE]
        <5>1. i \in [on : BOOLEAN, by : Int] /\ i.by = site.invitation.by
          BY <1>1 DEF RegisterInv, RegisterSite
        <5>2. site' = [site EXCEPT !.invitation = i]
          BY <4>1
        <5> HIDE DEF i
        <5> QED BY <5>1, <5>2, <1>1 DEF RegisterInv, RegisterSite
      <4>2. CASE site' = [site EXCEPT !.promo.on = FALSE]
        <5> DEFINE i == [site.promo EXCEPT !.on = FALSE]
        <5>1. i \in [on : BOOLEAN, used : Int] /\ i.used = site.promo.used
          BY <1>1 DEF RegisterInv, RegisterSite
        <5>2. site' = [site EXCEPT !.promo = i]
          BY <4>2
        <5> HIDE DEF i
        <5> QED BY <5>1, <5>2, <1>1 DEF RegisterInv, RegisterSite
      <4> QED BY <4>1, <4>2, <2>5 DEF CodesWithdrawn
    <3>2. calls' = calls
      BY <2>5 DEF CodesWithdrawn
    <3>3. RegisterSite(site')
      BY <3>1, <1>1 DEF RegisterInv, RegisterSite
    <3>4. PaidFor(site')
      BY <3>1, <1>1 DEF RegisterInv, PaidFor
    <3>5. RowsAreUsed(site') /\ OneHolds(site', calls)
      BY <3>1, <1>1 DEF RegisterInv, RowsAreUsed, OneHolds, Holds
    <3>6. Registering'
      BY <3>1 DEF Registering
    <3> QED BY <3>2, <3>3, <3>4, <3>5, <3>6, <1>1 DEF RegisterInv
  <2> QED BY <2>1, <2>2, <2>3, <2>4, <2>5 DEF RegisterNext
<1> QED
  BY <1>1, <1>2, <1>3, <1>4 DEF PageOK, SiteOK, At, UserPageNames

\* So do the answers that the page hears.
LEMMA AnswersKeep ==
    ASSUME UserInv, NEW c \in calls,
           ServeSettings(c) \/ RegisterSettings(c) \/ SendCodeDone(c) \/ RegisterAnswered(c)
    PROVE  UserInv'
<1> USE DEF UserInv
<1>1. At("register") /\ Registering /\ site' = site /\ clicks' = clicks /\ IsCall(c)
  BY DEF ServeSettings, RegisterSettings, SendCodeDone, RegisterAnswered, SiteOK, CallsOK
<1>2. page'.at \in {"register", "away"} /\ "at" \in DOMAIN page'
  <2>1. CASE page' = page
    BY <1>1, <2>1 DEF PageOK, At
  <2>2. CASE RegisterSettings(c) \/ SendCodeDone(c)
    BY <1>1, <2>2 DEF RegisterSettings, SendCodeDone, PageOK, At
  <2>3. CASE page' = Left
    BY <2>3 DEF Left
  <2>4. CASE page' = [page EXCEPT !.submitting = FALSE]
    BY <1>1, <2>4 DEF PageOK, At
  <2> QED BY <2>1, <2>2, <2>3, <2>4 DEF ServeSettings, RegisterAnswered
<1>3. CASE ServeSettings(c)
  <2>1. PICK g : calls' = (calls \ {c}) \cup {[c EXCEPT !.got = g]} /\ c.op = "settings"
    BY <1>3 DEF ServeSettings, Served, Pending
  <2> DEFINE d == [c EXCEPT !.got = g]
  <2>2. IsCall(d) /\ d.op = "settings"
    BY <2>1, <1>1, GotKeeps
  <2>d. calls' = (calls \ {c}) \cup {d}
    BY <2>1
  <2> HIDE DEF d
  <2>3. Asked(d)
    BY <2>2 DEF Asked
  <2>4. RegisterInv(site, calls')
    BY <2>d, <2>2, <2>3, <1>1, AskedKeeps
  <2>5. CallsOK'
    BY <2>d, <2>2 DEF CallsOK
  <2> QED BY <1>1, <1>2, <2>4, <2>5 DEF PageOK, SiteOK, At, UserPageNames, Registering
<1>4. CASE ~ServeSettings(c)
  <2>1. calls' \subseteq calls
    BY <1>4 DEF RegisterSettings, SendCodeDone, RegisterAnswered
  <2>2. CallsOK' /\ RegisterInv(site, calls')
    BY <2>1, <1>1, QuietKeeps DEF CallsOK
  <2> QED BY <1>1, <1>2, <2>2 DEF PageOK, SiteOK, At, UserPageNames, Registering
<1> QED
  BY <1>3, <1>4

\* A step of the site for those who register, with a page or without one.
LEMMA SiteStepKeeps ==
    ASSUME UserInv, Registering, UNCHANGED <<page, clicks>>, CallsOK', Registering', RegisterInv(site', calls')
    PROVE  UserInv'
BY DEF UserInv, PageOK, SiteOK, At, UserPageNames, RedeemSite, Registering

\* Where registrations are kept, no other page of a user is on screen.
LEMMA NotRedeeming ==
    ASSUME UserInv, Registering
    PROVE  ~At("redeem") /\ ~At("membership") /\ RegisterInv(site, calls)
BY DEF UserInv, SiteOK, RedeemSite, Registering

\* A code that is stored before it is mailed belongs to no account yet.
LEMMA StoreCodeKeeps ==
    ASSUME UserInv, NEW c \in calls, StoreCode(c)
    PROVE  UserInv'
<1>1. Registering /\ RegisterInv(site, calls) /\ IsCall(c) /\ c.op = "send" /\ Asked(c) /\ UNCHANGED <<page, clicks>>
  BY DEF UserInv, StoreCode, Pending, CallsOK, RegisterInv
<1>2. CASE Served(c, Failure) /\ site' = site
  <2> DEFINE d == [c EXCEPT !.got = Failure]
  <2>1. calls' = (calls \ {c}) \cup {d}
    BY <1>2 DEF Served
  <2>2. IsCall(d) /\ d.op = "send" /\ d.arg = c.arg
    BY <1>1, GotKeeps
  <2> HIDE DEF d
  <2>3. Asked(d)
    BY <2>2, <1>1 DEF Asked
  <2>4. RegisterInv(site, calls')
    BY <2>1, <2>2, <2>3, <1>1, <1>2, AskedKeeps
  <2>5. CallsOK'
    BY <2>1, <2>2 DEF CallsOK, UserInv
  <2> QED BY <1>1, <1>2, <2>4, <2>5, SiteStepKeeps DEF Registering
<1>3. CASE /\ site' = [site EXCEPT !.codes = Append(@, [who |-> c.arg, guesses |-> 0, used |-> FALSE])]
           /\ calls' = (calls \ {c}) \cup {[c EXCEPT !.op = "mailing", !.got = Len(site.codes) + 1]}
  <2> DEFINE d == [c EXCEPT !.op = "mailing", !.got = Len(site.codes) + 1]
             r == [who |-> c.arg, guesses |-> 0, used |-> FALSE]
             s == site.codes
             t == Append(site.codes, r)
  <2>1. calls' = (calls \ {c}) \cup {d} /\ IsCall(d) /\ d.op = "mailing" /\ d.arg = c.arg
    <3>1. calls' = (calls \ {c}) \cup {d}
      BY <1>3
    <3> DEFINE e == [c EXCEPT !.op = "mailing"]
               f == [e EXCEPT !.got = Len(site.codes) + 1]
    <3>2. IsCall(e) /\ e.op = "mailing" /\ e.arg = c.arg /\ e.by = c.by
      BY <1>1, OpKeeps
    <3>3. d = f
      OBVIOUS
    <3> HIDE DEF d, e
    <3>4. IsCall(f) /\ f.op = e.op /\ f.arg = e.arg /\ f.by = e.by
      BY <3>2, GotKeeps
    <3> HIDE DEF f
    <3> QED BY <3>1, <3>2, <3>3, <3>4
  <2>2. r \in Code /\ s \in Seq(Code)
    BY <1>1 DEF Asked, Code, RegisterInv, RegisterSite
  <2>3. t \in Seq(Code) /\ Len(t) = Len(s) + 1 /\ (\A n \in 1 .. Len(s) : t[n] = s[n]) /\ Len(s) \in Nat
        /\ DOMAIN s = 1 .. Len(s) /\ DOMAIN t = 1 .. Len(t)
    <3> HIDE DEF r
    <3> QED BY <2>2
  <2>4. DOMAIN s \subseteq DOMAIN t /\ \A n \in DOMAIN s : t[n] = s[n]
    <3> HIDE DEF s, t
    <3> QED BY <2>3
  <2>5. site' = [settings |-> site.settings, accounts |-> site.accounts, lock |-> site.lock, codes |-> t,
                 gone |-> site.gone, invitation |-> site.invitation, promo |-> site.promo]
    BY <1>1, <1>3 DEF RegisterInv, RegisterSite
  <2>t. t \in Seq(Code)
    BY <2>3
  <2> HIDE DEF d, t
  <2>6. RegisterSite(site') /\ PaidFor(site')
    BY <2>5, <2>t, <1>1 DEF RegisterInv, RegisterSite, PaidFor
  <2>7. RowsAreUsed(site')
    BY <2>4, <2>5, <1>1 DEF RegisterInv, RowsAreUsed
  <2>8. OneHolds(site', calls')
    <3>1. OneHolds(site', calls)
      BY <2>4, <2>5, <1>1 DEF RegisterInv, OneHolds, Holds
    <3> QED BY <3>1, <2>1 DEF OneHolds
  <2>9. \A x \in calls' : Asked(x)
    BY <2>1, <1>1 DEF Asked, RegisterInv
  <2>10. CallsOK' /\ Registering'
    BY <2>1, <2>5 DEF CallsOK, Registering, UserInv
  <2> QED BY <1>1, <2>6, <2>7, <2>8, <2>9, <2>10, SiteStepKeeps DEF RegisterInv
<1> QED
  BY <1>2, <1>3 DEF StoreCode

\* Mailing the code, or failing to, which takes it out of use, keeps the invariant.
LEMMA MailCodeKeeps ==
    ASSUME UserInv, NEW c \in calls, MailCode(c)
    PROVE  UserInv'
<1>1. Registering /\ RegisterInv(site, calls) /\ IsCall(c) /\ c.op = "mailing" /\ Asked(c) /\ UNCHANGED <<page, clicks>>
  BY DEF UserInv, MailCode, Under, CallsOK, RegisterInv
<1>2. PICK g : calls' = (calls \ {c}) \cup {[c EXCEPT !.op = "send", !.got = g]}
  BY DEF MailCode
<1> DEFINE d == [c EXCEPT !.op = "send", !.got = g]
<1>3. calls' = (calls \ {c}) \cup {d} /\ IsCall(d) /\ d.op = "send" /\ d.arg = c.arg
  <2>1. calls' = (calls \ {c}) \cup {d}
    BY <1>2
  <2> DEFINE e == [c EXCEPT !.op = "send"]
             f == [e EXCEPT !.got = g]
  <2>2. IsCall(e) /\ e.op = "send" /\ e.arg = c.arg /\ e.by = c.by
    BY <1>1, OpKeeps
  <2>3. d = f
    OBVIOUS
  <2> HIDE DEF d, e
  <2>4. IsCall(f) /\ f.op = e.op /\ f.arg = e.arg /\ f.by = e.by
    BY <2>2, GotKeeps
  <2> HIDE DEF f
  <2> QED BY <2>1, <2>2, <2>3, <2>4
<1>4. PICK gone : site' = [settings |-> site.settings, accounts |-> site.accounts, lock |-> site.lock, codes |-> site.codes,
                           gone |-> gone, invitation |-> site.invitation, promo |-> site.promo]
  <2>1. CASE site' = site
    BY <2>1, <1>1 DEF RegisterInv, RegisterSite
  <2>2. CASE site' = [site EXCEPT !.gone = @ \cup {c.got}]
    BY <2>2, <1>1 DEF RegisterInv, RegisterSite
  <2> QED BY <2>1, <2>2 DEF MailCode
<1> HIDE DEF d
<1>5. RegisterSite(site') /\ PaidFor(site')
  BY <1>4, <1>1 DEF RegisterInv, RegisterSite, PaidFor
<1>6. RowsAreUsed(site')
  BY <1>4, <1>1 DEF RegisterInv, RowsAreUsed
<1>7. OneHolds(site', calls')
  <2>1. OneHolds(site', calls)
    BY <1>4, <1>1 DEF RegisterInv, OneHolds, Holds
  <2> QED BY <2>1, <1>3 DEF OneHolds
<1>8. \A x \in calls' : Asked(x)
  BY <1>3, <1>1 DEF Asked, RegisterInv
<1>9. CallsOK' /\ Registering'
  BY <1>3, <1>4 DEF CallsOK, Registering, UserInv
<1> QED
  BY <1>1, <1>5, <1>6, <1>7, <1>8, <1>9, SiteStepKeeps DEF RegisterInv

\* A registration that passes its checks takes the lock, and then holds what they found; one that fails
\* them counts a guess and makes no account.
LEMMA CheckRegistrationKeeps ==
    ASSUME UserInv, NEW c \in calls, CheckRegistration(c)
    PROVE  UserInv'
<1> DEFINE who == c.arg.who
           guessed == ~site.settings.verify \/ c.arg.code \in Guessable(who)
<1>1. /\ Registering /\ RegisterInv(site, calls) /\ IsCall(c) /\ c.op = "register" /\ Asked(c)
      /\ site.lock = Nothing /\ UNCHANGED <<page, clicks>>
  BY DEF UserInv, CheckRegistration, Pending, CallsOK, RegisterInv
<1>2. CASE Served(c, Failure) /\ (site' = site \/ site' = [site EXCEPT !.codes = Guessed(who)])
  <2> DEFINE d == [c EXCEPT !.got = Failure]
  <2>1. calls' = (calls \ {c}) \cup {d}
    BY <1>2 DEF Served
  <2>2. IsCall(d) /\ d.op = "register" /\ d.arg = c.arg /\ d.by = c.by
    BY <1>1, GotKeeps
  <2> HIDE DEF d
  <2>3. Asked(d)
    BY <2>2, <1>1 DEF Asked
  <2>4. RegisterInv(site, calls')
    BY <2>1, <2>2, <2>3, <1>1, AskedKeeps
  <2>5. CallsOK'
    BY <2>1, <2>2 DEF CallsOK, UserInv
  <2>6. CASE site' = site
    BY <1>1, <2>4, <2>5, <2>6, SiteStepKeeps DEF Registering
  <2>7. CASE site' = [site EXCEPT !.codes = Guessed(who)]
    <3> DEFINE s == site.codes
               t == Guessed(who)
    <3>1. s \in Seq(Code)
      BY <1>1 DEF RegisterInv, RegisterSite
    <3>2. \A n \in DOMAIN s : s[n] \in Code
      BY <3>1
    <3>3. \A n \in DOMAIN s : t[n] \in Code
      BY <3>2 DEF Code, Guessed
    <3>4. t \in Seq(Code)
      <4>1. t \in [DOMAIN s -> Code]
        BY <3>3 DEF Guessed
      <4> HIDE DEF s, t
      <4> QED BY <3>1, <4>1
    <3>5. \A n \in DOMAIN s : s[n].used => t[n] = s[n]
      BY DEF Guessable, ValidRow, CodeRows, Guessed
    <3>6. DOMAIN t = DOMAIN s
      BY DEF Guessed
    <3>t. site' = [site EXCEPT !.codes = t]
      BY <2>7
    <3> HIDE DEF t
    <3>7. site' = [settings |-> site.settings, accounts |-> site.accounts, lock |-> site.lock, codes |-> t,
                   gone |-> site.gone, invitation |-> site.invitation, promo |-> site.promo]
      BY <1>1, <3>t DEF RegisterInv, RegisterSite
    <3>8. RegisterSite(site') /\ PaidFor(site')
      BY <3>4, <3>7, <1>1 DEF RegisterInv, RegisterSite, PaidFor
    <3>9. RowsAreUsed(site')
      BY <3>5, <3>6, <3>7, <1>1 DEF RegisterInv, RowsAreUsed
    <3>10. OneHolds(site', calls')
      BY <2>4, <1>1 DEF RegisterInv, OneHolds, Holds
    <3>11. Registering'
      BY <3>7 DEF Registering
    <3> QED BY <1>1, <2>4, <2>5, <3>8, <3>9, <3>10, <3>11, SiteStepKeeps DEF RegisterInv
  <2> QED BY <1>2, <2>6, <2>7
<1>3. CASE /\ ~Registered(who) /\ guessed
           /\ site' = [site EXCEPT !.lock = c.by]
           /\ calls' = (calls \ {c}) \cup {[c EXCEPT !.op = "registering"]}
  <2> DEFINE d == [c EXCEPT !.op = "registering"]
  <2>1. calls' = (calls \ {c}) \cup {d}
    BY <1>3
  <2>2. IsCall(d) /\ d.op = "registering" /\ d.arg = c.arg /\ d.by = c.by
    BY <1>1, OpKeeps
  <2> HIDE DEF d
  <2>3. site' = [settings |-> site.settings, accounts |-> site.accounts, lock |-> c.by, codes |-> site.codes,
                 gone |-> site.gone, invitation |-> site.invitation, promo |-> site.promo]
    BY <1>1, <1>3 DEF RegisterInv, RegisterSite
  <2>4. RegisterSite(site') /\ PaidFor(site') /\ RowsAreUsed(site')
    <3>1. RegisterSite(site') /\ PaidFor(site')
      BY <2>3, <1>1 DEF RegisterInv, RegisterSite, PaidFor
    <3>2. RowsAreUsed(site')
      BY <2>3, <1>1 DEF RegisterInv, RowsAreUsed
    <3> QED BY <3>1, <3>2
  <2>5. \A x \in calls : x.op # "registering"
    BY <1>1 DEF RegisterInv, OneHolds, Holds
  <2>6. Holds(site', d)
    <3>1. c.by # Nothing
      BY <1>1, PageAssumption DEF Asked
    <3>2. \A a \in site.accounts : a.who # who
      BY <1>3 DEF Registered
    <3>3. site.settings.verify => /\ c.arg.code \in DOMAIN site.codes
                                  /\ site.codes[c.arg.code].who = who /\ site.codes[c.arg.code].guesses < MaxGuesses
      <4>1. site.codes \in Seq(Code)
        BY <1>1 DEF RegisterInv, RegisterSite
      <4>2. DOMAIN site.codes = 1 .. Len(site.codes)
        BY <4>1
      <4> QED BY <1>3, <4>2 DEF Guessable, ValidRow, CodeRows
    <3> QED BY <3>1, <3>2, <3>3, <2>2, <2>3 DEF Holds
  <2>7. OneHolds(site', calls')
    BY <2>1, <2>5, <2>6 DEF OneHolds
  <2>8. \A x \in calls' : Asked(x)
    BY <2>1, <2>2, <1>1 DEF Asked, RegisterInv
  <2>9. CallsOK' /\ Registering'
    BY <2>1, <2>2, <2>3 DEF CallsOK, Registering, UserInv
  <2> QED BY <1>1, <2>4, <2>7, <2>8, <2>9, SiteStepKeeps DEF RegisterInv
<1>4. CASE Registered(who)
  BY <1>2, <1>4 DEF CheckRegistration, Refused
<1>5. CASE ~Registered(who) /\ ~guessed
  <2>1. Served(c, Failure)
    BY <1>5 DEF CheckRegistration, Refused
  <2>2. site' = [site EXCEPT !.codes = Guessed(who)]
    BY <1>5 DEF CheckRegistration
  <2> QED BY <1>2, <2>1, <2>2
<1>6. CASE ~Registered(who) /\ guessed
  BY <1>2, <1>3, <1>6 DEF CheckRegistration, Refused
<1> QED
  BY <1>4, <1>5, <1>6

\* The commit makes one account of what the registration holds, and spends it.
LEMMA CommitRegistrationKeeps ==
    ASSUME UserInv, NEW c \in calls, CommitRegistration(c)
    PROVE  UserInv'
<1> DEFINE who == c.arg.who
           row == IF site.settings.verify THEN {c.arg.code} ELSE {}
           fits == /\ \A n \in row : n \notin site.gone /\ ~site.codes[n].used
                   /\ site.settings.invite => InvitationFree
                   /\ c.arg.promo => PromoFree
           unlocked == [site EXCEPT !.lock = Nothing]
<1>1. /\ Registering /\ RegisterInv(site, calls) /\ IsCall(c) /\ c.op = "registering" /\ Asked(c)
      /\ UNCHANGED <<page, clicks>>
  BY DEF UserInv, CommitRegistration, Under, CallsOK, RegisterInv
<1>2. Holds(site, c) /\ \A x \in calls : x.op = "registering" => x = c
  BY <1>1 DEF RegisterInv, OneHolds
<1>3. PICK d : /\ calls' = (calls \ {c}) \cup {d}
               /\ IsCall(d) /\ d.op = "register" /\ d.arg = c.arg /\ d.by = c.by
  <2> DEFINE e == [c EXCEPT !.op = "register"]
  <2>1. PICK g : calls' = (calls \ {c}) \cup {[c EXCEPT !.op = "register", !.got = g]}
    BY DEF CommitRegistration
  <2> DEFINE f == [e EXCEPT !.got = g]
  <2>2. calls' = (calls \ {c}) \cup {f}
    BY <2>1
  <2>3. IsCall(e) /\ e.op = "register" /\ e.arg = c.arg /\ e.by = c.by
    BY <1>1, OpKeeps
  <2> HIDE DEF e
  <2>4. IsCall(f) /\ f.op = e.op /\ f.arg = e.arg /\ f.by = e.by
    BY <2>3, GotKeeps
  <2> HIDE DEF f
  <2> QED BY <2>2, <2>3, <2>4
<1>4. CallsOK' /\ (\A x \in calls' : Asked(x)) /\ (\A x \in calls' : x.op # "registering")
  <2>1. Asked(d)
    BY <1>1, <1>3 DEF Asked
  <2> QED BY <1>1, <1>2, <1>3, <2>1 DEF CallsOK, UserInv, RegisterInv
<1>5. OneHolds(site', calls')
  BY <1>4 DEF OneHolds
<1>6. unlocked = [settings |-> site.settings, accounts |-> site.accounts, lock |-> Nothing, codes |-> site.codes,
                  gone |-> site.gone, invitation |-> site.invitation, promo |-> site.promo]
  BY <1>1 DEF RegisterInv, RegisterSite
<1>7. Registering' /\ RegisterSite(site') /\ PaidFor(site') /\ RowsAreUsed(site')
  <2>1. CASE site' = unlocked
    <3> HIDE DEF unlocked
    <3>1. RegisterSite(site') /\ PaidFor(site')
      BY <2>1, <1>6, <1>1 DEF RegisterInv, RegisterSite, PaidFor
    <3>2. RowsAreUsed(site') /\ Registering'
      BY <2>1, <1>6, <1>1 DEF RegisterInv, RowsAreUsed, Registering
    <3> QED BY <3>1, <3>2
  <2> DEFINE a == [who |-> who, promo |-> c.arg.promo, row |-> row]
             s == site.codes
             t == Spent(row)
             by == IF site.settings.invite THEN who ELSE site.invitation.by
             used == site.promo.used + (IF c.arg.promo THEN 1 ELSE 0)
             i == [site.invitation EXCEPT !.by = by]
             p == [site.promo EXCEPT !.used = used]
  <2>2. CASE /\ fits
             /\ site' = [unlocked EXCEPT !.accounts = @ \cup {a}, !.codes = t, !.invitation.by = by, !.promo.used = used]
    <3>1. site' = [settings |-> site.settings, accounts |-> site.accounts \cup {a}, lock |-> Nothing, codes |-> t,
                   gone |-> site.gone, invitation |-> i, promo |-> p]
      <4> DEFINE u1 == [unlocked EXCEPT !.accounts = site.accounts \cup {a}]
                 u2 == [u1 EXCEPT !.codes = t]
                 u3 == [u2 EXCEPT !.invitation = i]
                 u4 == [u3 EXCEPT !.promo = p]
      <4>1. site' = u4
        BY <2>2, <1>6
      <4> HIDE DEF unlocked, a, t, i, p
      <4>2. u1 = [settings |-> site.settings, accounts |-> site.accounts \cup {a}, lock |-> Nothing, codes |-> site.codes,
                  gone |-> site.gone, invitation |-> site.invitation, promo |-> site.promo]
        BY <1>6
      <4> HIDE DEF u1
      <4>3. u2 = [settings |-> site.settings, accounts |-> site.accounts \cup {a}, lock |-> Nothing, codes |-> t,
                  gone |-> site.gone, invitation |-> site.invitation, promo |-> site.promo]
        BY <4>2
      <4> HIDE DEF u2
      <4>4. u3 = [settings |-> site.settings, accounts |-> site.accounts \cup {a}, lock |-> Nothing, codes |-> t,
                  gone |-> site.gone, invitation |-> i, promo |-> site.promo]
        BY <4>3
      <4> HIDE DEF u3
      <4> QED BY <4>1, <4>4
    <3> HIDE DEF unlocked
    <3>2. s \in Seq(Code) /\ DOMAIN s = 1 .. Len(s) /\ DOMAIN t = DOMAIN s
      BY <1>1 DEF RegisterInv, RegisterSite, Spent
    <3>3. \A n \in DOMAIN s : /\ t[n] \in Code /\ t[n].who = s[n].who /\ t[n].guesses = s[n].guesses
                              /\ (s[n].used => t[n].used) /\ (n \in row => t[n].used)
      <4>1. \A n \in DOMAIN s : s[n] \in Code
        BY <3>2
      <4> QED BY <4>1 DEF Code, Spent
    <3>4. t \in Seq(Code)
      <4>1. t \in [DOMAIN s -> Code]
        BY <3>3 DEF Spent
      <4> HIDE DEF s, t
      <4> QED BY <3>2, <4>1
    <3>5. row \subseteq DOMAIN s /\ row \subseteq Int
      BY <1>1, <1>2 DEF Holds, Asked, Registration
    <3>6. a \in Account /\ a.who = who /\ a.promo = c.arg.promo /\ a.row = row
      BY <3>5, <1>1 DEF Account, Asked, Registration
    <3>7. \A b \in site.accounts : b.who # who /\ b.row \cap row = {}
      <4>1. \A b \in site.accounts : b.who # who
        BY <1>2 DEF Holds
      <4>2. \A b \in site.accounts : \A n \in b.row : s[n].used
        BY <1>1 DEF RegisterInv, RowsAreUsed
      <4>3. \A n \in row : ~s[n].used
        BY <2>2
      <4> QED BY <4>1, <4>2, <4>3
    <3>8. by \in Int /\ used \in Int /\ i \in [on : BOOLEAN, by : Int] /\ i.by = by
          /\ p \in [on : BOOLEAN, used : Int] /\ p.used = used
      <4>1. by \in Int /\ used \in Int
        BY <1>1 DEF RegisterInv, RegisterSite, Asked, Registration, Visitors, Visitor, Another
      <4> HIDE DEF by, used
      <4> QED BY <4>1, <1>1 DEF RegisterInv, RegisterSite
    <3>9. used <= 1
      BY <2>2, <1>1 DEF PromoFree, RegisterInv, RegisterSite, PaidFor
    <3>10. site.settings.invite => site.accounts = {} /\ by = who
      <4>1. site.settings.invite => site.invitation.by = 0
        BY <2>2 DEF InvitationFree
      <4>2. \A b \in site.accounts : b.who # 0
        BY <1>1 DEF RegisterInv, RegisterSite, Account, Visitors, Visitor, Another
      <4> QED BY <4>1, <4>2, <1>1 DEF RegisterInv, PaidFor
    <3>11. used = Cardinality({b \in site.accounts \cup {a} : b.promo})
      <4>1. a \notin site.accounts
        BY <3>6, <3>7
      <4> DEFINE paid == {b \in site.accounts : b.promo}
      <4>2. IsFiniteSet(paid) /\ site.promo.used = Cardinality(paid) /\ a \notin paid
        BY <4>1, <1>1, FS_Subset DEF RegisterInv, RegisterSite, PaidFor
      <4>3. CASE c.arg.promo
        <5>1. {b \in site.accounts \cup {a} : b.promo} = paid \cup {a}
          BY <4>3, <3>6
        <5>2. Cardinality(paid \cup {a}) = Cardinality(paid) + 1
          BY <4>2, FS_AddElement
        <5> QED BY <5>1, <5>2, <4>2, <4>3
      <4>4. CASE ~c.arg.promo
        <5>1. {b \in site.accounts \cup {a} : b.promo} = paid
          BY <4>4, <3>6
        <5>2. used = site.promo.used
          BY <4>4, <1>1 DEF RegisterInv, RegisterSite
        <5> HIDE DEF used
        <5> QED BY <5>1, <5>2, <4>2
      <4> QED BY <4>3, <4>4
    <3>12. IsFiniteSet(site.accounts \cup {a})
      BY <1>1, FS_AddElement DEF RegisterInv, RegisterSite
    <3>13. site.settings.verify => \E n \in row : s[n].who = who /\ s[n].guesses < MaxGuesses
      BY <1>2 DEF Holds
    <3> HIDE DEF a, s, t, by, used, i, p, row
    <3>14. RegisterSite(site')
      BY <3>1, <3>4, <3>6, <3>8, <3>12, <1>1 DEF RegisterInv, RegisterSite
    <3>15. PaidFor(site')
      <4>1. \A x, y \in site.accounts \cup {a} : x # y => x.who # y.who /\ x.row \cap y.row = {}
        BY <3>6, <3>7, <1>1 DEF RegisterInv, PaidFor
      <4>2. site.settings.invite => \A x \in site.accounts \cup {a} : by = x.who
        BY <3>6, <3>10
      <4> QED BY <4>1, <4>2, <3>1, <3>8, <3>9, <3>11 DEF PaidFor
    <3>16. RowsAreUsed(site')
      <4>1. ASSUME NEW b \in site.accounts
            PROVE  /\ b.row \subseteq DOMAIN t /\ \A n \in b.row : t[n].used
                   /\ site.settings.verify => \E n \in b.row : t[n].who = b.who /\ t[n].guesses < MaxGuesses
        <5>1. /\ b.row \subseteq DOMAIN s /\ \A n \in b.row : s[n].used
              /\ site.settings.verify => \E n \in b.row : s[n].who = b.who /\ s[n].guesses < MaxGuesses
          BY <1>1 DEF RegisterInv, RowsAreUsed, s
        <5>2. b.row \subseteq DOMAIN t /\ \A n \in b.row : t[n].used
          BY <5>1, <3>2, <3>3
        <5>3. site.settings.verify => \E n \in b.row : t[n].who = b.who /\ t[n].guesses < MaxGuesses
          BY <5>1, <3>2, <3>3
        <5> QED BY <5>2, <5>3
      <4>2. a.row \subseteq DOMAIN t /\ \A n \in a.row : t[n].used
        BY <3>2, <3>3, <3>5, <3>6
      <4>3. site.settings.verify => \E n \in a.row : t[n].who = a.who /\ t[n].guesses < MaxGuesses
        BY <3>3, <3>5, <3>6, <3>13
      <4> QED BY <3>1, <4>1, <4>2, <4>3 DEF RowsAreUsed
    <3>17. Registering'
      BY <3>1 DEF Registering
    <3> QED BY <3>14, <3>15, <3>16, <3>17
  <2>3. CASE fits
    BY <2>2, <2>3 DEF CommitRegistration
  <2>4. CASE ~fits
    BY <2>1, <2>4 DEF CommitRegistration
  <2> QED BY <2>3, <2>4
<1> QED
  BY <1>1, <1>4, <1>5, <1>7, SiteStepKeeps DEF RegisterInv

\* The pages open with the invariant.
LEMMA UserStarts == UserInit => UserInv
<1>1. ASSUME RedeemInit PROVE UserInv
  <2>1. RedeemSite(site) /\ ~Registering
    BY <1>1, FS_EmptySet DEF RedeemInit, RedeemSite, Registering
  <2>2. PageOK /\ CallsOK /\ page.at = "redeem"
    BY <1>1 DEF RedeemInit, EmptyRedeem, PageOK, CallsOK, IsCall, UserPageNames
  <2> QED BY <2>1, <2>2 DEF UserInv, SiteOK, At
<1>2. ASSUME MemberInit PROVE UserInv
  <2>1. PageOK /\ CallsOK /\ page.at = "membership" /\ ~Registering
    BY <1>2 DEF MemberInit, EmptyMembership, MemberLoads, PageOK, CallsOK, IsCall, UserPageNames, Registering
  <2> QED BY <2>1 DEF UserInv, SiteOK, At, Registering
<1>3. ASSUME RegisterInit PROVE UserInv
  <2>1. PICK verify \in BOOLEAN, invite \in BOOLEAN :
          site = [settings |-> [verify |-> verify, invite |-> invite], accounts |-> {}, lock |-> Nothing,
                  codes |-> <<[who |-> Another, guesses |-> 0, used |-> FALSE]>>, gone |-> {},
                  invitation |-> [on |-> TRUE, by |-> 0], promo |-> [on |-> TRUE, used |-> 0]]
    BY <1>3 DEF RegisterInit
  <2>2. page = EmptyRegister /\ clicks = 0 /\ calls = {[op |-> "settings", arg |-> Nothing, by |-> 0, got |-> Nothing]}
    BY <1>3 DEF RegisterInit
  <2>3. PageOK /\ CallsOK /\ page.at = "register" /\ Registering
    BY <2>1, <2>2 DEF EmptyRegister, PageOK, CallsOK, IsCall, UserPageNames, Registering
  <2>4. site.accounts = {} /\ site.promo.used = 0
    BY <2>1
  <2>5. site.codes \in Seq(Code)
    <3>1. [who |-> Another, guesses |-> 0, used |-> FALSE] \in Code
      BY DEF Code, Visitors
    <3> QED BY <3>1, <2>1
  <2>6. RegisterSite(site)
    <3>1. /\ site = [settings |-> site.settings, accounts |-> site.accounts, lock |-> site.lock, codes |-> site.codes,
                     gone |-> site.gone, invitation |-> site.invitation, promo |-> site.promo]
          /\ site.settings \in [verify : BOOLEAN, invite : BOOLEAN]
          /\ site.invitation \in [on : BOOLEAN, by : Int] /\ site.promo \in [on : BOOLEAN, used : Int]
      BY <2>1
    <3> QED BY <3>1, <2>4, <2>5, FS_EmptySet DEF RegisterSite
  <2>7. PaidFor(site)
    <3>1. {a \in site.accounts : a.promo} = {}
      BY <2>4
    <3> QED BY <3>1, <2>4, FS_EmptySet DEF PaidFor
  <2>8. RowsAreUsed(site)
    BY <2>4 DEF RowsAreUsed
  <2>9. OneHolds(site, calls) /\ \A c \in calls : Asked(c)
    BY <2>2 DEF OneHolds, Asked
  <2> QED BY <2>3, <2>6, <2>7, <2>8, <2>9 DEF UserInv, RegisterInv, SiteOK, At
<1> QED
  BY <1>1, <1>2, <1>3 DEF UserInit

\* Every step of these pages, and of what the site does for them, keeps it.
LEMMA UserKeeps == UserInv /\ [UserNext]_pageVars => UserInv'
<1> SUFFICES ASSUME UserInv, [UserNext]_pageVars PROVE UserInv'
  OBVIOUS
<1>1. CASE UserStep
  <2>1. PICK c \in calls : RedeemStep(c) \/ MembershipStep(c) \/ RegisterStep(c)
    BY <1>1 DEF UserStep
  <2>2. CASE RegisterStep(c)
    BY <2>2, AnswersKeep, StoreCodeKeeps, MailCodeKeeps, CheckRegistrationKeeps,
       CommitRegistrationKeeps DEF RegisterStep
  <2> QED BY <2>1, <2>2, RedeemStepKeeps, MembershipStepKeeps
<1>2. CASE LeaveUserPage \/ RedeemNext \/ MembershipNext
  BY <1>2, EventsKeep
<1>3. CASE \E c \in calls : UserPageFails(c)
  BY <1>3, FailsKeep
<1>4. CASE RegisterNext
  BY <1>4, RegisterEventsKeep
<1>5. CASE UNCHANGED pageVars
  BY <1>5 DEF pageVars, UserInv, PageOK, CallsOK, SiteOK, At, Registering
<1> QED
  BY <1>1, <1>2, <1>3, <1>4, <1>5 DEF UserNext

\* The invariant says that codes of every kind pay once.
LEMMA UserPays == UserInv => CodesPayOnce
<1> SUFFICES ASSUME UserInv PROVE RedeemPaysOnce /\ RegistrationsPaidFor
  BY DEF CodesPayOnce
<1>1. RedeemPaysOnce
  BY DEF UserInv, SiteOK, RedeemSite, RedeemPaysOnce
<1>2. ASSUME Registering PROVE RegistrationsPaidFor
  <2>1. RegisterInv(site, calls)
    BY <1>2 DEF UserInv
  <2>2. ASSUME site.settings.invite
        PROVE  Cardinality(site.accounts) <= 1 /\ \A a \in site.accounts : site.invitation.by = a.who
    <3>1. \A a \in site.accounts : site.invitation.by = a.who
      BY <2>1, <2>2 DEF RegisterInv, PaidFor
    <3>2. \A a, b \in site.accounts : a = b
      BY <2>1, <3>1 DEF RegisterInv, PaidFor
    <3>3. CASE site.accounts = {}
      BY <3>1, <3>3, FS_EmptySet
    <3>4. CASE site.accounts # {}
      <4>1. PICK a : site.accounts = {a}
        BY <3>2, <3>4
      <4>2. Cardinality({a}) = 1
        BY FS_Singleton
      <4> QED BY <3>1, <4>1, <4>2
    <3> QED BY <3>3, <3>4
  <2> QED BY <2>1, <2>2 DEF RegisterInv, PaidFor, RowsAreUsed, RegistrationsPaidFor
<1> QED
  BY <1>1, <1>2 DEF RegistrationsPaidFor

-----------------------------------------------------------------------------
(* The other pages. *)

\* The other pages: what the site keeps for them has no accounts that are being registered, and a page
\* is itself until it is left.
OtherPages == AdminLists \cup {"gallery", "imports", "machine", "forms", "update", "accounts"}
OtherSite(s) == "accounts" \notin DOMAIN s
OtherInv == "at" \in DOMAIN page /\ page.at \in OtherPages \cup {"away"} /\ OtherSite(site)
Remains(name) == "at" \in DOMAIN page' /\ page'.at \in {name, "away"} /\ OtherSite(site')

\* Every step of the gallery leaves it on screen or leaves the page.
LEMMA GalleryRemains ==
    ASSUME OtherInv, At("gallery"), GalleryNext
    PROVE  Remains("gallery")
<1>1. "at" \in DOMAIN page /\ page.at = "gallery" /\ OtherSite(site)
  BY DEF OtherInv, At
<1>2. ASSUME NEW c, ReadRows(c) \/ JudgeRows(c) \/ MarkDeleted(c) \/ Unlink(c) \/ GalleryFails(c)
      PROVE Remains("gallery")
  BY <1>1, <1>2 DEF ReadRows, JudgeRows, MarkDeleted, Unlink, GalleryFails, Fails, Remains, OtherSite
<1>3. ASSUME NEW c, GalleryAnswer(c) PROVE Remains("gallery")
  BY <1>1, <1>3 DEF GalleryAnswer, TrimmedTo, Remains, OtherSite
<1>4. ASSUME NEW c, PreviewAnswer(c) \/ ImageDeleted(c) \/ ImageDownloaded(c) PROVE Remains("gallery")
  BY <1>1, <1>4 DEF PreviewAnswer, ImageDeleted, ImageDownloaded, WithoutImage, TrimmedTo, Remains, OtherSite
<1>5. CASE NewImage \/ RefreshGallery \/ LoadMoreImages \/ DeleteImage \/ KeepImage \/ LeaveGallery
  <2>1. CASE NewImage
    BY <1>1, <2>1 DEF NewImage, Remains, OtherSite
  <2>2. CASE RefreshGallery
    BY <1>1, <2>2 DEF RefreshGallery, AskFirstPage, FirstPage, Remains
  <2>3. CASE LoadMoreImages \/ DeleteImage \/ KeepImage
    BY <1>1, <2>3 DEF LoadMoreImages, DeleteImage, KeepImage, Remains
  <2>4. CASE LeaveGallery
    BY <1>1, <2>4 DEF LeaveGallery, Left, Remains, OtherSite
  <2> QED BY <1>5, <2>1, <2>2, <2>3, <2>4
<1>6. ASSUME NEW i, ConfirmImage(i) \/ DownloadImage(i) \/ CommitImage(i) \/ LoseImage(i) PROVE Remains("gallery")
  BY <1>1, <1>6 DEF ConfirmImage, DownloadImage, CommitImage, LoseImage, Remains, OtherSite
<1> QED
  BY <1>2, <1>3, <1>4, <1>5, <1>6 DEF GalleryNext, GalleryStep

\* So does the end of a request of an administration list.
LEMMA ConcludedRemains ==
    ASSUME OtherInv, NEW list, NEW c, NEW op, NEW done, NEW reset, Concluded(list, c, op, done, reset),
           "at" \in DOMAIN done, done.at = page.at
    PROVE  Remains(page.at)
BY DEF Concluded, OtherInv, OtherSite, Remains

\* What happens on an administration list needs it on screen.
LEMMA AdminIsShown == AdminNext => page.at \in AdminLists
BY DEF AdminNext, AdminStep, AnotherAdmin, LeaveAdmin, AdminFails, CodesNext, UsersNext, PromosNext, PlansNext,
   AdminLists, At

\* Every step of the administration lists leaves the list on screen or leaves the page.
LEMMA AdminRemains ==
    ASSUME OtherInv, AdminNext
    PROVE  Remains(page.at)
<1>1. "at" \in DOMAIN page /\ OtherSite(site)
  BY DEF OtherInv
<1>3. ASSUME NEW l, LoadList(l) \/ OpenCreate(l) \/ ClosesDialog(l) PROVE Remains(page.at)
  BY <1>1, <1>3 DEF LoadList, OpenCreate, ClosesDialog, Remains, OtherSite
<1>4. ASSUME NEW l, NEW flag, NEW op, NEW pending, NEW arg, Submits(l, flag, op, pending, arg) PROVE Remains(page.at)
  BY <1>1, <1>4 DEF Submits, Remains, OtherSite
<1>5. ASSUME NEW l, NEW i, EditsItem(i) \/ Toggles(l, i) \/ ConfirmsItem(i) PROVE Remains(page.at)
  BY <1>1, <1>5 DEF EditsItem, Toggles, ConfirmsItem, Remains, OtherSite
<1>6. ASSUME NEW i, CodeRedeemed(i) PROVE Remains(page.at)
  BY <1>1, <1>6 DEF CodeRedeemed, Remains, OtherSite
<1>7. CASE CodesNext
  <2>1. CASE CodesRefresh
    BY <1>3, <2>1 DEF CodesRefresh
  <2>2. CASE CodesGenerate
    BY <1>4, <2>2 DEF CodesGenerate
  <2>3. CASE CodesUpdate
    BY <1>4, <2>3 DEF CodesUpdate
  <2>4. CASE CodesDelete
    BY <1>4, <2>4 DEF CodesDelete
  <2>5. CASE CodesDialogs
    BY <1>3, <2>5 DEF CodesDialogs
  <2>6. ASSUME NEW i, CodesEdit(i) \/ CodesToggle(i) \/ CodesConfirm(i) PROVE Remains(page.at)
    BY <1>5, <2>6 DEF CodesEdit, CodesToggle, CodesConfirm
  <2> QED BY <1>6, <1>7, <2>1, <2>2, <2>3, <2>4, <2>5, <2>6 DEF CodesNext
<1>8. CASE UsersNext
  <2>1. CASE UsersRefresh \/ UsersSearch
    BY <1>3, <2>1 DEF UsersRefresh, UsersSearch
  <2>2. CASE UsersCreate
    BY <1>4, <2>2 DEF UsersCreate
  <2>3. CASE UsersUpdate
    BY <1>4, <2>3 DEF UsersUpdate
  <2>4. CASE UsersDelete
    BY <1>4, <2>4 DEF UsersDelete
  <2>5. CASE UsersDialogs
    BY <1>3, <2>5 DEF UsersDialogs
  <2>6. ASSUME NEW i, UsersEdit(i) \/ UsersToggle(i) \/ UsersConfirm(i) PROVE Remains(page.at)
    BY <1>5, <2>6 DEF UsersEdit, UsersToggle, UsersConfirm
  <2> QED BY <1>8, <2>1, <2>2, <2>3, <2>4, <2>5, <2>6 DEF UsersNext
<1>9. CASE PromosNext
  <2>1. CASE PromosRefresh
    BY <1>3, <2>1 DEF PromosRefresh
  <2>2. CASE PromosCreate
    BY <1>4, <2>2 DEF PromosCreate
  <2>3. CASE PromosUpdate
    BY <1>4, <2>3 DEF PromosUpdate
  <2>4. CASE PromosDelete
    BY <1>4, <2>4 DEF PromosDelete
  <2>5. CASE PromosDialogs
    BY <1>3, <2>5 DEF PromosDialogs
  <2>6. ASSUME NEW i, PromosEdit(i) \/ PromosToggle(i) \/ PromosConfirm(i) PROVE Remains(page.at)
    BY <1>5, <2>6 DEF PromosEdit, PromosToggle, PromosConfirm
  <2> QED BY <1>9, <2>1, <2>2, <2>3, <2>4, <2>5, <2>6 DEF PromosNext
<1>10. CASE PlansNext
  <2>1. CASE PlansRefresh
    BY <1>3, <2>1 DEF PlansRefresh
  <2>2. CASE PlansCreate
    BY <1>4, <2>2 DEF PlansCreate
  <2>3. CASE PlansUpdate
    BY <1>4, <2>3 DEF PlansUpdate
  <2>4. CASE PlansDelete
    BY <1>4, <2>4 DEF PlansDelete
  <2>5. CASE PlansDialogs
    BY <1>3, <2>5 DEF PlansDialogs
  <2>6. ASSUME NEW i, PlansEdit(i) \/ PlansToggle(i) \/ PlansConfirm(i) PROVE Remains(page.at)
    BY <1>5, <2>6 DEF PlansEdit, PlansToggle, PlansConfirm
  <2> QED BY <1>10, <2>1, <2>2, <2>3, <2>4, <2>5, <2>6 DEF PlansNext
<1>11. CASE AnotherAdmin \/ LeaveAdmin \/ (\E c \in calls : AdminFails(c))
  BY <1>1, <1>11 DEF AnotherAdmin, LeaveAdmin, Left, AdminFails, Fails, Remains, OtherSite
<1>12. CASE AdminStep
  <2>1. PICK c \in calls : AdminServes(c) \/ CodesStep(c) \/ UsersStep(c) \/ PromosStep(c) \/ PlansStep(c)
    BY <1>12 DEF AdminStep, Remains, OtherSite
  <2>2. CASE AdminServes(c)
    <3>1. site' = site \/ \E items, made : site' = [items |-> items, made |-> made]
      BY <2>2 DEF AdminServes, Remains, OtherSite
    <3>2. OtherSite(site') /\ page' = page
      BY <1>1, <2>2, <3>1 DEF AdminServes, OtherSite, Remains
    <3> QED BY <1>1, <3>2 DEF Remains, OtherSite
  <2>3. CASE CodesLoaded(c)
    <3>1. page' = [page EXCEPT !.items = c.got.items] \/ page' = [page EXCEPT !.plans = @ \/ c.got.ok, !.loading = FALSE]
      BY <2>3 DEF CodesLoaded, Remains, OtherSite
    <3>2. page'.at = page.at /\ "at" \in DOMAIN page' /\ site' = site
      BY <1>1, <2>3, <3>1 DEF CodesLoaded, Remains, OtherSite
    <3> QED BY <1>1, <3>2 DEF Remains, OtherSite
  <2>4. ASSUME NEW l, LoadedList(l, c) PROVE Remains(page.at)
    BY <1>1, <2>4 DEF LoadedList, Remains, OtherSite
  <2> DEFINE Ends(done) == \E l, op, reset : Concluded(l, c, op, done, reset)
  <2>5. ASSUME Ends(page) PROVE Remains(page.at)
    BY <1>1, <2>5, ConcludedRemains
  <2>6. ASSUME Ends([page EXCEPT !.create = FALSE]) PROVE Remains(page.at)
    BY <1>1, <2>6, ConcludedRemains
  <2>7. ASSUME Ends([page EXCEPT !.target = NoItem]) PROVE Remains(page.at)
    BY <1>1, <2>7, ConcludedRemains
  <2>8. ASSUME Ends([page EXCEPT !.confirm = NoItem]) PROVE Remains(page.at)
    BY <1>1, <2>8, ConcludedRemains
  <2>9. CASE CodesGenerated(c)
    <3> DEFINE done == [page EXCEPT !.generated = c.got.made, !.create = FALSE, !.result = TRUE]
    <3>1. "at" \in DOMAIN done /\ done.at = page.at
      BY <1>1
    <3>2. Concluded("codes", c, "create", done, {"create"})
      BY <2>9 DEF CodesGenerated
    <3> HIDE DEF done
    <3> QED BY <3>1, <3>2, ConcludedRemains
  <2>10. CASE CodesStep(c)
    <3>1. CASE CodesUpdated(c)
      BY <2>7, <3>1 DEF CodesUpdated
    <3>2. CASE CodesToggled(c)
      BY <2>5, <3>2 DEF CodesToggled
    <3>3. CASE CodesDeleted(c)
      BY <2>8, <3>3 DEF CodesDeleted
    <3> QED BY <2>3, <2>9, <2>10, <3>1, <3>2, <3>3 DEF CodesStep
  <2>11. CASE UsersStep(c)
    <3>1. CASE UsersLoaded(c)
      BY <2>4, <3>1 DEF UsersLoaded
    <3>2. CASE UsersCreated(c)
      BY <2>6, <3>2 DEF UsersCreated
    <3>3. CASE UsersUpdated(c)
      BY <2>7, <3>3 DEF UsersUpdated
    <3>4. CASE UsersToggled(c)
      BY <2>5, <3>4 DEF UsersToggled
    <3>5. CASE UsersDeleted(c)
      BY <2>8, <3>5 DEF UsersDeleted
    <3> QED BY <2>11, <3>1, <3>2, <3>3, <3>4, <3>5 DEF UsersStep
  <2>12. CASE PromosStep(c)
    <3>1. CASE PromosLoaded(c)
      BY <2>4, <3>1 DEF PromosLoaded
    <3>2. CASE PromosCreated(c)
      BY <2>6, <3>2 DEF PromosCreated
    <3>3. CASE PromosUpdated(c)
      BY <2>7, <3>3 DEF PromosUpdated
    <3>4. CASE PromosToggled(c)
      BY <2>5, <3>4 DEF PromosToggled
    <3>5. CASE PromosDeleted(c)
      BY <2>8, <3>5 DEF PromosDeleted
    <3> QED BY <2>12, <3>1, <3>2, <3>3, <3>4, <3>5 DEF PromosStep
  <2>13. CASE PlansStep(c)
    <3>1. CASE PlansLoaded(c)
      BY <2>4, <3>1 DEF PlansLoaded
    <3>2. CASE PlansCreated(c)
      BY <2>6, <3>2 DEF PlansCreated
    <3>3. CASE PlansUpdated(c)
      BY <2>7, <3>3 DEF PlansUpdated
    <3>4. CASE PlansToggled(c)
      BY <2>5, <3>4 DEF PlansToggled
    <3>5. CASE PlansDeleted(c)
      BY <2>8, <3>5 DEF PlansDeleted
    <3> QED BY <2>13, <3>1, <3>2, <3>3, <3>4, <3>5 DEF PlansStep
  <2> QED BY <2>1, <2>2, <2>10, <2>11, <2>12, <2>13
<1> QED
  BY <1>7, <1>8, <1>9, <1>10, <1>11, <1>12 DEF AdminNext

\* What happens on the page of imports needs it on screen.
LEMMA ImportIsShown == ImportNext => page.at = "imports"
<1>1. ImportStep => page.at = "imports"
  BY DEF ImportStep, ImportAnswered, ServeConnections, PollAnswered, ConnectionsLoaded, ConnectionSaved,
     ConnectionDeleted,
     AccountsRead, ImportStarted, Importing, At
<1>2. (\E p : OpenForm(p)) \/ TypeSecret \/ CloseForm \/ SaveConnection \/ PollTick => page.at = "imports"
  BY DEF OpenForm, TypeSecret, CloseForm, SaveConnection, PollTick, Filling, Importing, At
<1>3. ImportConnections \/ ChooseAccounts \/ CloseBrowser \/ StartImport \/ LeaveImports \/ ReturnToImports
      => page.at = "imports"
  BY DEF ImportConnections, ChooseAccounts, CloseBrowser, StartImport, LeaveImports, ReturnToImports, Importing, At
<1>4. SiteRestarts \/ (Importing /\ \E r \in site.runners : RunnerDies(r)) \/ (\E c \in calls : ImportFails(c))
      => page.at = "imports"
  BY DEF SiteRestarts, ImportFails, Importing, At
<1> QED
  BY <1>1, <1>2, <1>3, <1>4 DEF ImportNext

\* A list that is taken over changes the list and the interval only.
LEMMA PollingKeeps ==
    ASSUME NEW from, NEW list, "at" \in DOMAIN from
    PROVE  "at" \in DOMAIN Polling(from, list) /\ Polling(from, list).at = from.at
BY DEF Polling

\* A job that is written back changes pools only.
LEMMA SetJobKeeps == \A p, job : DOMAIN SetJob(p, job) = DOMAIN site
BY DEF SetJob

\* Every step of imports leaves their page on screen or leaves it.
LEMMA ImportRemains ==
    ASSUME OtherInv, ImportNext
    PROVE  Remains("imports")
<1>1. "at" \in DOMAIN page /\ page.at = "imports" /\ OtherSite(site)
  BY ImportIsShown DEF OtherInv
<1>2. CASE ImportStep
  <2>1. ASSUME NEW c \in calls, ServeConnections(c) PROVE Remains("imports")
    <3>1. site' \in {site, Saved(c.arg), Removed(c.arg), Started(c)} /\ page' = page
      BY <2>1 DEF ServeConnections
    <3>2. DOMAIN Saved(c.arg) = DOMAIN site /\ DOMAIN Removed(c.arg) = DOMAIN site /\ DOMAIN Started(c) = DOMAIN site
      BY SetJobKeeps DEF Saved, Removed, Started
    <3>3. DOMAIN site' = DOMAIN site
      BY <3>1, <3>2
    <3> QED BY <1>1, <3>1, <3>3 DEF Remains, OtherSite
  <2>2. ASSUME NEW c \in calls, ImportAnswered(c) PROVE Remains("imports")
    <3>1. CASE PollAnswered(c)
      BY <1>1, <3>1, PollingKeeps DEF PollAnswered, Remains
    <3>2. CASE ConnectionsLoaded(c)
      BY <1>1, <3>2, PollingKeeps DEF ConnectionsLoaded, Remains
    <3>3. CASE ConnectionSaved(c)
      BY <1>1, <3>3, PollingKeeps DEF ConnectionSaved, Remains
    <3>4. CASE ConnectionDeleted(c)
      BY <1>1, <3>4, PollingKeeps DEF ConnectionDeleted, Remains
    <3>5. CASE AccountsRead(c)
      BY <1>1, <3>5 DEF AccountsRead, Remains
    <3>6. CASE ImportStarted(c)
      BY <1>1, <3>6, PollingKeeps DEF ImportStarted, StartFailed, Remains
    <3> QED BY <2>2, <3>1, <3>2, <3>3, <3>4, <3>5, <3>6 DEF ImportAnswered
  <2>3. ASSUME UNCHANGED <<page, calls, clicks>>, NEW r,
               RunnerBegins(r) \/ RunnerReads(r) \/ RunnerWrites(r) \/ RunnerEnds(r)
        PROVE  Remains("imports")
    <3>1. \A status, runners : DOMAIN Tells(r, status, runners) = DOMAIN site
      BY SetJobKeeps DEF Tells
    <3>2. DOMAIN site' = DOMAIN site
      BY <2>3, <3>1 DEF RunnerBegins, RunnerReads, RunnerWrites, RunnerEnds, Runner
    <3> QED BY <1>1, <2>3, <3>2 DEF Remains, OtherSite
  <2> QED BY <1>2, <2>1, <2>2, <2>3 DEF ImportStep
<1>3. ASSUME NEW p, OpenForm(p) \/ DeleteConnection(p) \/ BrowseAccounts(p) PROVE Remains("imports")
  BY <1>1, <1>3 DEF OpenForm, DeleteConnection, BrowseAccounts, Remains
<1>4. CASE TypeSecret \/ CloseForm \/ SaveConnection \/ PollTick
  BY <1>1, <1>4 DEF TypeSecret, CloseForm, SaveConnection, PollTick, Remains
<1>5. CASE ChooseAccounts \/ CloseBrowser \/ StartImport
  BY <1>1, <1>5 DEF ChooseAccounts, CloseBrowser, StartImport, Remains
<1>6. CASE LeaveImports
  <2>1. page' = Left \/ page' = [page EXCEPT !.mounted = FALSE, !.timers = {}, !.ref = Nothing]
    BY <1>6 DEF LeaveImports
  <2>2. "at" \in DOMAIN Left /\ Left.at = "away"
    BY DEF Left
  <2>3. "at" \in DOMAIN page' /\ page'.at \in {"imports", "away"}
    BY <1>1, <2>1, <2>2
  <2>4. site' = site
    BY <1>6 DEF LeaveImports
  <2> QED BY <1>1, <2>3, <2>4 DEF Remains
<1>7. CASE ReturnToImports
  <2>1. page' = Polling([page EXCEPT !.mounted = TRUE, !.loading = TRUE], page.list) /\ site' = site
    BY <1>7 DEF ReturnToImports
  <2>2. "at" \in DOMAIN page' /\ page'.at = "imports"
    BY <1>1, <2>1, PollingKeeps
  <2> QED BY <1>1, <2>1, <2>2 DEF Remains
<1>8. CASE SiteRestarts
  BY <1>1, <1>8 DEF SiteRestarts, Restarted, Remains, OtherSite
<1>9. ASSUME NEW r, RunnerDies(r) PROVE Remains("imports")
  BY <1>1, <1>9 DEF RunnerDies, Remains, OtherSite
<1>10. ASSUME NEW c, ImportFails(c) PROVE Remains("imports")
  BY <1>1, <1>10 DEF ImportFails, Fails, Remains
<1> QED
  BY <1>2, <1>3, <1>4, <1>5, <1>6, <1>7, <1>8, <1>9, <1>10 DEF ImportNext, ImportConnections

\* So does every step of the account page.
LEMMA AccountsRemain ==
    ASSUME OtherInv, AccountsNext
    PROVE  page.at = "accounts" /\ Remains("accounts")
<1>1. "at" \in DOMAIN page /\ page.at = "accounts" /\ OtherSite(site)
  BY DEF OtherInv, AccountsNext, At
<1> SUFFICES Remains("accounts")
  BY <1>1
<1>2. ASSUME NEW c, AccountsStep(c) PROVE Remains("accounts")
  <2>1. ASSUME NEW op, NEW done, AccountsEnd(c, op, done), "at" \in DOMAIN done, done.at = "accounts"
        PROVE  Remains("accounts")
    BY <1>1, <2>1 DEF AccountsEnd, Remains
  <2>2. \A items : "at" \in DOMAIN WithAccounts(items) /\ WithAccounts(items).at = "accounts"
    BY <1>1 DEF WithAccounts
  <2>3. CASE AccountsServe(c)
    <3>1. site' = site \/ (\E items, made : site' = [items |-> items, made |-> made]) \/ (\E x : site' = [site EXCEPT !.items = x])
      BY <2>3 DEF AccountsServe
    <3>2. OtherSite(site') /\ page' = page
      BY <1>1, <2>3, <3>1 DEF AccountsServe, OtherSite
    <3> QED BY <1>1, <3>2 DEF Remains, OtherSite
  <2>4. CASE AccountsLoaded(c) \/ AccountsRefreshed(c) \/ AccountsDeleted(c)
    BY <2>1, <2>2, <2>4 DEF AccountsLoaded, AccountsRefreshed, AccountsDeleted
  <2>5. CASE AccountUpdated(c)
    <3> DEFINE done == [WithAccounts(c.got.items) EXCEPT !.target = NoAccount]
    <3>1. "at" \in DOMAIN done /\ done.at = "accounts"
      BY <2>2
    <3> QED BY <2>1, <2>5, <3>1 DEF AccountUpdated
  <2>6. CASE FilesRead(c)
    BY <1>1, <2>6 DEF FilesRead, Remains
  <2>7. CASE AccountsImported(c)
    <3> DEFINE done == [page EXCEPT !.items = c.got.items, !.selected = {}, !.import = NoImport]
    <3>1. "at" \in DOMAIN done /\ done.at = "accounts"
      BY <1>1
    <3> QED BY <2>1, <2>7, <3>1 DEF AccountsImported
  <2> QED BY <1>2, <2>3, <2>4, <2>5, <2>6, <2>7 DEF AccountsStep
<1>3. ASSUME NEW op, NEW arg, AsksAccounts(op, arg) PROVE Remains("accounts")
  BY <1>1, <1>3 DEF AsksAccounts, Remains
<1>4. ASSUME NEW import, Importer(import) PROVE Remains("accounts")
  BY <1>1, <1>4 DEF Importer, Remains
<1>5. CASE AccountsReload \/ AccountsRefresh \/ AccountsDelete
  BY <1>3, <1>5 DEF AccountsReload, AccountsRefresh, AccountsDelete
<1>6. CASE SelectsAccounts
  BY <1>1, <1>6 DEF SelectsAccounts, Remains
<1>7. CASE ClosesAccount \/ \E i : OpensAccount(i)
  BY <1>1, <1>7 DEF ClosesAccount, OpensAccount, Remains
<1>8. CASE AccountUpdate \/ ImportAccounts
  BY <1>3, <1>8 DEF AccountUpdate, ImportAccounts
<1>9. CASE OpensImport \/ ChoosesWay
  BY <1>4, <1>9 DEF OpensImport, ChoosesWay
<1>10. CASE ClosesImport \/ AsksToConfirm
  BY <1>4, <1>10 DEF ClosesImport, AsksToConfirm
<1>11. CASE ReadsFiles \/ LeaveAccounts \/ \E c : AccountsFail(c)
  BY <1>1, <1>11 DEF ReadsFiles, LeaveAccounts, Left, AccountsFail, Fails, Remains
<1>12. CASE AccountChanges
  BY <1>1, <1>12 DEF AccountChanges, Remains, OtherSite
<1> QED
  BY <1>2, <1>5, <1>6, <1>7, <1>8, <1>9, <1>10, <1>11, <1>12 DEF AccountsNext

SettingsCards == {"machine", "forms", "update"}

\* What happens on a card of the settings needs it on screen.
LEMMA SettingsAreShown == SettingsNext => page.at \in SettingsCards
<1> USE DEF SettingsCards, Machine, Forms, Card, At
<1>1. RunnerAsks \/ RunnerSubmits \/ RunnerWaits \/ RunnerLeaves \/ RunnerGone \/ RunnerFails => page.at \in SettingsCards
  BY DEF RunnerAsks, RunnerSubmits, RunnerWaits, RunnerLeaves, RunnerGone, RunnerFails, RunnerAt
<1>2. ASSUME NEW c, RegisterLoaded(c) \/ StartRegister(c) \/ RegisterAsked(c) \/ ServeMachine(c)
      PROVE  page.at \in SettingsCards
  BY <1>2 DEF RegisterLoaded, StartRegister, RegisterAsked, ServeMachine
<1>3. ASSUME NEW c, FormLoaded(c) \/ FormSaved(c) \/ ProxyTested(c) \/ ServeForm(c)
      PROVE  page.at \in SettingsCards
  BY <1>3 DEF FormLoaded, FormSaved, ProxyTested, ServeForm
<1>4. ASSUME NEW c, \/ StatusLoaded(c) \/ UpdateAnswered(c) \/ RollbackAnswered(c) \/ RestartAnswered(c) \/ ServeCard(c)
                    \/ SettingsFails(c) \/ CardFails(c)
      PROVE  page.at \in SettingsCards
  BY <1>4 DEF StatusLoaded, UpdateAnswered, RollbackAnswered, RestartAnswered, ServeCard, SettingsFails, CardFails
<1>5. RegisterPoll \/ EditRegister \/ SaveRegister \/ ResetRegister \/ ToggleRegister => page.at \in SettingsCards
  BY DEF RegisterPoll, EditRegister, SaveRegister, ResetRegister, ToggleRegister, AskMachine, Stopped, Editable
<1>6. LeaveMachine \/ ReturnToMachine \/ MachineRestarts \/ AnotherSwitches => page.at \in SettingsCards
  BY DEF LeaveMachine, ReturnToMachine, MachineRestarts, AnotherSwitches
<1>7. EditForm \/ SaveForm \/ TestProxy \/ LeaveForms \/ ReturnToForms \/ AnotherSaves => page.at \in SettingsCards
  BY DEF EditForm, SaveForm, TestProxy, LeaveForms, ReturnToForms, AnotherSaves, FormShown
<1>8. RefreshStatus \/ HandleUpdate \/ HandleRollback \/ HandleRestart => page.at \in SettingsCards
  BY DEF RefreshStatus, HandleUpdate, HandleRollback, HandleRestart, CardShown
<1> HIDE DEF SettingsCards
<1> QED
  BY <1>1, <1>2, <1>3, <1>4, <1>5, <1>6, <1>7, <1>8 DEF SettingsNext, SettingsStep

\* Every step of the cards leaves the card on screen or leaves the page.
LEMMA SettingsRemain ==
    ASSUME OtherInv, SettingsNext
    PROVE  Remains(page.at)
<1>1. "at" \in DOMAIN page /\ OtherSite(site)
  BY DEF OtherInv
<1>2. CASE RunnerAsks \/ RunnerSubmits \/ RunnerWaits \/ RunnerLeaves \/ RunnerGone \/ RunnerFails
  BY <1>1, <1>2 DEF RunnerAsks, RunnerSubmits, SubmitsNext, RunnerWaits, RunnerLeaves, RunnerGone, RunnerFails, RunnerAt, Remains,
     OtherSite
<1>s. DOMAIN MachineStarted = DOMAIN site /\ DOMAIN MachineStopped = DOMAIN site
      /\ \A new : DOMAIN MergedSettings(new) = DOMAIN site
  BY DEF MachineStarted, MachineStopped, MergedSettings
<1>3. ASSUME NEW c, ServeMachine(c) \/ ServeForm(c) PROVE Remains(page.at)
  <2>1. DOMAIN site' = DOMAIN site /\ page' = page
    BY <1>3, <1>s DEF ServeMachine, ServeForm
  <2> QED BY <1>1, <2>1 DEF Remains, OtherSite
<1>4. ASSUME NEW c, RegisterLoaded(c) PROVE Remains(page.at)
  BY <1>1, <1>4 DEF RegisterLoaded, MergeRegisterConfig, Remains
<1>5. ASSUME NEW c, StartRegister(c) \/ RegisterAsked(c) PROVE Remains(page.at)
  <2>1. CASE StartRegister(c)
    BY <1>1, <2>1 DEF StartRegister, NotStarted, Remains
  <2>2. CASE RegisterAsked(c)
    BY <1>1, <2>2 DEF RegisterAsked, Remains
  <2> QED BY <1>5, <2>1, <2>2
<1>6. ASSUME NEW c, FormLoaded(c) \/ FormSaved(c) \/ ProxyTested(c) PROVE Remains(page.at)
  <2>1. CASE FormLoaded(c)
    BY <1>1, <2>1 DEF FormLoaded, Fills, Remains
  <2>2. CASE FormSaved(c)
    <3>1. DOMAIN site' = DOMAIN site
      BY <2>2 DEF FormSaved
    <3>2. "at" \in DOMAIN page' /\ page'.at = page.at
      BY <1>1, <2>2 DEF FormSaved, Fills
    <3> QED BY <1>1, <3>1, <3>2 DEF Remains, OtherSite
  <2>3. CASE ProxyTested(c)
    BY <1>1, <2>3 DEF ProxyTested, Remains
  <2> QED BY <1>6, <2>1, <2>2, <2>3
<1>7. ASSUME NEW c, StatusLoaded(c) \/ UpdateAnswered(c) \/ RollbackAnswered(c) \/ RestartAnswered(c)
      PROVE  Remains(page.at)
  <2>1. CASE StatusLoaded(c)
    BY <1>1, <2>1 DEF StatusLoaded, Remains
  <2>2. CASE UpdateAnswered(c)
    BY <1>1, <2>2 DEF UpdateAnswered, Remains
  <2>3. CASE RollbackAnswered(c) \/ RestartAnswered(c)
    BY <1>1, <2>3 DEF RollbackAnswered, RollbackDone, RestartAnswered, Remains
  <2> QED BY <1>7, <2>1, <2>2, <2>3
<1>8. ASSUME NEW c, ServeCard(c) \/ SettingsFails(c) \/ CardFails(c) PROVE Remains(page.at)
  <2>1. CASE ServeCard(c)
    <3>1. DOMAIN site' = DOMAIN site /\ page' = page
      BY <2>1 DEF ServeCard
    <3> QED BY <1>1, <3>1 DEF Remains, OtherSite
  <2>2. CASE SettingsFails(c) \/ CardFails(c)
    BY <1>1, <2>2 DEF SettingsFails, CardFails, Fails, Remains, OtherSite
  <2> QED BY <1>8, <2>1, <2>2
<1>9. CASE RegisterPoll \/ EditRegister \/ \E op : AskMachine(op)
  BY <1>1, <1>9 DEF RegisterPoll, EditRegister, AskMachine, Remains
<1>10. CASE SaveRegister \/ ResetRegister \/ ToggleRegister
  BY <1>9, <1>10 DEF SaveRegister, ResetRegister, ToggleRegister
<1>11. CASE LeaveMachine \/ ReturnToMachine
  BY <1>1, <1>11 DEF LeaveMachine, ReturnToMachine, Remains
<1>12. CASE MachineRestarts
  BY <1>1, <1>12 DEF MachineRestarts, Resumed, Remains, OtherSite
<1>13. CASE AnotherSwitches \/ AnotherSaves
  <2>1. DOMAIN site' = DOMAIN site /\ page' = page
    BY <1>13, <1>s DEF AnotherSwitches, AnotherSaves
  <2> QED BY <1>1, <2>1 DEF Remains, OtherSite
<1>14. CASE EditForm \/ SaveForm \/ TestProxy
  BY <1>1, <1>14 DEF EditForm, SaveForm, TestProxy, Remains
<1>15. CASE LeaveForms
  <2>1. page' = Left \/ page' = [page EXCEPT !.mounted = FALSE, !.testing = FALSE]
    BY <1>15 DEF LeaveForms
  <2>2. "at" \in DOMAIN Left /\ Left.at = "away"
    BY DEF Left
  <2>3. "at" \in DOMAIN page' /\ page'.at \in {page.at, "away"}
    BY <1>1, <2>1, <2>2
  <2>4. site' = site
    BY <1>15 DEF LeaveForms
  <2> QED BY <1>1, <2>3, <2>4 DEF Remains
<1>16. CASE ReturnToForms
  BY <1>1, <1>16 DEF ReturnToForms, Remains
<1>17. CASE RefreshStatus \/ HandleUpdate \/ HandleRollback \/ HandleRestart
  BY <1>1, <1>17 DEF RefreshStatus, HandleUpdate, HandleRollback, HandleRestart, Remains, OtherSite
<1> QED
  BY <1>2, <1>3, <1>4, <1>5, <1>6, <1>7, <1>8, <1>9, <1>10, <1>11, <1>12, <1>13, <1>14, <1>15, <1>16, <1>17
     DEF SettingsNext, SettingsStep

\* The other pages open with their part of the invariant.
LEMMA OthersStart == GalleryInit \/ AdminInit \/ ImportInit \/ SettingsInit \/ AccountsInit => OtherInv
<1>1. GalleryInit => OtherInv
  BY DEF GalleryInit, EmptyGallery, OtherInv, OtherPages, OtherSite
<1>2. \A list \in AdminLists : OpenAdmin(list) => OtherInv
  BY DEF OpenAdmin, EmptyAdmin, OtherInv, OtherPages, OtherSite
<1>3. AdminInit => OtherInv
  BY <1>2 DEF AdminInit, UsersOpen, PromosOpen, PlansOpen, AdminLists
<1>4. ImportInit => OtherInv
  BY DEF ImportInit, EmptyImports, OtherInv, OtherPages, OtherSite
<1>5. SettingsInit => OtherInv
  BY DEF SettingsInit, MachineInit, EmptyMachine, FormsInit, EmptyForm, CardInit, EmptyCard, OtherInv, OtherPages,
     OtherSite
<1>6. AccountsInit => OtherInv
  BY DEF AccountsInit, EmptyAccounts, OtherInv, OtherPages, OtherSite
<1> QED
  BY <1>1, <1>3, <1>4, <1>5, <1>6

\* Every step keeps it, and shows the same page or none.
LEMMA OthersRemain ==
    ASSUME OtherInv, (At("gallery") /\ GalleryNext) \/ AdminNext \/ ImportNext \/ SettingsNext \/ AccountsNext
    PROVE  OtherInv' /\ page'.at \in {page.at, "away"}
<1>1. CASE At("gallery") /\ GalleryNext
  BY <1>1, GalleryRemains DEF Remains, At, OtherInv, OtherPages, OtherSite
<1>2. CASE AdminNext
  BY <1>2, AdminIsShown, AdminRemains DEF Remains, OtherInv, OtherPages, OtherSite
<1>3. CASE ImportNext
  BY <1>3, ImportRemains, ImportIsShown DEF Remains, OtherInv, OtherPages, OtherSite
<1>4. CASE SettingsNext
  BY <1>4, SettingsAreShown, SettingsRemain DEF Remains, OtherInv, OtherPages, OtherSite, SettingsCards
<1>5. CASE AccountsNext
  BY <1>5, AccountsRemain DEF Remains, OtherInv, OtherPages, OtherSite
<1> QED
  BY <1>1, <1>2, <1>3, <1>4, <1>5

-----------------------------------------------------------------------------
(* Checking in. *)

\* A status of checking in that comes from the site says that checking in is enabled.
TellsEnabled(c) == c.op = "status" /\ c.got # Nothing /\ c.got.ok => c.got.status.enabled

\* So does the one on screen once loading has ended: what the answer of a check-in leaves out is shown
\* only while the status is loaded again.
MemberOK(p, cs) ==
    /\ {"at", "checkLoading", "status"} \subseteq DOMAIN p
    /\ ~p.checkLoading /\ p.status # Nothing => p.status.enabled
    /\ \A c \in cs : TellsEnabled(c)

\* Every step of the page of a membership keeps it until the page is left.
LEMMA MemberKeeps ==
    ASSUME UserInv, MemberOK(page, calls), At("membership"), UserNext
    PROVE  MemberOK(page', calls') \/ page' = Left
<1> DEFINE Shows(p) == /\ {"at", "checkLoading", "status"} \subseteq DOMAIN p
                       /\ ~p.checkLoading /\ p.status # Nothing => p.status.enabled
<1>s. Shows(page) /\ \A c \in calls : TellsEnabled(c)
  BY DEF MemberOK
<1>m. \A by, of : \A c \in MemberLoads(by, of) : TellsEnabled(c)
  BY DEF MemberLoads, TellsEnabled
<1>a. \A op, arg : TellsEnabled(Asks(op, arg))
  BY DEF Asks, TellsEnabled
<1>g. ASSUME NEW c \in calls, NEW got, got.ok /\ c.op = "status" => got.status.enabled
      PROVE  TellsEnabled([c EXCEPT !.got = got])
  BY <1>g, GotKeeps DEF TellsEnabled, CallsOK, UserInv
<1>1. ASSUME NEW c \in calls, ServeMembership(c) PROVE MemberOK(page', calls')
  <2>1. [ok |-> TRUE, status |-> Offered].status.enabled
    BY DEF Offered
  <2>2. PICK got : (got.ok /\ c.op = "status" => got.status.enabled) /\ Served(c, got)
    BY <1>1, <2>1 DEF ServeMembership
  <2>3. page' = page
    BY <1>1 DEF ServeMembership
  <2> QED BY <2>2, <2>3, <1>s, <1>g DEF Served, MemberOK
<1>2. ASSUME NEW c \in calls, ClaimAnswered(c) PROVE MemberOK(page', calls')
  <2>1. \A x \in calls' : TellsEnabled(x)
    BY <1>2, <1>s, <1>m DEF ClaimAnswered
  <2>2. CASE c.got.ok
    <3> DEFINE q == [page EXCEPT !.status = c.got.status]
    <3>1. "checkLoading" \in DOMAIN q /\ "at" \in DOMAIN q /\ "status" \in DOMAIN q /\ page' = MemberLoading(q)
      BY <1>2, <2>2, <1>s DEF ClaimAnswered
    <3> HIDE DEF q
    <3>2. Shows(page')
      BY <3>1 DEF MemberLoading
    <3> QED BY <2>1, <3>2 DEF MemberOK
  <2>3. CASE ~c.got.ok
    <3>1. Shows(page')
      BY <1>2, <2>3, <1>s DEF ClaimAnswered
    <3> QED BY <2>1, <3>1 DEF MemberOK
  <2> QED BY <2>2, <2>3
<1>3. ASSUME NEW c \in calls, MemberLoaded(c) PROVE MemberOK(page', calls')
  BY <1>3, <1>s DEF MemberLoaded, MemberOK
<1>4. ASSUME NEW c \in calls, CheckinLoaded(c) PROVE MemberOK(page', calls')
  <2>1. c.got.ok => c.got.status.enabled
    BY <1>4, <1>s DEF CheckinLoaded, Answered, TellsEnabled
  <2>2. page'.status = (IF c.got.ok THEN c.got.status ELSE Nothing) /\ DOMAIN page' = DOMAIN page
    BY <1>4, <1>s DEF CheckinLoaded
  <2>3. Shows(page')
    BY <2>1, <2>2, <1>s
  <2> QED BY <1>4, <1>s, <2>3 DEF CheckinLoaded, MemberOK
<1>5. CASE MembershipNext
  <2>1. \A x \in calls' : TellsEnabled(x)
    BY <1>5, <1>s, <1>m, <1>a DEF MembershipNext, MemberRefresh, CheckinRetry, HandleClaimCheckin
  <2>2. Shows(page')
    BY <1>5, <1>s DEF MembershipNext, MemberRefresh, MemberLoading, CheckinRetry, HandleClaimCheckin
  <2> QED BY <2>1, <2>2 DEF MemberOK
<1>6. CASE LeaveUserPage
  BY <1>6 DEF LeaveUserPage
<1>7. ASSUME NEW c \in calls, UserPageFails(c) PROVE MemberOK(page', calls')
  BY <1>7, <1>s, <1>g DEF UserPageFails, Fails, Served, Failure, MemberOK
<1>8. ASSUME NEW c \in calls, RedeemStep(c) PROVE FALSE
  BY <1>8 DEF RedeemStep, ServeRedeem, ServeHistory, RedeemLoaded, RedeemAnswered, RedeemReported, At
<1>9. ASSUME NEW c \in calls, RegisterStep(c) PROVE FALSE
  BY <1>9 DEF RegisterStep, ServeSettings, RegisterSettings, SendCodeDone, RegisterAnswered, StoreCode, MailCode,
     CheckRegistration, CommitRegistration, At, UserInv, SiteOK, Registering
<1>10. ~RedeemNext /\ ~RegisterNext
  BY DEF RedeemNext, RedeemRetry, HandleRedeem, CodeTaken, Event, At, RegisterNext, HandleReloadSettings,
     HandleSendCode, HandleRegister, AnotherVisitor, CodesWithdrawn,
     RegisterForm
<1> QED
  BY <1>1, <1>2, <1>3, <1>4, <1>5, <1>6, <1>7, <1>8, <1>9, <1>10 DEF UserNext, UserStep, MembershipStep, MemberOK

-----------------------------------------------------------------------------
(* Imports. *)

\* The page of imports polls by one interval at most, the one of its ref, and of CPA pools always while
\* a job on screen is not finished.
PollsOnce(p) ==
    /\ {"at", "kind", "mounted", "list", "timers", "ref"} \subseteq DOMAIN p
    /\ p.timers = {p.ref} \ {Nothing}
    /\ p.timers # {} => p.mounted /\ ShowsUnfinished(p.list)
    /\ p.kind = "cpa" /\ p.mounted /\ ShowsUnfinished(p.list) => p.timers # {}

\* A job that is not finished has a runner, unless its runner died.
JobsHaveRunners(s) ==
    /\ {"pools", "runners", "abandoned"} \subseteq DOMAIN s
    /\ \A r \in s.runners : {"to", "stage", "read"} \subseteq DOMAIN r
    /\ \A p \in DOMAIN s.pools :
         /\ "job" \in DOMAIN s.pools[p]
         /\ s.pools[p].job = "unfinished" => p \in s.abandoned \/ \E r \in s.runners : r.to = p

\* A list that is taken over leaves one interval, when only the one of the ref was set before.
LEMMA PollingPollsOnce ==
    ASSUME NEW from, NEW list, PollsOnce(from) \/ from.timers = {},
           {"at", "kind", "mounted", "list", "timers", "ref"} \subseteq DOMAIN from
    PROVE  PollsOnce(Polling(from, list))
<1> DEFINE others == from.timers \ {from.ref}
           new == IF from.mounted /\ ShowsUnfinished(list) THEN 1 + Cardinality(others) ELSE Nothing
           q == Polling(from, list)
<1>1. others = {}
  BY DEF PollsOnce
<1>2. Cardinality(others) = 0
  BY <1>1, FS_EmptySet
<1>3. new = IF from.mounted /\ ShowsUnfinished(list) THEN 1 ELSE Nothing
  BY <1>2
<1>4. q = [from EXCEPT !.list = list, !.ref = new, !.timers = others \cup ({new} \ {Nothing})]
  BY DEF Polling
<1> HIDE DEF new, others
<1>5. /\ DOMAIN q = DOMAIN from /\ q.list = list /\ q.ref = new /\ q.timers = {new} \ {Nothing}
      /\ q.mounted = from.mounted /\ q.kind = from.kind
  BY <1>1, <1>4
<1>6. CASE from.mounted /\ ShowsUnfinished(list)
  <2>1. new = 1 /\ 1 # Nothing
    BY <1>3, <1>6, PageAssumption
  <2> QED BY <1>5, <1>6, <2>1 DEF PollsOnce
<1>7. CASE ~(from.mounted /\ ShowsUnfinished(list))
  <2>1. new = Nothing
    BY <1>3, <1>7
  <2> QED BY <1>5, <1>7, <2>1 DEF PollsOnce
<1> QED
  BY <1>6, <1>7

\* Pages that agree on the list, the interval and its ref poll alike.
PollsAlike(p, q) ==
    /\ DOMAIN q = DOMAIN p /\ q.kind = p.kind /\ q.mounted = p.mounted
    /\ q.list = p.list /\ q.timers = p.timers /\ q.ref = p.ref

\* Of pages that poll alike, both poll once.
LEMMA AlikePollsOnce == \A p, q : PollsOnce(p) /\ PollsAlike(p, q) => PollsOnce(q)
BY DEF PollsOnce, PollsAlike

\* Every step of imports leaves one interval at most, or leaves the page.
LEMMA PollingKeepsOne ==
    ASSUME PollsOnce(page), ImportNext
    PROVE  PollsOnce(page') \/ page' = Left
<1>1. \A list : PollsOnce(Polling(page, list))
  BY PollingPollsOnce DEF PollsOnce
<1>2. CASE page' = page
  BY <1>2
<1>3. ASSUME PollsAlike(page, page') PROVE PollsOnce(page')
  BY <1>3, AlikePollsOnce
<1>4. ASSUME NEW c, ImportAnswered(c) PROVE PollsOnce(page')
  <2>1. CASE PollAnswered(c)
    <3>1. CASE page.kind # "cpa" /\ page' = [page EXCEPT !.timers = @ \ {page.ref}, !.ref = Nothing]
      BY <3>1 DEF PollsOnce
    <3>2. CASE page' \in {page, Polling(page, c.got.list)}
      BY <1>1, <3>2
    <3> QED BY <2>1, <3>1, <3>2 DEF PollAnswered
  <2> DEFINE polling == Polling(page, c.got.list)
             shown == IF c.got.ok THEN polling ELSE page
  <2>p. PollsOnce(polling) /\ PollsOnce(shown)
    BY <1>1
  <2>3. CASE ConnectionsLoaded(c)
    <3>1. page' = [shown EXCEPT !.loading = FALSE]
      BY <2>3 DEF ConnectionsLoaded
    <3> HIDE DEF shown
    <3>2. PollsAlike(shown, page')
      BY <2>p, <3>1 DEF PollsAlike, PollsOnce
    <3> QED BY <2>p, <3>2, AlikePollsOnce
  <2>4. CASE ConnectionDeleted(c)
    <3>1. page' = [shown EXCEPT !.deleting = Nothing]
      BY <2>4 DEF ConnectionDeleted
    <3> HIDE DEF shown
    <3>2. PollsAlike(shown, page')
      BY <2>p, <3>1 DEF PollsAlike, PollsOnce
    <3> QED BY <2>p, <3>2, AlikePollsOnce
  <2>5. CASE ConnectionSaved(c)
    <3> DEFINE closed == [polling EXCEPT !.form.open = FALSE, !.form.of = NewConnection]
               now == IF c.got.ok THEN closed ELSE page
    <3>1. page' = [now EXCEPT !.saving = FALSE]
      BY <2>5 DEF ConnectionSaved
    <3> HIDE DEF polling
    <3>2. PollsAlike(polling, closed)
      BY <2>p DEF PollsAlike, PollsOnce
    <3>3. PollsOnce(now)
      BY <2>p, <3>2, AlikePollsOnce
    <3> HIDE DEF now
    <3>4. PollsAlike(now, page')
      BY <3>1, <3>3 DEF PollsAlike, PollsOnce
    <3> QED BY <3>3, <3>4, AlikePollsOnce
  <2>6. CASE AccountsRead(c)
    BY <2>6, <1>3 DEF AccountsRead, PollsAlike, PollsOnce
  <2>7. CASE ImportStarted(c)
    <3>1. CASE page' = StartFailed
      BY <3>1, <1>3 DEF StartFailed, PollsAlike, PollsOnce
    <3>2. ASSUME NEW list, page' = [Polling(page, list) EXCEPT !.browser.open = FALSE, !.starting = FALSE]
          PROVE  PollsOnce(page')
      <4>1. PollsAlike(Polling(page, list), page')
        BY <1>1, <3>2 DEF PollsAlike, PollsOnce
      <4> QED BY <1>1, <4>1, AlikePollsOnce
    <3> QED BY <2>7, <3>1, <3>2 DEF ImportStarted
  <2> QED BY <1>4, <2>1, <2>3, <2>4, <2>5, <2>6, <2>7 DEF ImportAnswered
<1>5. CASE ImportStep
  BY <1>2, <1>4, <1>5 DEF ImportStep, ServeConnections
<1>6. ASSUME NEW p, OpenForm(p) \/ DeleteConnection(p) \/ BrowseAccounts(p) PROVE PollsOnce(page')
  BY <1>3, <1>6 DEF OpenForm, DeleteConnection, BrowseAccounts, PollsAlike, PollsOnce
<1>7. CASE TypeSecret \/ CloseForm \/ SaveConnection
  BY <1>3, <1>7 DEF TypeSecret, CloseForm, SaveConnection, PollsAlike, PollsOnce
<1>8. CASE ChooseAccounts \/ CloseBrowser \/ StartImport
  BY <1>3, <1>8 DEF ChooseAccounts, CloseBrowser, StartImport, PollsAlike, PollsOnce
<1>9. CASE LeaveImports
  <2>1. CASE page' = [page EXCEPT !.mounted = FALSE, !.timers = {}, !.ref = Nothing]
    BY <2>1 DEF PollsOnce
  <2> QED BY <1>9, <2>1 DEF LeaveImports
<1>10. CASE ReturnToImports
  <2> DEFINE q == [page EXCEPT !.mounted = TRUE, !.loading = TRUE]
  <2>1. page' = Polling(q, page.list) /\ ~page.mounted
    BY <1>10 DEF ReturnToImports
  <2>2. DOMAIN q = DOMAIN page /\ q.timers = {}
    BY <2>1 DEF PollsOnce
  <2> HIDE DEF q
  <2> QED BY <2>1, <2>2, PollingPollsOnce DEF PollsOnce
<1>11. CASE PollTick \/ SiteRestarts \/ (\E r : RunnerDies(r)) \/ (\E c : ImportFails(c))
  BY <1>2, <1>11 DEF PollTick, SiteRestarts, RunnerDies, ImportFails, Fails
<1> QED
  BY <1>5, <1>6, <1>7, <1>8, <1>9, <1>10, <1>11 DEF ImportNext, ImportConnections

\* A job that is written back keeps its runner, when those of the other jobs are kept.
LEMMA SetJobRuns ==
    ASSUME JobsHaveRunners(site), NEW p, NEW job, NEW runners,
           \A r \in runners : {"to", "stage", "read"} \subseteq DOMAIN r,
           NEW s, s = [SetJob(p, job) EXCEPT !.runners = runners],
           \A q \in DOMAIN site.pools \ {p} :
              site.pools[q].job = "unfinished" => q \in site.abandoned \/ \E r \in runners : r.to = q,
           job = "unfinished" => p \in site.abandoned \/ \E r \in runners : r.to = p
    PROVE  JobsHaveRunners(s)
<1> DEFINE set == SetJob(p, job)
<1>1. /\ DOMAIN set = DOMAIN site /\ set.abandoned = site.abandoned /\ DOMAIN set.pools = DOMAIN site.pools
      /\ \A q \in DOMAIN site.pools : /\ "job" \in DOMAIN set.pools[q]
                                      /\ set.pools[q].job = IF q = p THEN job ELSE site.pools[q].job
  <2>1. CASE Known(p)
    BY <2>1 DEF SetJob, JobsHaveRunners, Known
  <2>2. CASE ~Known(p)
    BY <2>2 DEF SetJob, JobsHaveRunners, Known
  <2> QED BY <2>1, <2>2
<1> HIDE DEF set
<1>2. /\ DOMAIN s = DOMAIN site /\ s.abandoned = site.abandoned /\ s.pools = set.pools /\ s.runners = runners
  BY <1>1 DEF JobsHaveRunners, set
<1> QED
  BY <1>1, <1>2 DEF JobsHaveRunners

\* However the runners of several imports write to the same job, and connections are edited and removed
\* meanwhile, every job that is not finished keeps a runner.
LEMMA RunnersKeep ==
    ASSUME JobsHaveRunners(site), ImportNext
    PROVE  JobsHaveRunners(site')
<1> USE DEF JobsHaveRunners
<1>1. CASE site' = site
  BY <1>1
<1>2. ASSUME NEW c \in calls, ServeConnections(c) PROVE JobsHaveRunners(site')
  <2>1. CASE site' = Saved(c.arg)
    <3>1. CASE c.arg.to = NewConnection
      <4>1. /\ site'.runners = site.runners /\ site'.abandoned = site.abandoned /\ DOMAIN site' = DOMAIN site
            /\ DOMAIN site'.pools = DOMAIN site.pools \cup {site.next}
            /\ \A p \in DOMAIN site.pools : site'.pools[p] = site.pools[p]
            /\ ~Known(site.next) => "job" \in DOMAIN site'.pools[site.next] /\ site'.pools[site.next].job = "finished"
        BY <2>1, <3>1 DEF Saved, Known
      <4> QED BY <4>1 DEF Known
    <3>2. CASE c.arg.to # NewConnection
      <4>1. /\ site'.runners = site.runners /\ site'.abandoned = site.abandoned /\ DOMAIN site' = DOMAIN site
            /\ DOMAIN site'.pools = DOMAIN site.pools
            /\ \A p \in DOMAIN site.pools : p # c.arg.to => site'.pools[p] = site.pools[p]
            /\ Known(c.arg.to) => "job" \in DOMAIN site'.pools[c.arg.to] /\ site'.pools[c.arg.to].job = "finished"
        BY <2>1, <3>2 DEF Saved, Known, Normalized
      <4> QED BY <4>1 DEF Known
    <3> QED BY <3>1, <3>2
  <2>2. CASE site' = Removed(c.arg)
    BY <2>2 DEF Removed
  <2>3. CASE site' = Started(c)
    <3> DEFINE r == RunnerOf(c.arg.to, c.arg.names, c.by)
               runners == site.runners \cup {r}
    <3>1. {"to", "stage", "read"} \subseteq DOMAIN r /\ r.to = c.arg.to
      BY DEF RunnerOf
    <3>2. SetJob(c.arg.to, "unfinished").runners = site.runners
      BY DEF SetJob
    <3>3. site' = [SetJob(c.arg.to, "unfinished") EXCEPT !.runners = runners]
      BY <2>3, <3>2 DEF Started
    <3> HIDE DEF r
    <3>4. \A x \in runners : {"to", "stage", "read"} \subseteq DOMAIN x
      BY <3>1
    <3>5. \A q \in DOMAIN site.pools \ {c.arg.to} :
             site.pools[q].job = "unfinished" => q \in site.abandoned \/ \E x \in runners : x.to = q
      OBVIOUS
    <3>6. \E x \in runners : x.to = c.arg.to
      BY <3>1
    <3> HIDE DEF runners, JobsHaveRunners
    <3> QED BY <3>3, <3>4, <3>5, <3>6, SetJobRuns
  <2> QED BY <1>1, <1>2, <2>1, <2>2, <2>3 DEF ServeConnections
<1>3. ASSUME NEW r \in site.runners, RunnerBegins(r) \/ RunnerReads(r) \/ RunnerWrites(r) \/ RunnerEnds(r)
      PROVE  JobsHaveRunners(site')
  <2>1. \A status : SetJob(r.to, status).runners = site.runners
    BY DEF SetJob
  <2>2. ASSUME NEW status, NEW q, {"to", "stage", "read"} \subseteq DOMAIN q, q.to = r.to, site' = Tells(r, status, {q})
        PROVE  JobsHaveRunners(site')
    <3> DEFINE runners == (site.runners \ {r}) \cup {q}
    <3>1. site' = [SetJob(r.to, status) EXCEPT !.runners = runners]
      BY <2>1, <2>2 DEF Tells
    <3>2. \A x \in runners : {"to", "stage", "read"} \subseteq DOMAIN x
      BY <2>2
    <3>3. \A p : (\E x \in site.runners : x.to = p) => \E x \in runners : x.to = p
      BY <2>2
    <3>4. \E x \in runners : x.to = r.to
      BY <2>2
    <3> HIDE DEF runners
    <3>5. \A p \in DOMAIN site.pools \ {r.to} :
             site.pools[p].job = "unfinished" => p \in site.abandoned \/ \E x \in runners : x.to = p
      BY <3>3
    <3> HIDE DEF JobsHaveRunners
    <3> QED BY <3>1, <3>2, <3>4, <3>5, SetJobRuns
  <2>3. CASE RunnerBegins(r)
    <3> DEFINE q == [r EXCEPT !.stage = "fetches"]
    <3>1. {"to", "stage", "read"} \subseteq DOMAIN q /\ q.to = r.to
      OBVIOUS
    <3>2. site' = Tells(r, "unfinished", {q})
      BY <2>3 DEF RunnerBegins
    <3> HIDE DEF q
    <3> QED BY <3>1, <3>2, <2>2
  <2>4. CASE RunnerWrites(r)
    <3> DEFINE q == [r EXCEPT !.read = Nothing]
    <3>1. {"to", "stage", "read"} \subseteq DOMAIN q /\ q.to = r.to
      OBVIOUS
    <3>2. site' = Tells(r, r.read, {q})
      BY <2>4 DEF RunnerWrites
    <3> HIDE DEF q
    <3> QED BY <3>1, <3>2, <2>2
  <2>5. CASE RunnerReads(r)
    <3> DEFINE q == [r EXCEPT !.read = site.pools[r.to].job]
    <3>1. {"to", "stage", "read"} \subseteq DOMAIN q /\ q.to = r.to
      OBVIOUS
    <3>2. site' = [site EXCEPT !.runners = (@ \ {r}) \cup {q}]
      BY <2>5 DEF RunnerReads, Runner
    <3> HIDE DEF q
    <3>3. /\ site'.runners = (site.runners \ {r}) \cup {q} /\ site'.pools = site.pools
          /\ site'.abandoned = site.abandoned /\ DOMAIN site' = DOMAIN site
      BY <3>2
    <3> QED BY <3>1, <3>3
  <2>6. CASE RunnerEnds(r)
    <3> DEFINE runners == (site.runners \ {r}) \cup {}
    <3>1. site' = [SetJob(r.to, "finished") EXCEPT !.runners = runners]
      BY <2>1, <2>6 DEF RunnerEnds, Tells
    <3>2. \A x \in runners : {"to", "stage", "read"} \subseteq DOMAIN x
      OBVIOUS
    <3>3. \A p : p # r.to /\ (\E x \in site.runners : x.to = p) => \E x \in runners : x.to = p
      OBVIOUS
    <3> HIDE DEF runners
    <3>4. \A p \in DOMAIN site.pools \ {r.to} :
             site.pools[p].job = "unfinished" => p \in site.abandoned \/ \E x \in runners : x.to = p
      BY <3>3
    <3> HIDE DEF JobsHaveRunners
    <3> QED BY <3>1, <3>2, <3>4, SetJobRuns
  <2> QED BY <1>3, <2>3, <2>4, <2>5, <2>6
<1>4. ASSUME NEW r, RunnerDies(r) PROVE JobsHaveRunners(site')
  BY <1>4 DEF RunnerDies
<1>5. CASE SiteRestarts
  <2>1. site' = Restarted
    BY <1>5 DEF SiteRestarts
  <2>2. /\ DOMAIN site' = DOMAIN site /\ site'.runners = {} /\ DOMAIN site'.pools = DOMAIN site.pools
        /\ \A p \in DOMAIN site.pools : "job" \in DOMAIN site'.pools[p] /\ site'.pools[p].job = "finished"
    BY <2>1 DEF Restarted, Normalized
  <2> QED BY <2>2
<1>6. ASSUME NEW c, ImportAnswered(c) PROVE site' = site
  BY <1>6 DEF ImportAnswered, PollAnswered, ConnectionsLoaded, ConnectionSaved, ConnectionDeleted, AccountsRead,
     ImportStarted
<1>7. ASSUME NEW p, OpenForm(p) \/ DeleteConnection(p) \/ BrowseAccounts(p) PROVE site' = site
  BY <1>7 DEF OpenForm, DeleteConnection, BrowseAccounts
<1>8. CASE TypeSecret \/ CloseForm \/ SaveConnection \/ PollTick
  BY <1>1, <1>8 DEF TypeSecret, CloseForm, SaveConnection, PollTick
<1>9. CASE ChooseAccounts \/ CloseBrowser \/ StartImport \/ LeaveImports \/ ReturnToImports
  BY <1>1, <1>9 DEF ChooseAccounts, CloseBrowser, StartImport, LeaveImports, ReturnToImports
<1>10. ASSUME NEW c, ImportFails(c) PROVE site' = site
  BY <1>10 DEF ImportFails, Fails
<1> HIDE DEF JobsHaveRunners
<1> QED
  BY <1>1, <1>2, <1>3, <1>4, <1>5, <1>6, <1>7, <1>8, <1>9, <1>10 DEF ImportNext, ImportStep, ImportConnections

\* The invariant of the page of imports.
ImportsOK(p, s) == PollsOnce(p) /\ JobsHaveRunners(s)

\* The page opens with it: its first job has its runner.
LEMMA ImportsStart == ASSUME ImportInit PROVE ImportsOK(page, site)
<1>1. PollsOnce(page)
  <2>1. ~ShowsUnfinished(<<>>)
    BY DEF ShowsUnfinished
  <2> QED BY <2>1 DEF ImportInit, EmptyImports, PollsOnce
<1>2. JobsHaveRunners(site)
  <2> DEFINE pools == [p \in 1 .. 2 |-> [secret |-> p, job |-> IF p = 1 THEN "unfinished" ELSE "finished"]]
  <2>1. /\ {"pools", "runners", "abandoned"} \subseteq DOMAIN site
        /\ site.pools = pools /\ site.runners = {RunnerOf(1, 1, 0)}
    BY DEF ImportInit
  <2>2. {"to", "stage", "read"} \subseteq DOMAIN RunnerOf(1, 1, 0) /\ RunnerOf(1, 1, 0).to = 1
    BY DEF RunnerOf
  <2>3. /\ DOMAIN pools = 1 .. 2
        /\ \A p \in 1 .. 2 : "job" \in DOMAIN pools[p] /\ (p # 1 => pools[p].job = "finished")
    OBVIOUS
  <2> HIDE DEF pools
  <2> QED BY <2>1, <2>2, <2>3 DEF JobsHaveRunners
<1> QED
  BY <1>1, <1>2 DEF ImportsOK

-----------------------------------------------------------------------------
(* The register machine. *)

\* The register machine: it begins one registration at most after it was switched off, and the one that
\* it had looked at the switch for; switched on, it has a runner, or was started too late for the one it had, or
\* an exception ended that one.
MachineOK(s) ==
    /\ {"enabled", "runner", "late", "missed", "failed"} \subseteq DOMAIN s
    /\ s.enabled \in BOOLEAN /\ s.missed \in BOOLEAN /\ s.failed \in BOOLEAN /\ s.late \in Int /\ s.late <= 1
    /\ s.enabled => s.late = 0
    /\ s.runner = "submits" => s.late = 0
    /\ s.enabled /\ s.runner \in {"gone", "none"} => s.missed \/ s.failed

\* Starting, stopping and resuming the machine keep this.
LEMMA MachineServes ==
    ASSUME MachineOK(site)
    PROVE  MachineOK(MachineStarted) /\ MachineOK(MachineStopped) /\ MachineOK(Resumed)
<1>1. MachineOK(MachineStarted)
  <2>1. /\ {"enabled", "runner", "late", "missed", "failed"} \subseteq DOMAIN MachineStarted
        /\ MachineStarted.enabled \in BOOLEAN /\ MachineStarted.late = 0
        /\ MachineStarted.runner = IF site.runner # "none" THEN site.runner ELSE "asks"
    BY DEF MachineOK, MachineStarted
  <2>2. MachineStarted.missed \in BOOLEAN /\ MachineStarted.failed \in BOOLEAN /\ (site.runner = "gone" => MachineStarted.missed)
    BY DEF MachineOK, MachineStarted
  <2>3. MachineStarted.runner \in {"gone", "none"} => MachineStarted.missed
    BY <2>1, <2>2
  <2> QED BY <2>1, <2>2, <2>3 DEF MachineOK
<1>2. MachineOK(MachineStopped)
  BY DEF MachineOK, MachineStopped
<1>3. MachineOK(Resumed)
  BY DEF MachineOK, Resumed
<1> QED
  BY <1>1, <1>2, <1>3

\* So does every step of its page and of its runner.
LEMMA MachineKeeps ==
    ASSUME MachineOK(site), At("machine"), SettingsNext
    PROVE  MachineOK(site')
<1> USE DEF At
<1>1. CASE RunnerAsks
  BY <1>1 DEF RunnerAsks, RunnerAt, MachineOK
<1>2. CASE RunnerSubmits
  <2>1. site' = SubmitsNext /\ site.late = 0
    BY <1>2 DEF RunnerSubmits, RunnerAt, MachineOK
  <2>2. /\ DOMAIN SubmitsNext = DOMAIN site /\ SubmitsNext.enabled = site.enabled /\ SubmitsNext.missed = site.missed
        /\ SubmitsNext.failed = site.failed
        /\ SubmitsNext.runner = "asks" /\ SubmitsNext.late = IF site.enabled THEN 0 ELSE site.late + 1
    BY DEF SubmitsNext, MachineOK
  <2> QED BY <2>1, <2>2 DEF MachineOK
<1>3. CASE RunnerWaits \/ RunnerLeaves \/ RunnerGone
  BY <1>3 DEF RunnerWaits, RunnerLeaves, RunnerGone, RunnerAt, MachineOK
<1>14. CASE RunnerFails
  BY <1>14 DEF RunnerFails, RunnerAt, MachineOK
<1>4. ASSUME NEW c, ServeMachine(c) PROVE MachineOK(site')
  BY <1>4, MachineServes DEF ServeMachine, MachineOK
<1>5. CASE MachineRestarts \/ AnotherSwitches
  BY <1>5, MachineServes DEF MachineRestarts, AnotherSwitches
<1>6. ASSUME NEW c, RegisterLoaded(c) \/ StartRegister(c) \/ RegisterAsked(c) PROVE MachineOK(site')
  BY <1>6 DEF RegisterLoaded, StartRegister, RegisterAsked
<1>7. ~\E c : FormLoaded(c) \/ FormSaved(c) \/ ProxyTested(c) \/ ServeForm(c)
  BY DEF FormLoaded, FormSaved, ProxyTested, ServeForm, Forms
<1>8. ~\E c : \/ StatusLoaded(c) \/ UpdateAnswered(c) \/ RollbackAnswered(c) \/ RestartAnswered(c) \/ ServeCard(c) \/ CardFails(c)
  BY DEF StatusLoaded, UpdateAnswered, RollbackAnswered, RestartAnswered, ServeCard, CardFails, Card
<1>9. CASE RegisterPoll \/ EditRegister \/ SaveRegister \/ ResetRegister \/ ToggleRegister
  BY <1>9 DEF RegisterPoll, EditRegister, SaveRegister, ResetRegister, ToggleRegister, AskMachine
<1>10. CASE LeaveMachine \/ ReturnToMachine
  BY <1>10 DEF LeaveMachine, ReturnToMachine
<1>11. ~(EditForm \/ SaveForm \/ TestProxy \/ LeaveForms \/ ReturnToForms \/ AnotherSaves)
  BY DEF EditForm, SaveForm, TestProxy, LeaveForms, ReturnToForms, AnotherSaves, FormShown, Forms
<1>12. ~(RefreshStatus \/ HandleUpdate \/ HandleRollback \/ HandleRestart)
  BY DEF RefreshStatus, HandleUpdate, HandleRollback, HandleRestart, CardShown, Card
<1>13. ASSUME NEW c, SettingsFails(c) PROVE MachineOK(site')
  BY <1>13 DEF SettingsFails, Fails
<1> QED
  BY <1>1, <1>2, <1>3, <1>4, <1>5, <1>6, <1>7, <1>8, <1>9, <1>10, <1>11, <1>12, <1>13, <1>14
     DEF SettingsNext, SettingsStep

\* Its page opens with it.
LEMMA MachineStarts == ASSUME SettingsInit, At("machine") PROVE MachineOK(site)
<1>1. MachineInit
  BY DEF SettingsInit, FormsInit, EmptyForm, CardInit, EmptyCard, At
<1>2. PICK on \in BOOLEAN :
        site = [value |-> 0, enabled |-> on, runner |-> IF on THEN "asks" ELSE "none", late |-> 0, missed |-> FALSE,
                failed |-> FALSE]
  BY <1>1 DEF MachineInit
<1>3. /\ {"enabled", "runner", "late", "missed", "failed"} \subseteq DOMAIN site
      /\ site.enabled \in BOOLEAN /\ site.missed \in BOOLEAN /\ site.failed \in BOOLEAN /\ site.late = 0
      /\ site.runner \in {"asks", "none"}
      /\ site.enabled => site.runner = "asks"
  BY <1>2
<1> QED
  BY <1>3 DEF MachineOK

-----------------------------------------------------------------------------
(* The update card. *)

\* A request that ends with the update: the update, and the check that follows one without a restart.
Updates(c) == c.op = "update" \/ (c.op = "status" /\ c.arg = "updated")

\* An answer on its way that will show the button of the restart.
Brings(c) ==
    /\ c.got # Nothing /\ c.got.ok
    /\ c.op = "rollback" \/ (c.op = "update" /\ c.got.needRestart)

\* An answer on its way that will hide it.
RestartTaken(c) == c.op = "restart" /\ c.got # Nothing /\ c.got.ok

\* The card: an update excludes a rollback, a restart and the button of one.
CardPage(p) ==
    /\ {"at", "updating", "rolling", "restarting", "needsRestart"} \subseteq DOMAIN p
    /\ p.updating \in BOOLEAN /\ p.rolling \in BOOLEAN /\ p.restarting \in BOOLEAN /\ p.needsRestart \in BOOLEAN
    /\ p.updating => ~p.rolling /\ ~p.restarting /\ ~p.needsRestart
CardSite(s) == {"due", "unclear"} \subseteq DOMAIN s /\ s.due \in BOOLEAN /\ s.unclear \in BOOLEAN

\* Of the update, the rollback and the restart there is one request at most, and its spinner turns.
CardJobs(p, cs) ==
    /\ \A c \in cs : Updates(c) => p.updating /\ \A d \in cs : Updates(d) => d = c
    /\ \A c \in cs : c.op = "rollback" => p.rolling /\ \A d \in cs : d.op = "rollback" => d = c
    /\ \A c \in cs : c.op = "restart" => p.restarting /\ \A d \in cs : d.op = "restart" => d = c

\* Unless an answer was lost or a restart was asked for during a rollback: a restart that is due has its
\* button or an answer on its way that brings it, and none is due while a taken one is on its way.
CardDue(p, s, cs) ==
    ~s.unclear =>
      /\ ~(p.restarting /\ p.rolling)
      /\ s.due => p.needsRestart \/ \E c \in cs : Brings(c)
      /\ \A c \in cs : RestartTaken(c) => ~s.due

\* The invariant of the card.
CardOK(p, s, cs) == CardPage(p) /\ CardSite(s) /\ (\A c \in cs : IsCall(c)) /\ CardJobs(p, cs) /\ CardDue(p, s, cs)

\* An answer to a request leaves its job as it is.
LEMMA JobsAnswered ==
    ASSUME NEW p, NEW cs, CardJobs(p, cs), NEW c \in cs, NEW d, d.op = c.op, d.arg = c.arg
    PROVE  CardJobs(p, (cs \ {c}) \cup {d})
<1>1. Updates(d) <=> Updates(c)
  BY DEF Updates
<1> QED BY <1>1 DEF CardJobs

\* Whatever the site answers to a request of the card keeps the invariant: a release that is installed
\* or restored is announced by the answer, and a restart in between cannot have been taken.
LEMMA CardServes ==
    ASSUME CardOK(page, site, calls), NEW c, ServeCard(c)
    PROVE  CardOK(page', site', calls')
<1> USE DEF CardOK
<1>1. c \in calls /\ IsCall(c) /\ c.got = Nothing /\ page' = page /\ CardPage(page) /\ CardSite(site)
  BY DEF ServeCard
<1>2. ~Brings(c)
  BY <1>1 DEF Brings
<1>3. ASSUME NEW got, Served(c, got), NEW s, site' = s, CardSite(s),
             \A d \in calls' : d.got = got /\ d.op = c.op /\ IsCall(d) =>
                CardDue(page, s, (calls \ {c}) \cup {d})
      PROVE  CardOK(page', site', calls')
  <2> DEFINE d == [c EXCEPT !.got = got]
  <2>1. IsCall(d) /\ d.op = c.op /\ d.arg = c.arg /\ d.got = got
    BY <1>1, GotKeeps
  <2>2. calls' = (calls \ {c}) \cup {d}
    BY <1>3 DEF Served
  <2> HIDE DEF d
  <2>3. CardJobs(page, calls')
    BY <2>1, <2>2, <1>1, JobsAnswered
  <2>4. CardDue(page, s, calls')
    BY <2>1, <2>2, <1>3
  <2> QED BY <2>1, <2>2, <2>3, <2>4, <1>1, <1>3
<1>4. ASSUME NEW d, d.op = c.op, ~Brings(d), ~RestartTaken(d) PROVE CardDue(page, site, (calls \ {c}) \cup {d})
  BY <1>4, <1>2 DEF CardDue
<1>5. CASE c.op = "status" /\ UNCHANGED site /\ Served(c, [ok |-> TRUE, status |-> IF site.newer THEN "newer" ELSE "newest"])
  <2> DEFINE got == [ok |-> TRUE, status |-> IF site.newer THEN "newer" ELSE "newest"]
  <2>1. \A d : d.op = c.op => ~Brings(d) /\ ~RestartTaken(d)
    BY <1>5 DEF Brings, RestartTaken
  <2>2. Served(c, got)
    BY <1>5
  <2> HIDE DEF got
  <2> QED BY <2>1, <2>2, <1>3, <1>4, <1>5, <1>1
<1>6. ASSUME NEW got \in [ok : {TRUE}, needRestart : BOOLEAN], c.op = "update", Served(c, got),
             NEW s, site' = s, CardSite(s), s.unclear = site.unclear,
             s.due = (site.due \/ got.needRestart)
      PROVE  CardOK(page', site', calls')
  <2>1. got.ok /\ got # Nothing
    BY <1>6, CardAssumption
  <2>2. page.updating
    BY <1>1, <1>6 DEF CardJobs, Updates
  <2>3. \A d \in calls : ~RestartTaken(d)
    BY <2>2, <1>1 DEF CardJobs, CardPage, RestartTaken
  <2>4. ASSUME NEW d, d.got = got, d.op = c.op PROVE CardDue(page, s, (calls \ {c}) \cup {d})
    <3>1. got.needRestart => Brings(d)
      BY <2>1, <2>4, <1>6 DEF Brings
    <3>2. ~RestartTaken(d)
      BY <2>4, <1>6 DEF RestartTaken
    <3>3. ~got.needRestart => s.due = site.due
      BY <1>6, <1>1 DEF CardSite
    <3> QED BY <1>2, <1>6, <2>3, <3>1, <3>2, <3>3 DEF CardDue
  <2> QED BY <1>3, <1>6, <2>4
<1>7. ASSUME c.op = "rollback", Served(c, [ok |-> TRUE]), site' = [site EXCEPT !.due = TRUE]
      PROVE  CardOK(page', site', calls')
  <2> DEFINE got == [ok |-> TRUE]
             s == [site EXCEPT !.due = TRUE]
  <2>0. got \in [ok : BOOLEAN]
    OBVIOUS
  <2>1. got.ok /\ got # Nothing
    BY <2>0, CardAssumption
  <2>s. CardSite(s) /\ s.due /\ s.unclear = site.unclear
    BY <1>1 DEF CardSite
  <2> HIDE DEF got
  <2>2. page.rolling
    BY <1>1, <1>7 DEF CardJobs
  <2>3. \A d \in calls : RestartTaken(d) => site.unclear
    BY <2>2 DEF CardJobs, CardDue, RestartTaken
  <2>4. ASSUME NEW d, d.got = got, d.op = c.op PROVE CardDue(page, s, (calls \ {c}) \cup {d})
    <3>1. Brings(d) /\ ~RestartTaken(d)
      BY <2>1, <2>4, <1>7 DEF Brings, RestartTaken
    <3> QED BY <2>s, <2>3, <3>1 DEF CardDue
  <2>5. site' = s /\ Served(c, got)
    BY <1>7 DEF got
  <2> HIDE DEF s
  <2> QED BY <1>3, <2>s, <2>4, <2>5
<1>8. ASSUME c.op = "restart", Served(c, [ok |-> TRUE]), NEW newer, site' = [site EXCEPT !.due = FALSE, !.newer = newer]
      PROVE  CardOK(page', site', calls')
  <2> DEFINE got == [ok |-> TRUE]
             s == [site EXCEPT !.due = FALSE, !.newer = newer]
  <2>s. CardSite(s) /\ ~s.due /\ s.unclear = site.unclear
    BY <1>1 DEF CardSite
  <2>4. ASSUME NEW d PROVE CardDue(page, s, (calls \ {c}) \cup {d})
    BY <2>s DEF CardDue
  <2>5. site' = s /\ Served(c, got)
    BY <1>8
  <2> HIDE DEF s, got
  <2> QED BY <1>3, <2>s, <2>4, <2>5
<1>9. ASSUME c.op \in {"update", "rollback", "restart"}, Served(c, Failure), UNCHANGED site
      PROVE  CardOK(page', site', calls')
  <2>1. \A d : d.got = Failure => ~Brings(d) /\ ~RestartTaken(d)
    BY DEF Failure, Brings, RestartTaken
  <2> QED BY <2>1, <1>3, <1>4, <1>9, <1>1
<1>10. CASE c.op = "update" /\ page.mode = "systemd" /\ site' = [site EXCEPT !.due = TRUE]
            /\ Served(c, [ok |-> TRUE, needRestart |-> page.mode = "systemd"])
  <2> DEFINE got == [ok |-> TRUE, needRestart |-> page.mode = "systemd"]
             s == [site EXCEPT !.due = TRUE]
  <2>1. got \in [ok : {TRUE}, needRestart : BOOLEAN] /\ got.needRestart
    BY <1>10
  <2>2. CardSite(s) /\ s.due /\ s.unclear = site.unclear
    BY <1>1 DEF CardSite
  <2>3. Served(c, got) /\ site' = s /\ c.op = "update"
    BY <1>10
  <2> HIDE DEF got, s
  <2>4. s.due = (site.due \/ got.needRestart)
    BY <2>1, <2>2 DEF CardSite
  <2> QED BY <2>1, <2>2, <2>3, <2>4, <1>6
<1>11. ASSUME NEW newer, c.op = "update", page.mode # "systemd", site' = [site EXCEPT !.newer = newer],
              Served(c, [ok |-> TRUE, needRestart |-> page.mode = "systemd"])
       PROVE  CardOK(page', site', calls')
  <2> DEFINE got == [ok |-> TRUE, needRestart |-> page.mode = "systemd"]
             s == [site EXCEPT !.newer = newer]
  <2>1. got \in [ok : {TRUE}, needRestart : BOOLEAN] /\ ~got.needRestart
    BY <1>11
  <2>2. CardSite(s) /\ s.due = site.due /\ s.unclear = site.unclear
    BY <1>1 DEF CardSite
  <2>3. Served(c, got) /\ site' = s
    BY <1>11
  <2> HIDE DEF got, s
  <2>4. s.due = (site.due \/ got.needRestart)
    BY <2>1, <2>2, <1>1 DEF CardSite
  <2> QED BY <1>11, <2>1, <2>2, <2>3, <2>4, <1>6
<1> QED
  BY <1>5, <1>7, <1>8, <1>9, <1>10, <1>11 DEF ServeCard

\* Whichever answer comes, in whatever order: the button comes with the answer that brings it.
LEMMA CardAnswered ==
    ASSUME CardOK(page, site, calls), NEW c,
           StatusLoaded(c) \/ UpdateAnswered(c) \/ RollbackAnswered(c) \/ RestartAnswered(c)
    PROVE  CardOK(page', site', calls')
<1> USE DEF CardOK
<1>1. /\ c \in calls /\ IsCall(c) /\ c.got # Nothing /\ site' = site
      /\ CardPage(page) /\ CardSite(site) /\ CardJobs(page, calls) /\ CardDue(page, site, calls)
  BY DEF StatusLoaded, UpdateAnswered, RollbackAnswered, RestartAnswered, Answered
<1>2. CASE StatusLoaded(c)
  <2>1. c.op = "status" /\ calls' = calls \ {c}
    BY <1>2 DEF StatusLoaded, Answered
  <2>2. /\ DOMAIN page' = DOMAIN page /\ page'.rolling = page.rolling /\ page'.restarting = page.restarting
        /\ page'.needsRestart = page.needsRestart /\ page'.updating = (page.updating /\ c.arg # "updated")
    BY <1>1, <1>2 DEF StatusLoaded, CardPage
  <2>3. page'.updating \in BOOLEAN /\ (page'.updating => page.updating)
        /\ (page.updating /\ c.arg # "updated" => page'.updating)
    BY <2>2
  <2>4. CardPage(page')
    BY <1>1, <2>2, <2>3 DEF CardPage
  <2>5. CardJobs(page', calls')
    BY <1>1, <2>1, <2>2, <2>3 DEF CardJobs, Updates
  <2>6. CardDue(page', site', calls')
    BY <1>1, <2>1, <2>2 DEF CardDue, Brings
  <2> QED BY <1>1, <2>1, <2>4, <2>5, <2>6
<1>3. CASE UpdateAnswered(c)
  <2>0. c.op = "update" /\ Updates(c) /\ page.updating /\ ~page.needsRestart /\ ~page.rolling /\ ~page.restarting
    BY <1>1, <1>3 DEF UpdateAnswered, Answered, Updates, CardJobs, CardPage
  <2>1. CASE c.got.ok /\ ~c.got.needRestart
    <3> DEFINE e == [c EXCEPT !.op = "status", !.arg = "updated", !.got = Nothing]
    <3>1. e = [op |-> "status", arg |-> "updated", by |-> c.by, got |-> Nothing]
      <4> DEFINE r == [op |-> c.op, arg |-> c.arg, by |-> c.by, got |-> c.got]
      <4>1. c = r
        BY <1>1 DEF IsCall
      <4> HIDE DEF r
      <4> DEFINE f == [c EXCEPT !.op = "status"]
                 g == [f EXCEPT !.arg = "updated"]
                 h == [g EXCEPT !.got = Nothing]
      <4>2. e = h
        OBVIOUS
      <4>3. f = [op |-> "status", arg |-> c.arg, by |-> c.by, got |-> c.got]
        BY <4>1 DEF r
      <4> HIDE DEF e, f
      <4>4. g = [op |-> "status", arg |-> "updated", by |-> c.by, got |-> c.got]
        BY <4>3
      <4> HIDE DEF g
      <4>5. h = [op |-> "status", arg |-> "updated", by |-> c.by, got |-> Nothing]
        BY <4>4
      <4> QED BY <4>2, <4>5
    <3>2. IsCall(e) /\ Updates(e) /\ ~Brings(e) /\ ~RestartTaken(e) /\ e.op = "status"
      BY <3>1 DEF IsCall, Updates, Brings, RestartTaken
    <3>3. calls' = (calls \ {c}) \cup {e}
      BY <1>3, <2>1 DEF UpdateAnswered
    <3> HIDE DEF e
    <3>4. page' = [page EXCEPT !.needsRestart = FALSE, !.refreshing = TRUE]
      BY <1>3, <2>1 DEF UpdateAnswered
    <3>5. /\ DOMAIN page' = DOMAIN page /\ page'.rolling = page.rolling /\ page'.restarting = page.restarting
          /\ page'.updating = page.updating /\ page'.needsRestart = FALSE
      BY <3>4, <1>1 DEF CardPage
    <3>6. CardPage(page')
      BY <1>1, <3>5 DEF CardPage
    <3>7. CardJobs(page', calls')
      BY <1>1, <2>0, <3>2, <3>3, <3>5 DEF CardJobs
    <3>8. ~Brings(c)
      BY <2>0, <2>1 DEF Brings
    <3>9. CardDue(page', site', calls')
      BY <1>1, <2>0, <3>2, <3>3, <3>5, <3>8 DEF CardDue
    <3> QED BY <1>1, <3>2, <3>3, <3>6, <3>7, <3>9
  <2>2. CASE ~(c.got.ok /\ ~c.got.needRestart)
    <3>1. calls' = calls \ {c} /\ page' = [page EXCEPT !.updating = FALSE, !.needsRestart = @ \/ c.got.ok]
      BY <1>3, <2>2 DEF UpdateAnswered
    <3>2. /\ DOMAIN page' = DOMAIN page /\ page'.rolling = page.rolling /\ page'.restarting = page.restarting
          /\ page'.updating = FALSE /\ page'.needsRestart = (page.needsRestart \/ c.got.ok)
      BY <3>1, <1>1 DEF CardPage
    <3>3. page'.needsRestart \in BOOLEAN /\ (Brings(c) => page'.needsRestart)
      BY <3>2 DEF Brings
    <3>4. CardPage(page')
      BY <1>1, <3>2, <3>3 DEF CardPage
    <3>5. CardJobs(page', calls')
      BY <1>1, <2>0, <3>1, <3>2 DEF CardJobs
    <3>6. CardDue(page', site', calls')
      BY <1>1, <2>0, <3>1, <3>2, <3>3 DEF CardDue
    <3> QED BY <1>1, <3>1, <3>4, <3>5, <3>6
  <2> QED BY <2>1, <2>2
<1>4. CASE RollbackAnswered(c)
  <2>1. c.op = "rollback" /\ calls' = calls \ {c} /\ page.rolling /\ ~page.updating
    BY <1>1, <1>4 DEF RollbackAnswered, Answered, CardJobs, CardPage
  <2>2. /\ DOMAIN page' = DOMAIN page /\ page'.rolling = FALSE /\ page'.restarting = page.restarting
        /\ page'.updating = page.updating /\ page'.needsRestart = (page.needsRestart \/ c.got.ok)
    BY <1>1, <1>4 DEF RollbackAnswered, RollbackDone, CardPage
  <2>3. page'.needsRestart \in BOOLEAN /\ (Brings(c) \/ page.needsRestart => page'.needsRestart)
    BY <2>2 DEF Brings
  <2>4. CardPage(page')
    BY <1>1, <2>1, <2>2, <2>3 DEF CardPage
  <2>5. CardJobs(page', calls')
    BY <1>1, <2>1, <2>2 DEF CardJobs
  <2>6. CardDue(page', site', calls')
    BY <1>1, <2>1, <2>2, <2>3 DEF CardDue
  <2> QED BY <1>1, <2>1, <2>4, <2>5, <2>6
<1>5. CASE RestartAnswered(c)
  <2>1. c.op = "restart" /\ calls' = calls \ {c} /\ page.restarting /\ ~page.updating
    BY <1>1, <1>5 DEF RestartAnswered, Answered, CardJobs, CardPage
  <2>2. /\ DOMAIN page' = DOMAIN page /\ page'.rolling = page.rolling /\ page'.restarting = FALSE
        /\ page'.updating = page.updating /\ page'.needsRestart = (page.needsRestart /\ ~c.got.ok)
    BY <1>1, <1>5 DEF RestartAnswered, CardPage
  <2>3. page'.needsRestart \in BOOLEAN /\ (page.needsRestart /\ ~c.got.ok => page'.needsRestart)
    BY <2>2
  <2>7. ~Brings(c) /\ (c.got.ok => RestartTaken(c))
    BY <2>1, <1>1 DEF Brings, RestartTaken
  <2>4. CardPage(page')
    BY <1>1, <2>1, <2>2, <2>3 DEF CardPage
  <2>5. CardJobs(page', calls')
    BY <1>1, <2>1, <2>2 DEF CardJobs
  <2>6. CardDue(page', site', calls')
    BY <1>1, <2>1, <2>2, <2>3, <2>7 DEF CardDue
  <2> QED BY <1>1, <2>1, <2>4, <2>5, <2>6
<1> QED
  BY <1>2, <1>3, <1>4, <1>5

\* The buttons of the card keep the invariant: each is there when no other job excludes it.
LEMMA CardAsks ==
    ASSUME CardOK(page, site, calls), RefreshStatus \/ HandleUpdate \/ HandleRollback \/ HandleRestart
    PROVE  CardOK(page', site', calls')
<1> USE DEF CardOK
<1>1. CardPage(page) /\ CardSite(site) /\ CardJobs(page, calls) /\ CardDue(page, site, calls)
  OBVIOUS
<1>2. ASSUME NEW op, NEW c, c = Asks(op, Nothing)
      PROVE  IsCall(c) /\ c.op = op /\ c.arg = Nothing /\ ~Brings(c) /\ ~RestartTaken(c)
  BY <1>2 DEF Asks, IsCall, Brings, RestartTaken
<1>3. CASE RefreshStatus
  <2> DEFINE c == Asks("status", Nothing)
  <2>1. page' = [page EXCEPT !.refreshing = TRUE] /\ calls' = calls \cup {c} /\ site' = site
    BY <1>3 DEF RefreshStatus
  <2>2. IsCall(c) /\ c.op = "status" /\ c.arg = Nothing /\ ~Brings(c) /\ ~RestartTaken(c)
    BY <1>2
  <2> HIDE DEF c
  <2>3. ~Updates(c)
    BY <2>2, CardAssumption DEF Updates
  <2>4. /\ DOMAIN page' = DOMAIN page /\ page'.rolling = page.rolling /\ page'.restarting = page.restarting
        /\ page'.updating = page.updating /\ page'.needsRestart = page.needsRestart
    BY <2>1, <1>1 DEF CardPage
  <2>5. CardPage(page')
    BY <1>1, <2>4 DEF CardPage
  <2>6. CardJobs(page', calls')
    BY <1>1, <2>1, <2>2, <2>3, <2>4 DEF CardJobs
  <2>7. CardDue(page', site', calls')
    BY <1>1, <2>1, <2>2, <2>4 DEF CardDue
  <2> QED BY <2>1, <2>2, <2>5, <2>6, <2>7
<1>4. CASE HandleUpdate
  <2> DEFINE c == Asks("update", Nothing)
  <2>1. /\ page' = [page EXCEPT !.updating = TRUE] /\ calls' = calls \cup {c} /\ site' = site
        /\ ~page.needsRestart /\ ~page.updating /\ ~page.rolling /\ ~page.restarting
    BY <1>4 DEF HandleUpdate, CanUpdate, CardBusy
  <2>2. IsCall(c) /\ c.op = "update" /\ ~Brings(c) /\ ~RestartTaken(c)
    BY <1>2
  <2> HIDE DEF c
  <2>4. /\ DOMAIN page' = DOMAIN page /\ page'.rolling = page.rolling /\ page'.restarting = page.restarting
        /\ page'.updating = TRUE /\ page'.needsRestart = page.needsRestart
    BY <2>1, <1>1 DEF CardPage
  <2>5. CardPage(page')
    BY <1>1, <2>1, <2>4 DEF CardPage
  <2>3. \A d \in calls : ~Updates(d)
    BY <1>1, <2>1 DEF CardJobs
  <2>6. CardJobs(page', calls')
    BY <1>1, <2>1, <2>2, <2>3, <2>4 DEF CardJobs
  <2>7. CardDue(page', site', calls')
    BY <1>1, <2>1, <2>2, <2>4 DEF CardDue
  <2> QED BY <2>1, <2>2, <2>5, <2>6, <2>7
<1>5. CASE HandleRollback
  <2> DEFINE c == Asks("rollback", Nothing)
  <2>1. /\ page' = [page EXCEPT !.rolling = TRUE] /\ calls' = calls \cup {c} /\ site' = site
        /\ ~page.updating /\ ~page.rolling /\ ~page.restarting
    BY <1>5 DEF HandleRollback, CanRollback, CardBusy
  <2>2. IsCall(c) /\ c.op = "rollback" /\ ~Brings(c) /\ ~RestartTaken(c)
    BY <1>2
  <2> HIDE DEF c
  <2>3. ~Updates(c)
    BY <2>2 DEF Updates
  <2>4. /\ DOMAIN page' = DOMAIN page /\ page'.rolling = TRUE /\ page'.restarting = page.restarting
        /\ page'.updating = page.updating /\ page'.needsRestart = page.needsRestart
    BY <2>1, <1>1 DEF CardPage
  <2>5. CardPage(page')
    BY <1>1, <2>1, <2>4 DEF CardPage
  <2>6. CardJobs(page', calls')
    BY <1>1, <2>1, <2>2, <2>3, <2>4 DEF CardJobs
  <2>7. CardDue(page', site', calls')
    BY <1>1, <2>1, <2>2, <2>4 DEF CardDue
  <2> QED BY <2>1, <2>2, <2>5, <2>6, <2>7
<1>6. CASE HandleRestart
  <2> DEFINE c == Asks("restart", Nothing)
  <2>1. /\ page' = [page EXCEPT !.restarting = TRUE] /\ calls' = calls \cup {c}
        /\ site' = [site EXCEPT !.unclear = @ \/ page.rolling]
        /\ page.needsRestart /\ ~page.updating /\ ~page.restarting
    BY <1>6, <1>1 DEF HandleRestart, CardPage
  <2>2. IsCall(c) /\ c.op = "restart" /\ ~Brings(c) /\ ~RestartTaken(c)
    BY <1>2
  <2> HIDE DEF c
  <2>3. ~Updates(c)
    BY <2>2 DEF Updates
  <2>4. /\ DOMAIN page' = DOMAIN page /\ page'.rolling = page.rolling /\ page'.restarting = TRUE
        /\ page'.updating = page.updating /\ page'.needsRestart = page.needsRestart
    BY <2>1, <1>1 DEF CardPage
  <2>5. CardPage(page')
    BY <1>1, <2>1, <2>4 DEF CardPage
  <2>6. CardJobs(page', calls')
    BY <1>1, <2>1, <2>2, <2>3, <2>4 DEF CardJobs
  <2>8. DOMAIN site' = DOMAIN site /\ site'.due = site.due /\ site'.unclear = (site.unclear \/ page.rolling)
    BY <1>1, <2>1 DEF CardSite
  <2>9. CardSite(site')
    BY <1>1, <2>8 DEF CardSite
  <2>10. \A d \in calls' : ~RestartTaken(d)
    BY <1>1, <2>1, <2>2 DEF CardJobs, RestartTaken
  <2>7. CardDue(page', site', calls')
    BY <1>1, <2>1, <2>2, <2>4, <2>8, <2>10 DEF CardDue
  <2> QED BY <2>1, <2>2, <2>5, <2>6, <2>7, <2>9
<1> QED
  BY <1>3, <1>4, <1>5, <1>6

\* A lost request keeps it, a lost answer makes the matter unclear.
LEMMA CardFailsKeep ==
    ASSUME CardOK(page, site, calls), NEW c, CardFails(c)
    PROVE  CardOK(page', site', calls')
<1> USE DEF CardOK
<1> DEFINE d == [c EXCEPT !.got = Failure]
<1>1. /\ CardPage(page) /\ CardSite(site) /\ CardJobs(page, calls) /\ CardDue(page, site, calls)
      /\ c \in calls /\ IsCall(c) /\ page' = page
  BY DEF CardFails
<1>2. IsCall(d) /\ d.op = c.op /\ d.arg = c.arg /\ d.got = Failure
  BY <1>1, GotKeeps
<1>3. calls' = (calls \ {c}) \cup {d}
  BY DEF CardFails, Served
<1> HIDE DEF d
<1>4. CardJobs(page, calls')
  BY <1>1, <1>2, <1>3, JobsAnswered
<1>5. DOMAIN site' = DOMAIN site /\ site'.due = site.due /\ site'.unclear = (site.unclear \/ c.got # Nothing)
  BY <1>1 DEF CardFails, CardSite
<1>6. CardSite(site')
  BY <1>1, <1>5 DEF CardSite
<1>7. ~Brings(d) /\ ~RestartTaken(d)
  BY <1>2 DEF Brings, RestartTaken, Failure
<1>8. c.got = Nothing => ~Brings(c)
  BY DEF Brings
<1>9. CardDue(page, site', calls')
  BY <1>1, <1>3, <1>5, <1>7, <1>8 DEF CardDue
<1> QED
  BY <1>1, <1>2, <1>3, <1>4, <1>6, <1>9

\* Every step of the settings keeps the invariant of the card.
LEMMA CardKeeps ==
    ASSUME CardOK(page, site, calls), At("update"), SettingsNext
    PROVE  CardOK(page', site', calls')
<1>1. ASSUME NEW c, ServeCard(c) PROVE CardOK(page', site', calls')
  BY <1>1, CardServes
<1>2. ASSUME NEW c, StatusLoaded(c) \/ UpdateAnswered(c) \/ RollbackAnswered(c) \/ RestartAnswered(c)
      PROVE  CardOK(page', site', calls')
  BY <1>2, CardAnswered
<1>3. CASE RefreshStatus \/ HandleUpdate \/ HandleRollback \/ HandleRestart
  BY <1>3, CardAsks
<1>4. ASSUME NEW c, CardFails(c) PROVE CardOK(page', site', calls')
  BY <1>4, CardFailsKeep
<1>5. ~(RunnerAsks \/ RunnerSubmits \/ RunnerWaits \/ RunnerLeaves \/ RunnerGone \/ RunnerFails)
  BY DEF RunnerAsks, RunnerSubmits, RunnerWaits, RunnerLeaves, RunnerGone, RunnerFails, RunnerAt, Machine, At
<1>6. ~\E c : RegisterLoaded(c) \/ StartRegister(c) \/ RegisterAsked(c) \/ ServeMachine(c)
  BY DEF RegisterLoaded, StartRegister, RegisterAsked, ServeMachine, Machine, At
<1>7. ~\E c : FormLoaded(c) \/ FormSaved(c) \/ ProxyTested(c) \/ ServeForm(c)
  BY DEF FormLoaded, FormSaved, ProxyTested, ServeForm, Forms, At
<1>8. ~(RegisterPoll \/ EditRegister \/ SaveRegister \/ ResetRegister \/ ToggleRegister)
  BY DEF RegisterPoll, EditRegister, SaveRegister, ResetRegister, ToggleRegister, AskMachine, Machine, Event, At
<1>9. ~(LeaveMachine \/ ReturnToMachine \/ MachineRestarts \/ AnotherSwitches)
  BY DEF LeaveMachine, ReturnToMachine, MachineRestarts, AnotherSwitches, Machine, Event, At
<1>10. ~(EditForm \/ SaveForm \/ TestProxy \/ LeaveForms \/ ReturnToForms \/ AnotherSaves)
  BY DEF EditForm, SaveForm, TestProxy, LeaveForms, ReturnToForms, AnotherSaves, FormShown, Forms, Event, At
<1>11. ~\E c : SettingsFails(c)
  BY DEF SettingsFails, Machine, Forms, At
<1> QED
  BY <1>1, <1>2, <1>3, <1>4, <1>5, <1>6, <1>7, <1>8, <1>9, <1>10, <1>11 DEF SettingsNext, SettingsStep

\* The card opens with it: nothing is due, and one check is under way.
LEMMA CardStarts == ASSUME SettingsInit, At("update") PROVE CardOK(page, site, calls)
<1>1. CardInit
  BY DEF SettingsInit, FormsInit, EmptyForm, MachineInit, EmptyMachine, At
<1>2. /\ CardPage(page) /\ site = [newer |-> TRUE, due |-> FALSE, unclear |-> FALSE] /\ calls = {Load("status", Nothing)}
      /\ page.restarting = FALSE
  BY <1>1 DEF CardInit, EmptyCard, CardPage
<1>3. ASSUME NEW c, c = Load("status", Nothing)
      PROVE  IsCall(c) /\ ~Updates(c) /\ c.op = "status" /\ ~RestartTaken(c)
  BY <1>3, CardAssumption DEF Load, IsCall, Updates, RestartTaken
<1> QED
  BY <1>2, <1>3 DEF CardOK, CardSite, CardJobs, CardDue

-----------------------------------------------------------------------------
(* What a connection gets of imports. *)

\* A secret in the dialog was typed for the connection that it is open for, and the accounts in the
\* browser are those of its connection.
OwnForm(p) ==
    /\ {"form", "browser"} \subseteq DOMAIN p
    /\ {"open", "of", "secret"} \subseteq DOMAIN p.form
    /\ {"open", "of", "files", "chosen"} \subseteq DOMAIN p.browser
    /\ p.form.open => p.form.secret \in {Nothing, p.form.of}
    /\ p.browser.of = p.browser.files /\ p.browser.chosen \in {Nothing, p.browser.files}

\* What is sent carries the secret, or the accounts, of the connection that it is sent for.
OwnCall(c) ==
    /\ IsCall(c)
    /\ c.op = "save" => /\ c.arg.secret \in {Nothing, c.arg.to}
                        /\ c.arg.to = NewConnection => c.arg.secret = NewConnection
    /\ c.op = "import" => c.arg.to = c.arg.names

\* Every connection has its own secret, and every runner imports accounts of its connection.
OwnSite(s) ==
    /\ {"pools", "runners", "next"} \subseteq DOMAIN s
    /\ \A r \in s.runners : {"to", "names", "stage", "read"} \subseteq DOMAIN r /\ r.to = r.names
    /\ \A p \in DOMAIN s.pools : {"secret", "job"} \subseteq DOMAIN s.pools[p] /\ s.pools[p].secret = p

\* All three together.
OwnInv(p, s, cs) == OwnForm(p) /\ OwnSite(s) /\ \A c \in cs : OwnCall(c)

\* What else changes on the page of imports leaves the dialog and the browser.
FormAlike(p, q) == DOMAIN q = DOMAIN p /\ q.form = p.form /\ q.browser = p.browser

\* A page with the same dialog and browser is as good.
LEMMA AlikeOwnForm == \A p, q : OwnForm(p) /\ FormAlike(p, q) => OwnForm(q)
BY DEF OwnForm, FormAlike

\* So is one that takes a list over.
LEMMA PollingAlike ==
    ASSUME NEW p, NEW list, OwnForm(p)
    PROVE  OwnForm(Polling(p, list))
<1> DEFINE others == p.timers \ {p.ref}
           new == IF p.mounted /\ ShowsUnfinished(list) THEN 1 + Cardinality(others) ELSE Nothing
<1>1. Polling(p, list) = [p EXCEPT !.list = list, !.ref = new, !.timers = others \cup ({new} \ {Nothing})]
  BY DEF Polling
<1> HIDE DEF new, others
<1>2. FormAlike(p, Polling(p, list))
  BY <1>1 DEF FormAlike, OwnForm
<1> QED
  BY <1>2, AlikeOwnForm

\* Dialogs and browsers that open and close while answers come hold what belongs to their connection.
LEMMA OwnFormKeeps ==
    ASSUME OwnInv(page, site, calls), ImportNext
    PROVE  OwnForm(page') \/ page' = Left
<1> USE DEF OwnInv
<1>1. \A list : OwnForm(Polling(page, list))
  BY PollingAlike
<1>2. CASE page' = page
  BY <1>2
<1>3. ASSUME FormAlike(page, page') PROVE OwnForm(page')
  BY <1>3, AlikeOwnForm
<1>4. ASSUME NEW c, ImportAnswered(c) PROVE OwnForm(page')
  <2>1. CASE PollAnswered(c)
    <3>1. CASE page' = [page EXCEPT !.timers = @ \ {page.ref}, !.ref = Nothing]
      BY <3>1, <1>3 DEF FormAlike, OwnForm
    <3> QED BY <2>1, <3>1, <1>1, <1>2 DEF PollAnswered
  <2> DEFINE polling == Polling(page, c.got.list)
             shown == IF c.got.ok THEN polling ELSE page
  <2>p. OwnForm(polling) /\ OwnForm(shown)
    BY <1>1
  <2>3. CASE ConnectionsLoaded(c)
    <3>1. page' = [shown EXCEPT !.loading = FALSE]
      BY <2>3 DEF ConnectionsLoaded
    <3> HIDE DEF shown
    <3>2. FormAlike(shown, page')
      BY <2>p, <3>1 DEF FormAlike, OwnForm
    <3> QED BY <2>p, <3>2, AlikeOwnForm
  <2>4. CASE ConnectionDeleted(c)
    <3>1. page' = [shown EXCEPT !.deleting = Nothing]
      BY <2>4 DEF ConnectionDeleted
    <3> HIDE DEF shown
    <3>2. FormAlike(shown, page')
      BY <2>p, <3>1 DEF FormAlike, OwnForm
    <3> QED BY <2>p, <3>2, AlikeOwnForm
  <2>5. CASE ConnectionSaved(c)
    <3> DEFINE closed == [polling EXCEPT !.form.open = FALSE, !.form.of = NewConnection]
               now == IF c.got.ok THEN closed ELSE page
    <3>1. page' = [now EXCEPT !.saving = FALSE]
      BY <2>5 DEF ConnectionSaved
    <3> HIDE DEF polling
    <3>2. OwnForm(closed)
      BY <2>p DEF OwnForm
    <3>3. OwnForm(now)
      BY <3>2
    <3> HIDE DEF now
    <3>4. FormAlike(now, page')
      BY <3>1, <3>3 DEF FormAlike, OwnForm
    <3> QED BY <3>3, <3>4, AlikeOwnForm
  <2>6. CASE AccountsRead(c)
    <3> DEFINE browser == IF c.got = Nothing /\ Known(c.arg) THEN Browsed(c) ELSE page.browser
    <3>1. page' = [page EXCEPT !.browsing = Nothing, !.browser = browser]
      BY <2>6 DEF AccountsRead, OwnForm
    <3>2. /\ {"open", "of", "files", "chosen"} \subseteq DOMAIN browser
          /\ browser.of = browser.files /\ browser.chosen \in {Nothing, browser.files}
      BY DEF Browsed, OwnForm
    <3> HIDE DEF browser
    <3> QED BY <3>1, <3>2 DEF OwnForm
  <2>7. CASE ImportStarted(c)
    <3>1. CASE page' = StartFailed
      BY <3>1, <1>3 DEF StartFailed, FormAlike, OwnForm
    <3>2. ASSUME NEW list, page' = [Polling(page, list) EXCEPT !.browser.open = FALSE, !.starting = FALSE]
          PROVE  OwnForm(page')
      <4> DEFINE q == Polling(page, list)
      <4>1. OwnForm(q) /\ page' = [q EXCEPT !.browser.open = FALSE, !.starting = FALSE]
        BY <1>1, <3>2
      <4> HIDE DEF q
      <4> QED BY <4>1 DEF OwnForm
    <3> QED BY <2>7, <3>1, <3>2 DEF ImportStarted
  <2> QED BY <1>4, <2>1, <2>3, <2>4, <2>5, <2>6, <2>7 DEF ImportAnswered
<1>5. CASE ImportStep
  BY <1>2, <1>4, <1>5 DEF ImportStep, ServeConnections
<1>6. ASSUME NEW p, OpenForm(p) PROVE OwnForm(page')
  BY <1>6 DEF OpenForm, OpenConnection, OwnForm
<1>7. ASSUME NEW p, DeleteConnection(p) \/ BrowseAccounts(p) PROVE OwnForm(page')
  BY <1>3, <1>7 DEF DeleteConnection, BrowseAccounts, FormAlike, OwnForm
<1>8. CASE TypeSecret
  BY <1>8 DEF TypeSecret, OwnForm
<1>9. CASE CloseForm
  BY <1>9 DEF CloseForm, OwnForm
<1>10. CASE SaveConnection \/ StartImport
  BY <1>3, <1>10 DEF SaveConnection, StartImport, FormAlike, OwnForm
<1>11. CASE ChooseAccounts
  BY <1>11 DEF ChooseAccounts, OwnForm
<1>12. CASE CloseBrowser
  BY <1>12 DEF CloseBrowser, OwnForm
<1>13. CASE LeaveImports
  <2>1. CASE page' = [page EXCEPT !.mounted = FALSE, !.timers = {}, !.ref = Nothing]
    BY <2>1, <1>3 DEF FormAlike, OwnForm
  <2> QED BY <1>13, <2>1 DEF LeaveImports
<1>14. CASE ReturnToImports
  <2> DEFINE q == [page EXCEPT !.mounted = TRUE, !.loading = TRUE]
  <2>1. page' = Polling(q, page.list)
    BY <1>14 DEF ReturnToImports
  <2>2. FormAlike(page, q)
    BY DEF FormAlike, OwnForm
  <2> HIDE DEF q
  <2> QED BY <2>1, <2>2, AlikeOwnForm, PollingAlike
<1>15. CASE PollTick \/ SiteRestarts \/ (\E r : RunnerDies(r)) \/ (\E c : ImportFails(c))
  BY <1>2, <1>15 DEF PollTick, SiteRestarts, RunnerDies, ImportFails, Fails
<1> QED
  BY <1>5, <1>6, <1>7, <1>8, <1>9, <1>10, <1>11, <1>12, <1>13, <1>14, <1>15 DEF ImportNext, ImportConnections

\* So does what is sent from them, served or lost.
LEMMA OwnCallsKeep ==
    ASSUME OwnInv(page, site, calls), ImportNext
    PROVE  \A c \in calls' : OwnCall(c)
<1> USE DEF OwnInv
<1>1. CASE calls' \subseteq calls
  BY <1>1
<1>2. ASSUME NEW c \in calls, NEW got PROVE OwnCall([c EXCEPT !.got = got])
  BY <1>2, GotKeeps DEF OwnCall
<1>3. ASSUME NEW c \in calls, ServeConnections(c) PROVE \A d \in calls' : OwnCall(d)
  BY <1>2, <1>3 DEF ServeConnections, Served
<1>4. ASSUME NEW c \in calls, Fails(c) PROVE \A d \in calls' : OwnCall(d)
  BY <1>2, <1>4 DEF Fails, Served
<1>5. ASSUME NEW c, ImportAnswered(c) PROVE calls' \subseteq calls
  BY <1>5 DEF ImportAnswered, PollAnswered, ConnectionsLoaded, ConnectionSaved, ConnectionDeleted, AccountsRead,
     ImportStarted
<1>6. ASSUME NEW op, NEW arg, op \notin {"save", "import"} PROVE OwnCall(Asks(op, arg))
  BY <1>6 DEF OwnCall, IsCall, Asks
<1>7. \A by : OwnCall(ListCall("connections", by)) /\ OwnCall(ListCall("poll", by))
  BY DEF OwnCall, IsCall, ListCall
<1>8. CASE SaveConnection
  <2> DEFINE d == Asks("save", [to |-> page.form.of, secret |-> page.form.secret])
  <2>1. OwnCall(d)
    BY <1>8 DEF SaveConnection, Filling, OwnForm, OwnCall, IsCall, Asks
  <2> QED BY <2>1, <1>8 DEF SaveConnection
<1>9. CASE StartImport
  <2> DEFINE d == Asks("import", [to |-> page.browser.of, names |-> page.browser.chosen,
                                  list |-> IF page.kind = "cpa" THEN page.list ELSE Nothing])
  <2>1. OwnCall(d)
    BY <1>9 DEF StartImport, OwnForm, OwnCall, IsCall, Asks
  <2> QED BY <2>1, <1>9 DEF StartImport
<1>10. ASSUME NEW p, OpenForm(p) \/ DeleteConnection(p) \/ BrowseAccounts(p) PROVE \A d \in calls' : OwnCall(d)
  BY <1>6, <1>10 DEF OpenForm, DeleteConnection, BrowseAccounts
<1>11. CASE TypeSecret \/ CloseForm \/ ChooseAccounts \/ CloseBrowser \/ SiteRestarts \/ \E r : RunnerDies(r)
  BY <1>11 DEF TypeSecret, CloseForm, ChooseAccounts, CloseBrowser, SiteRestarts, RunnerDies
<1>12. CASE PollTick \/ ReturnToImports
  BY <1>7, <1>12 DEF PollTick, ReturnToImports
<1>13. CASE LeaveImports
  BY <1>1, <1>13 DEF LeaveImports
<1>14. CASE ImportStep
  BY <1>1, <1>3, <1>5, <1>14 DEF ImportStep
<1>15. ASSUME NEW c \in calls, ImportFails(c) PROVE \A d \in calls' : OwnCall(d)
  BY <1>4, <1>15 DEF ImportFails
<1> QED
  BY <1>8, <1>9, <1>10, <1>11, <1>12, <1>13, <1>14, <1>15 DEF ImportNext, ImportConnections

\* A job that is written back, with runners that import their own, leaves secrets and accounts where
\* they belong.
LEMMA SetJobOwns ==
    ASSUME OwnSite(site), NEW p, NEW job, NEW runners,
           \A r \in runners : {"to", "names", "stage", "read"} \subseteq DOMAIN r /\ r.to = r.names,
           NEW s, s = [SetJob(p, job) EXCEPT !.runners = runners]
    PROVE  OwnSite(s)
<1> DEFINE set == SetJob(p, job)
<1>1. /\ DOMAIN set = DOMAIN site /\ DOMAIN set.pools = DOMAIN site.pools
      /\ \A q \in DOMAIN site.pools : {"secret", "job"} \subseteq DOMAIN set.pools[q] /\ set.pools[q].secret = q
  <2>1. CASE Known(p)
    BY <2>1 DEF SetJob, OwnSite, Known
  <2>2. CASE ~Known(p)
    BY <2>2 DEF SetJob, OwnSite, Known
  <2> QED BY <2>1, <2>2
<1> HIDE DEF set
<1>2. DOMAIN s = DOMAIN site /\ s.pools = set.pools /\ s.runners = runners
  BY <1>1 DEF OwnSite, set
<1> QED
  BY <1>1, <1>2 DEF OwnSite

\* Whatever is saved, removed, imported or read again at a restart stays where it belongs.
LEMMA OwnSiteKeeps ==
    ASSUME OwnInv(page, site, calls), ImportNext
    PROVE  OwnSite(site')
<1> USE DEF OwnInv
<1> DEFINE OwnRunner(r) == {"to", "names", "stage", "read"} \subseteq DOMAIN r /\ r.to = r.names
<1>1. CASE site' = site
  BY <1>1
<1>r. \A r \in site.runners : OwnRunner(r)
  BY DEF OwnSite
<1>2. ASSUME NEW c \in calls, ServeConnections(c) PROVE OwnSite(site')
  <2>1. CASE c.op = "save" /\ site' = Saved(c.arg)
    <3>1. CASE c.arg.to = NewConnection
      <4>1. /\ site'.runners = site.runners /\ DOMAIN site' = DOMAIN site
            /\ DOMAIN site'.pools = DOMAIN site.pools \cup {site.next}
            /\ \A p \in DOMAIN site.pools : site'.pools[p] = site.pools[p]
            /\ ~Known(site.next) => /\ {"secret", "job"} \subseteq DOMAIN site'.pools[site.next]
                                    /\ site'.pools[site.next].secret = site.next
        BY <2>1, <3>1 DEF Saved, Known, OwnSite, OwnCall
      <4> QED BY <4>1 DEF Known, OwnSite
    <3>2. CASE c.arg.to # NewConnection
      <4>1. /\ site'.runners = site.runners /\ DOMAIN site' = DOMAIN site
            /\ DOMAIN site'.pools = DOMAIN site.pools
            /\ \A p \in DOMAIN site.pools : p # c.arg.to => site'.pools[p] = site.pools[p]
            /\ Known(c.arg.to) =>
                 /\ {"secret", "job"} \subseteq DOMAIN site'.pools[c.arg.to]
                 /\ site'.pools[c.arg.to].secret = IF c.arg.secret = Nothing THEN site.pools[c.arg.to].secret ELSE c.arg.secret
        BY <2>1, <3>2 DEF Saved, Known, Normalized, OwnSite
      <4>2. c.arg.secret \in {Nothing, c.arg.to}
        BY <2>1 DEF OwnCall
      <4> QED BY <4>1, <4>2 DEF Known, OwnSite
    <3> QED BY <3>1, <3>2
  <2>2. CASE site' = Removed(c.arg)
    BY <2>2 DEF Removed, OwnSite
  <2>3. CASE c.op = "import" /\ site' = Started(c)
    <3> DEFINE r == RunnerOf(c.arg.to, c.arg.names, c.by)
               runners == site.runners \cup {r}
    <3>1. OwnRunner(r)
      BY <2>3 DEF RunnerOf, OwnCall
    <3>2. SetJob(c.arg.to, "unfinished").runners = site.runners
      BY DEF SetJob, OwnSite
    <3>3. site' = [SetJob(c.arg.to, "unfinished") EXCEPT !.runners = runners]
      BY <2>3, <3>2 DEF Started
    <3> HIDE DEF r
    <3>4. \A x \in runners : OwnRunner(x)
      BY <3>1, <1>r
    <3> HIDE DEF runners
    <3> QED BY <3>3, <3>4, SetJobOwns
  <2> QED BY <1>1, <1>2, <2>1, <2>2, <2>3 DEF ServeConnections
<1>3. ASSUME NEW r \in site.runners, RunnerBegins(r) \/ RunnerReads(r) \/ RunnerWrites(r) \/ RunnerEnds(r)
      PROVE  OwnSite(site')
  <2>1. \A status : SetJob(r.to, status).runners = site.runners
    BY DEF SetJob, OwnSite
  <2>2. ASSUME NEW status, NEW more, \A x \in more : OwnRunner(x), site' = Tells(r, status, more)
        PROVE  OwnSite(site')
    <3> DEFINE runners == (site.runners \ {r}) \cup more
    <3>1. site' = [SetJob(r.to, status) EXCEPT !.runners = runners]
      BY <2>1, <2>2 DEF Tells
    <3>2. \A x \in runners : OwnRunner(x)
      BY <2>2, <1>r
    <3> HIDE DEF runners
    <3> QED BY <3>1, <3>2, SetJobOwns
  <2>3. OwnRunner(r)
    BY <1>r
  <2>4. \A stage, read : OwnRunner([r EXCEPT !.stage = stage]) /\ OwnRunner([r EXCEPT !.read = read])
    BY <2>3
  <2>5. CASE RunnerReads(r)
    <3> DEFINE q == [r EXCEPT !.read = site.pools[r.to].job]
    <3>1. OwnRunner(q)
      BY <2>4
    <3>2. site' = [site EXCEPT !.runners = (site.runners \ {r}) \cup {q}]
      BY <2>5 DEF RunnerReads, Runner, OwnSite
    <3> HIDE DEF q
    <3>3. site'.runners = (site.runners \ {r}) \cup {q} /\ site'.pools = site.pools /\ DOMAIN site' = DOMAIN site
      BY <3>2 DEF OwnSite
    <3> QED BY <3>1, <3>3 DEF OwnSite
  <2>6. CASE RunnerBegins(r)
    BY <2>2, <2>4, <2>6 DEF RunnerBegins
  <2>7. CASE RunnerWrites(r)
    BY <2>2, <2>4, <2>7 DEF RunnerWrites
  <2>8. CASE RunnerEnds(r)
    BY <2>2, <2>8 DEF RunnerEnds
  <2> QED BY <1>3, <2>5, <2>6, <2>7, <2>8
<1>4. ASSUME NEW r, RunnerDies(r) PROVE OwnSite(site')
  BY <1>4 DEF RunnerDies, OwnSite
<1>5. CASE SiteRestarts
  <2>1. site' = Restarted
    BY <1>5 DEF SiteRestarts
  <2>2. /\ DOMAIN site' = DOMAIN site /\ site'.runners = {} /\ DOMAIN site'.pools = DOMAIN site.pools
        /\ \A p \in DOMAIN site.pools : {"secret", "job"} \subseteq DOMAIN site'.pools[p] /\ site'.pools[p].secret = p
    BY <2>1 DEF Restarted, Normalized, OwnSite
  <2> QED BY <2>2 DEF OwnSite
<1>6. ASSUME NEW c, ImportAnswered(c) PROVE site' = site
  BY <1>6 DEF ImportAnswered, PollAnswered, ConnectionsLoaded, ConnectionSaved, ConnectionDeleted, AccountsRead,
     ImportStarted
<1>7. ASSUME NEW p, OpenForm(p) \/ DeleteConnection(p) \/ BrowseAccounts(p) PROVE site' = site
  BY <1>7 DEF OpenForm, DeleteConnection, BrowseAccounts
<1>8. CASE TypeSecret \/ CloseForm \/ SaveConnection \/ PollTick
  BY <1>1, <1>8 DEF TypeSecret, CloseForm, SaveConnection, PollTick
<1>9. CASE ChooseAccounts \/ CloseBrowser \/ StartImport \/ LeaveImports \/ ReturnToImports
  BY <1>1, <1>9 DEF ChooseAccounts, CloseBrowser, StartImport, LeaveImports, ReturnToImports
<1>10. ASSUME NEW c, ImportFails(c) PROVE site' = site
  BY <1>10 DEF ImportFails, Fails
<1> QED
  BY <1>1, <1>2, <1>3, <1>4, <1>5, <1>6, <1>7, <1>8, <1>9, <1>10 DEF ImportNext, ImportStep, ImportConnections

\* The page opens with connections that have their own.
LEMMA OwnStarts == ASSUME ImportInit PROVE OwnInv(page, site, calls)
<1>1. OwnForm(page)
  BY DEF ImportInit, EmptyImports, ClosedForm, NoBrowser, OwnForm
<1>2. OwnSite(site)
  <2> DEFINE pools == [p \in 1 .. 2 |-> [secret |-> p, job |-> IF p = 1 THEN "unfinished" ELSE "finished"]]
  <2>1. /\ {"pools", "runners", "next"} \subseteq DOMAIN site
        /\ site.pools = pools /\ site.runners = {RunnerOf(1, 1, 0)}
    BY DEF ImportInit
  <2>2. \A r \in {RunnerOf(1, 1, 0)} : {"to", "names", "stage", "read"} \subseteq DOMAIN r /\ r.to = r.names
    BY DEF RunnerOf
  <2>3. \A p \in DOMAIN pools : {"secret", "job"} \subseteq DOMAIN pools[p] /\ pools[p].secret = p
    OBVIOUS
  <2> HIDE DEF pools
  <2> QED BY <2>1, <2>2, <2>3 DEF OwnSite
<1>3. \A c \in calls : OwnCall(c)
  BY DEF ImportInit, ListCall, OwnCall, IsCall
<1> QED
  BY <1>1, <1>2, <1>3 DEF OwnInv

-----------------------------------------------------------------------------
(* Drafts of the register machine. *)

\* A draft of the register machine is of settings that were loaded.
DraftOK(p, n) == n \in Nat /\ {"dirty", "value"} \subseteq DOMAIN p /\ (p.dirty => p.value # Nothing)

\* A step keeps a draft, or types it.
DraftStays == page.dirty /\ page'.dirty => page'.value = page.value \/ (clicks' = clicks + 1 /\ calls' = calls)

\* However polls and requests are answered, a draft stays until it is saved, loaded over on purpose or
\* typed again.
LEMMA DraftKeeps ==
    ASSUME DraftOK(page, clicks), At("machine"), SettingsNext
    PROVE  DraftOK(page', clicks') /\ DraftStays
<1>1. ~Forms /\ ~Card
  BY DEF Forms, Card, At
<1>n. clicks' \in {clicks, clicks + 1} => clicks' \in Nat
  BY DEF DraftOK
<1>k. ASSUME clicks' \in {clicks, clicks + 1}, DOMAIN page' = DOMAIN page,
             page'.dirty => page.dirty /\ page'.value = page.value
      PROVE  DraftOK(page', clicks') /\ DraftStays
  BY <1>n, <1>k DEF DraftOK, DraftStays
<1>2. CASE page' = page /\ clicks' \in {clicks, clicks + 1}
  BY <1>k, <1>2
<1>3. ASSUME NEW c, RegisterLoaded(c) PROVE DraftOK(page', clicks') /\ DraftStays
  <2> DEFINE silent == c.arg = "silent"
             merged == MergeRegisterConfig(c.got, silent /\ page.dirty)
             shown == IF c.got.ok THEN merged ELSE page
  <2>1. DOMAIN merged = DOMAIN page /\ merged.dirty = page.dirty /\ (silent /\ page.dirty => merged.value = page.value)
    <3>1. PICK value, enabled : /\ merged = [page EXCEPT !.value = value, !.enabled = enabled]
                                /\ silent /\ page.dirty => value = page.value
      BY DEF MergeRegisterConfig, DraftOK
    <3> HIDE DEF merged
    <3> QED BY <3>1 DEF DraftOK
  <2> HIDE DEF merged
  <2>2. clicks' = clicks /\ page' = IF silent THEN shown ELSE [shown EXCEPT !.dirty = @ /\ ~c.got.ok, !.loading = FALSE]
    BY <1>3 DEF RegisterLoaded, merged
  <2>3. CASE silent
    BY <1>k, <2>1, <2>2, <2>3
  <2>4. CASE ~silent /\ c.got.ok
    <3>1. page' = [merged EXCEPT !.dirty = FALSE, !.loading = FALSE]
      BY <2>2, <2>4
    <3>2. DOMAIN page' = DOMAIN page /\ ~page'.dirty
      BY <2>1, <3>1 DEF DraftOK
    <3> QED BY <1>k, <2>2, <3>2
  <2>5. CASE ~silent /\ ~c.got.ok
    <3>1. page' = [page EXCEPT !.dirty = @ /\ TRUE, !.loading = FALSE]
      BY <2>2, <2>5
    <3>2. DOMAIN page' = DOMAIN page /\ (page'.dirty => page.dirty) /\ page'.value = page.value
      BY <3>1 DEF DraftOK
    <3> QED BY <1>k, <2>2, <3>2
  <2> QED BY <2>3, <2>4, <2>5
<1>4. ASSUME NEW c, RegisterAsked(c) PROVE DraftOK(page', clicks') /\ DraftStays
  <2>1. clicks' = clicks
    BY <1>4 DEF RegisterAsked
  <2>2. CASE c.got.ok
    <3> DEFINE shown == [page EXCEPT !.value = c.got.value, !.enabled = c.got.enabled, !.dirty = FALSE]
    <3>1. page' = [shown EXCEPT !.saving = FALSE]
      BY <1>4, <2>2 DEF RegisterAsked
    <3>2. DOMAIN shown = DOMAIN page /\ ~shown.dirty
      BY DEF DraftOK
    <3> HIDE DEF shown
    <3>3. DOMAIN page' = DOMAIN page /\ ~page'.dirty
      BY <3>1, <3>2 DEF DraftOK
    <3> QED BY <1>k, <2>1, <3>3
  <2>3. CASE ~c.got.ok
    <3>1. page' = [page EXCEPT !.saving = FALSE]
      BY <1>4, <2>3 DEF RegisterAsked
    <3>2. DOMAIN page' = DOMAIN page /\ page'.dirty = page.dirty /\ page'.value = page.value
      BY <3>1 DEF DraftOK
    <3> QED BY <1>k, <2>1, <3>2
  <2> QED BY <2>2, <2>3
<1>5. ASSUME NEW c, StartRegister(c) PROVE DraftOK(page', clicks') /\ DraftStays
  <2>1. clicks' = clicks /\ page' \in {page, [page EXCEPT !.saving = FALSE]}
    BY <1>5 DEF StartRegister, NotStarted
  <2>2. DOMAIN page' = DOMAIN page /\ page'.dirty = page.dirty /\ page'.value = page.value
    BY <2>1 DEF DraftOK
  <2> QED BY <1>k, <2>1, <2>2
<1>6. ASSUME NEW c, ServeMachine(c) \/ SettingsFails(c) PROVE DraftOK(page', clicks') /\ DraftStays
  <2>1. page' = page /\ clicks' \in {clicks, clicks + 1}
    BY <1>6 DEF ServeMachine, SettingsFails, Fails, Event
  <2> QED BY <1>2, <2>1
<1>7. CASE EditRegister
  <2>1. page' = [page EXCEPT !.value = clicks', !.dirty = TRUE] /\ clicks' = clicks + 1 /\ calls' = calls
    BY <1>7 DEF EditRegister, Event
  <2>2. clicks' \in Nat /\ clicks' # Nothing
    BY <2>1, <1>n, PageAssumption
  <2> QED BY <2>1, <2>2 DEF DraftOK, DraftStays
<1>8. CASE SaveRegister \/ ResetRegister \/ ToggleRegister
  <2>1. PICK op : AskMachine(op)
    BY <1>8 DEF SaveRegister, ResetRegister, ToggleRegister
  <2>2. clicks' = clicks + 1 /\ page' = [page EXCEPT !.saving = TRUE]
    BY <2>1 DEF AskMachine, Event
  <2>3. DOMAIN page' = DOMAIN page /\ page'.dirty = page.dirty /\ page'.value = page.value
    BY <2>2 DEF DraftOK
  <2> QED BY <1>k, <2>2, <2>3
<1>9. CASE LeaveMachine \/ ReturnToMachine
  <2>1. clicks' \in {clicks, clicks + 1}
    BY <1>9 DEF LeaveMachine, ReturnToMachine, Event
  <2>2. DOMAIN page' = DOMAIN page /\ page'.dirty = page.dirty /\ page'.value = page.value
    BY <1>9 DEF LeaveMachine, ReturnToMachine, DraftOK
  <2> QED BY <1>k, <2>1, <2>2
<1>10. CASE RegisterPoll \/ MachineRestarts \/ AnotherSwitches
  BY <1>2, <1>10 DEF RegisterPoll, MachineRestarts, AnotherSwitches, Event
<1>11. CASE RunnerAsks \/ RunnerSubmits \/ RunnerWaits \/ RunnerLeaves \/ RunnerGone \/ RunnerFails
  BY <1>2, <1>11 DEF RunnerAsks, RunnerSubmits, RunnerWaits, RunnerLeaves, RunnerGone, RunnerFails, RunnerAt
<1>12. \A c : /\ ~(FormLoaded(c) \/ FormSaved(c) \/ ProxyTested(c) \/ ServeForm(c))
              /\ ~(StatusLoaded(c) \/ UpdateAnswered(c) \/ RollbackAnswered(c) \/ RestartAnswered(c) \/ ServeCard(c) \/ CardFails(c))
  BY <1>1 DEF FormLoaded, FormSaved, ProxyTested, ServeForm, StatusLoaded, UpdateAnswered, RollbackAnswered,
     RestartAnswered, ServeCard, CardFails
<1>13. ~(EditForm \/ SaveForm \/ TestProxy \/ LeaveForms \/ ReturnToForms \/ AnotherSaves \/ RefreshStatus \/ HandleUpdate
         \/ HandleRollback \/ HandleRestart)
  BY <1>1 DEF EditForm, SaveForm, TestProxy, LeaveForms, ReturnToForms, AnotherSaves, FormShown, RefreshStatus,
     HandleUpdate,
     HandleRollback, HandleRestart, CardShown
<1>14. CASE SettingsStep
  BY <1>3, <1>4, <1>5, <1>6, <1>11, <1>12, <1>14 DEF SettingsStep
<1> QED
  BY <1>6, <1>7, <1>8, <1>9, <1>10, <1>12, <1>13, <1>14 DEF SettingsNext

\* The page opens without a draft.
LEMMA DraftStarts == ASSUME SettingsInit, At("machine") PROVE DraftOK(page, clicks)
<1>1. MachineInit
  BY DEF SettingsInit, FormsInit, EmptyForm, CardInit, EmptyCard, At
<1> QED
  BY <1>1 DEF MachineInit, EmptyMachine, DraftOK

-----------------------------------------------------------------------------
(* Secrets of the settings. *)

\* A secret is named after the event that typed it, so it is no later than now, or none was typed.
Secrets(n) == {v \in Int : v <= n} \cup {Nothing}

\* The page never holds a secret that it was told is stored, and what is stored is a secret.
FormPage(p, s, n) ==
    /\ {"secret", "saving"} \subseteq DOMAIN p /\ p.secret \in Secrets(n) \ (s.known \ {Nothing})
    /\ {"secret", "known"} \subseteq DOMAIN s /\ s.secret # Nothing /\ s.known \subseteq Secrets(n)

\* The form is saved by one request at a time, with a secret that is not known to be stored.
FormCalls(p, s, cs, n) ==
    /\ \A c \in cs : IsCall(c)
    /\ \A c \in cs : c.op = "saveForm" => p.saving /\ c.arg.secret \in Secrets(n) \ (s.known \ {Nothing})
    /\ \A c, d \in cs : c.op = "saveForm" /\ d.op = "saveForm" => c = d

\* The invariant of the two forms.
FormOK(p, s, cs, n) == n \in Nat /\ FormPage(p, s, n) /\ FormCalls(p, s, cs, n)

\* A secret stays one as events go on.
LEMMA LaterSecrets ==
    ASSUME NEW n \in Nat, NEW m \in Nat, n <= m
    PROVE  Secrets(n) \subseteq Secrets(m)
BY DEF Secrets

\* What the site does with the request of a form, or its failure, keeps the invariant.
LEMMA FormServes ==
    ASSUME FormOK(page, site, calls, clicks), NEW c \in calls, ServeForm(c) \/ SettingsFails(c)
    PROVE  FormOK(page', site', calls', clicks')
<1> USE DEF FormOK
<1>1. PICK answer : calls' = (calls \ {c}) \cup {[c EXCEPT !.got = answer]}
  BY DEF ServeForm, SettingsFails, Fails, Served
<1> DEFINE d == [c EXCEPT !.got = answer]
<1>2. IsCall(d) /\ d.op = c.op /\ d.arg = c.arg
  BY GotKeeps DEF FormCalls
<1> HIDE DEF d
<1>3. calls' = (calls \ {c}) \cup {d} /\ page' = page /\ clicks' \in {clicks, clicks + 1}
  BY <1>1 DEF d, ServeForm, SettingsFails, Fails, Event
<1>4. FormCalls(page, site, calls', clicks)
  BY <1>2, <1>3 DEF FormCalls
<1>5. clicks' \in Nat /\ Secrets(clicks) \subseteq Secrets(clicks')
  <2>1. clicks' \in Nat /\ clicks <= clicks'
    BY <1>3
  <2> QED BY <2>1, LaterSecrets
<1>6. "known" \in DOMAIN site' /\ "secret" \in DOMAIN site' /\ site'.known = site.known /\ site'.secret # Nothing
  <2>1. site' = site \/ site' = MergedSettings(c.arg)
    BY DEF ServeForm, SettingsFails, Fails
  <2> QED BY <2>1 DEF MergedSettings, FormPage
<1>7. FormPage(page', site', clicks')
  BY <1>3, <1>5, <1>6 DEF FormPage
<1>8. FormCalls(page', site', calls', clicks')
  BY <1>3, <1>4, <1>5, <1>6 DEF FormCalls
<1> QED
  BY <1>5, <1>7, <1>8

\* So do the answers: the one that says that a secret is stored is the only one under way, and takes it
\* from the page.
LEMMA FormAnswered ==
    ASSUME FormOK(page, site, calls, clicks), NEW c \in calls, FormLoaded(c) \/ FormSaved(c) \/ ProxyTested(c)
    PROVE  FormOK(page', site', calls', clicks')
<1> USE DEF FormOK
<1>1. calls' = calls \ {c} /\ clicks' = clicks
  BY DEF FormLoaded, FormSaved, ProxyTested
<1>2. {"secret", "saving"} \subseteq DOMAIN page' /\ page'.secret \in {page.secret, Nothing}
  BY DEF FormLoaded, FormSaved, ProxyTested, Fills, FormPage
<1>n. Nothing \in Secrets(clicks) /\ Nothing \notin site.known \ {Nothing}
  BY DEF Secrets
<1>3. CASE c.op # "saveForm"
  <2>1. site' = site /\ (page'.saving = page.saving)
    BY <1>3 DEF FormLoaded, FormSaved, ProxyTested, Fills, FormPage, Answered
  <2>2. FormPage(page', site', clicks)
    BY <1>2, <1>n, <2>1 DEF FormPage
  <2>3. FormCalls(page', site', calls', clicks)
    BY <1>1, <2>1 DEF FormCalls
  <2> QED BY <1>1, <2>2, <2>3
<1>4. CASE c.op = "saveForm"
  <2>1. FormSaved(c)
    BY <1>4 DEF FormLoaded, ProxyTested, Answered
  <2>2. \A d \in calls' : IsCall(d) /\ d.op # "saveForm"
    BY <1>1, <1>4 DEF FormCalls
  <2>3. FormPage(page', site', clicks)
    <3>1. CASE c.got.ok
      <4>1. page'.secret = Nothing
        BY <2>1, <3>1 DEF FormSaved, Fills, FormPage
      <4>2. /\ {"secret", "known"} \subseteq DOMAIN site' /\ site'.secret = site.secret
            /\ site'.known = site.known \cup {c.arg.secret}
        BY <2>1, <3>1 DEF FormSaved, FormPage
      <4>3. c.arg.secret \in Secrets(clicks)
        BY <1>4 DEF FormCalls
      <4> QED BY <1>2, <1>n, <4>1, <4>2, <4>3 DEF FormPage
    <3>2. CASE ~c.got.ok
      <4>1. site' = site
        BY <2>1, <3>2 DEF FormSaved
      <4> QED BY <1>2, <1>n, <4>1 DEF FormPage
    <3> QED BY <3>1, <3>2
  <2> QED BY <1>1, <2>2, <2>3 DEF FormCalls
<1> QED
  BY <1>3, <1>4

\* So do typing, saving, leaving, coming back and what another administrator saves.
LEMMA FormMoves ==
    ASSUME FormOK(page, site, calls, clicks),
           EditForm \/ SaveForm \/ TestProxy \/ LeaveForms \/ ReturnToForms \/ AnotherSaves
    PROVE  FormOK(page', site', calls', clicks') \/ page' = Left
<1> USE DEF FormOK
<1>1. clicks' \in {clicks, clicks + 1}
  BY DEF EditForm, SaveForm, TestProxy, LeaveForms, ReturnToForms, AnotherSaves, Event
<1>2. clicks' \in Nat /\ clicks <= clicks'
  BY <1>1
<1>3. Secrets(clicks) \subseteq Secrets(clicks')
  BY <1>2, LaterSecrets
<1>n. Nothing \in Secrets(clicks') /\ Nothing \notin site.known \ {Nothing}
  BY DEF Secrets
<1>4. CASE EditForm
  <2>1. clicks' = clicks + 1 /\ site' = site /\ calls' = calls
    BY <1>4 DEF EditForm, Event
  <2>2. clicks' \notin site.known /\ clicks' \in Secrets(clicks')
    BY <1>2, <2>1, PageAssumption DEF FormPage, Secrets
  <2>3. {"secret", "saving"} \subseteq DOMAIN page' /\ page'.secret \in {page.secret, clicks'} /\ page'.saving = page.saving
    BY <1>4 DEF EditForm, FormPage
  <2>4. FormPage(page', site', clicks')
    BY <1>3, <2>1, <2>2, <2>3 DEF FormPage
  <2>5. FormCalls(page', site', calls', clicks')
    BY <1>3, <2>1, <2>3 DEF FormCalls
  <2> QED BY <1>2, <2>4, <2>5
<1>5. CASE SaveForm
  <2> DEFINE d == Asks("saveForm", [value |-> page.value, secret |-> page.secret])
  <2>1. IsCall(d) /\ d.arg.secret = page.secret
    BY DEF IsCall, Asks
  <2>2. calls' = calls \cup {d} /\ site' = site /\ ~page.saving /\ page' = [page EXCEPT !.saving = TRUE]
    BY <1>5 DEF SaveForm
  <2> HIDE DEF d
  <2>3. \A x \in calls : x.op # "saveForm"
    BY <2>2 DEF FormCalls
  <2>4. {"secret", "saving"} \subseteq DOMAIN page' /\ page'.secret = page.secret /\ page'.saving
    BY <2>2 DEF FormPage
  <2>5. FormPage(page', site', clicks')
    BY <1>3, <2>2, <2>4 DEF FormPage
  <2>6. FormCalls(page', site', calls', clicks')
    BY <1>3, <2>1, <2>2, <2>3, <2>4 DEF FormCalls, FormPage
  <2> QED BY <1>2, <2>5, <2>6
<1>6. CASE AnotherSaves
  <2>1. PICK secret \in {Nothing, clicks'} : site' = MergedSettings([value |-> clicks', secret |-> secret])
    BY <1>6 DEF AnotherSaves
  <2>2. "known" \in DOMAIN site' /\ "secret" \in DOMAIN site' /\ site'.known = site.known /\ site'.secret # Nothing
    BY <1>2, <2>1, PageAssumption DEF MergedSettings, FormPage
  <2>3. page' = page /\ calls' = calls
    BY <1>6 DEF AnotherSaves
  <2>4. FormPage(page', site', clicks')
    BY <1>3, <2>2, <2>3 DEF FormPage
  <2>5. FormCalls(page', site', calls', clicks')
    BY <1>3, <2>2, <2>3 DEF FormCalls
  <2> QED BY <1>2, <2>4, <2>5
<1>7. CASE TestProxy \/ ReturnToForms
  <2>1. PICK d : IsCall(d) /\ d.op # "saveForm" /\ calls' = calls \cup {d}
    BY <1>7 DEF TestProxy, ReturnToForms, Asks, Load, IsCall
  <2>2. site' = site /\ {"secret", "saving"} \subseteq DOMAIN page' /\ page'.secret = page.secret /\ page'.saving = page.saving
    BY <1>7 DEF TestProxy, ReturnToForms, FormPage
  <2>3. FormPage(page', site', clicks')
    BY <1>3, <2>2 DEF FormPage
  <2>4. FormCalls(page', site', calls', clicks')
    BY <1>3, <2>1, <2>2 DEF FormCalls
  <2> QED BY <1>2, <2>3, <2>4
<1>8. CASE LeaveForms /\ page' # Left
  <2>1. site' = site /\ {"secret", "saving"} \subseteq DOMAIN page' /\ page'.secret = page.secret /\ page'.saving = page.saving
    BY <1>8 DEF LeaveForms, FormPage
  <2>2. calls' \subseteq calls
    BY <1>8 DEF LeaveForms
  <2>3. FormPage(page', site', clicks')
    BY <1>3, <2>1 DEF FormPage
  <2>4. FormCalls(page', site', calls', clicks')
    BY <1>3, <2>1, <2>2 DEF FormCalls
  <2> QED BY <1>2, <2>3, <2>4
<1> QED
  BY <1>4, <1>5, <1>6, <1>7, <1>8

\* Every step of the settings keeps it until the page is left.
LEMMA FormKeeps ==
    ASSUME FormOK(page, site, calls, clicks), At("forms"), SettingsNext
    PROVE  FormOK(page', site', calls', clicks') \/ page' = Left
<1>1. ~Machine /\ ~Card
  BY DEF Machine, Card, At
<1>2. CASE EditForm \/ SaveForm \/ TestProxy \/ LeaveForms \/ ReturnToForms \/ AnotherSaves
  BY <1>2, FormMoves
<1>3. ASSUME NEW c \in calls, ServeForm(c) \/ SettingsFails(c)
      PROVE  FormOK(page', site', calls', clicks')
  BY <1>3, FormServes
<1>4. ASSUME NEW c \in calls, FormLoaded(c) \/ FormSaved(c) \/ ProxyTested(c)
      PROVE  FormOK(page', site', calls', clicks')
  BY <1>4, FormAnswered
<1>5. ~(RunnerAsks \/ RunnerSubmits \/ RunnerWaits \/ RunnerLeaves \/ RunnerGone \/ RunnerFails)
  BY <1>1 DEF RunnerAsks, RunnerSubmits, RunnerWaits, RunnerLeaves, RunnerGone, RunnerFails, RunnerAt
<1>6. \A c : ~(RegisterLoaded(c) \/ StartRegister(c) \/ RegisterAsked(c) \/ ServeMachine(c))
  BY <1>1 DEF RegisterLoaded, StartRegister, RegisterAsked, ServeMachine
<1>7. \A c : ~(StatusLoaded(c) \/ UpdateAnswered(c) \/ RollbackAnswered(c) \/ RestartAnswered(c) \/ ServeCard(c) \/ CardFails(c))
  BY <1>1 DEF StatusLoaded, UpdateAnswered, RollbackAnswered, RestartAnswered, ServeCard, CardFails
<1>8. ~(RegisterPoll \/ EditRegister \/ SaveRegister \/ ResetRegister \/ ToggleRegister \/ LeaveMachine \/ ReturnToMachine
        \/ MachineRestarts \/ AnotherSwitches)
  BY <1>1 DEF RegisterPoll, EditRegister, SaveRegister, ResetRegister, ToggleRegister, AskMachine, LeaveMachine,
     ReturnToMachine, MachineRestarts, AnotherSwitches, Stopped, Editable
<1>9. ~(RefreshStatus \/ HandleUpdate \/ HandleRollback \/ HandleRestart)
  BY <1>1 DEF RefreshStatus, HandleUpdate, HandleRollback, HandleRestart, CardShown
<1>10. SettingsStep => \E c \in calls : FormLoaded(c) \/ FormSaved(c) \/ ProxyTested(c) \/ ServeForm(c)
  BY <1>5, <1>6, <1>7 DEF SettingsStep
<1> QED
  BY <1>2, <1>3, <1>4, <1>7, <1>8, <1>9, <1>10 DEF SettingsNext

\* The forms open with it.
LEMMA FormsStart == ASSUME SettingsInit, At("forms") PROVE FormOK(page, site, calls, clicks)
<1>1. FormsInit
  BY DEF SettingsInit, MachineInit, EmptyMachine, CardInit, EmptyCard, At
<1>2. PICK card : page = EmptyForm(card)
  BY <1>1 DEF FormsInit
<1>3. /\ site = [value |-> 0, secret |-> 0, known |-> {}] /\ clicks = 0 /\ calls = {Load("form", Nothing)}
  BY <1>1 DEF FormsInit
<1>4. FormPage(page, site, clicks)
  BY <1>2, <1>3, PageAssumption DEF FormPage, EmptyForm, Secrets
<1>5. FormCalls(page, site, calls, clicks)
  BY <1>3 DEF FormCalls, Load, IsCall
<1> QED
  BY <1>3, <1>4, <1>5 DEF FormOK

-----------------------------------------------------------------------------
(* The account page. *)

\* Every account has the fields that were filled for it.
Fits(items) == \A i \in DOMAIN items : items[i] = AccountRow(i, items[i].problem)

\* Files are asked to be confirmed only when they are there.
Importable(import) == {"open", "way", "files", "confirm"} \subseteq DOMAIN import /\ (import.confirm => import.files)

\* The page shows such accounts, selects among those that it shows, and has the form of its target.
AccountsPage(p) ==
    /\ {"items", "selected", "busy", "target", "form", "import"} \subseteq DOMAIN p
    /\ Fits(p.items) /\ p.selected \subseteq DOMAIN p.items
    /\ p.target # NoAccount => p.form = p.target
    /\ Importable(p.import)

\* The site keeps such accounts.
AccountsSite(s) == {"items", "made"} \subseteq DOMAIN s /\ Fits(s.items)

\* Its answers bring such accounts.
AccountsCall(c) == IsCall(c) /\ (c.got # Nothing /\ c.got.ok => Fits(c.got.items))

\* One update at most is under way, for the account whose dialog is open or for a closed one, with the
\* fields of its account.
UpdateCalls(p, cs) ==
    /\ \A c \in cs : c.op = "update" =>
         "update" \in p.busy /\ p.target \in {NoAccount, c.arg.id} /\ c.arg.fields = c.arg.id
    /\ \A c, d \in cs : c.op = "update" /\ d.op = "update" => c = d

\* The invariant of the account page.
AccountsOK(p, s, cs) ==
    AccountsPage(p) /\ AccountsSite(s) /\ (\A c \in cs : AccountsCall(c)) /\ UpdateCalls(p, cs)

\* Accounts that are left when others go keep their fields.
LEMMA RestrictedFits ==
    ASSUME NEW items, Fits(items), NEW ids, ids \subseteq DOMAIN items
    PROVE  Fits(Restricted(items, ids))
BY DEF Fits, Restricted

\* Whatever a request makes of the accounts, each has its own fields.
LEMMA AfterFits ==
    ASSUME AccountsSite(site), NEW c, c.op = "update" => c.arg.fields = c.arg.id,
           NEW items \in AccountsAfter(c)
    PROVE  Fits(items)
<1> USE DEF AccountsSite
<1>1. CASE c.op = "delete"
  BY <1>1, RestrictedFits DEF AccountsAfter
<1>r. \A i \in DOMAIN site.items : site.items[i].fields = i
  BY DEF Fits, AccountRow
<1>p. \A i, problem : AccountRow(i, problem).problem = problem
  BY DEF AccountRow
<1>2. CASE c.op = "refresh"
  <2>1. PICK refs, gone, problems : items = AccountsFound(refs, gone, problems)
    BY <1>2 DEF AccountsAfter
  <2>2. ASSUME NEW i \in DOMAIN items PROVE items[i] = AccountRow(i, items[i].problem)
    <3>1. CASE i \in refs
      BY <2>1, <1>r, <1>p, <3>1 DEF AccountsFound
    <3>2. CASE i \notin refs
      BY <2>1, <3>2 DEF Fits, AccountsFound
    <3> QED BY <3>1, <3>2
  <2> QED BY <2>2 DEF Fits
<1>3. CASE c.op = "import"
  <2>1. items = site.items \/ \E new : items = AccountsAdded(new)
    BY <1>3 DEF AccountsAfter
  <2>2. ASSUME NEW new PROVE Fits(AccountsAdded(new))
    <3> DEFINE added == AccountsAdded(new)
               row == AccountRow(new, FALSE)
    <3>1. DOMAIN added = DOMAIN site.items \cup {new} /\ added[new] = row
          /\ \A i \in DOMAIN site.items \ {new} : added[i] = site.items[i]
      BY DEF AccountsAdded
    <3>2. row = AccountRow(new, row.problem)
      BY <1>p
    <3> HIDE DEF added, row
    <3>3. \A i \in DOMAIN added : added[i] = AccountRow(i, added[i].problem)
      BY <3>1, <3>2 DEF Fits
    <3> QED BY <3>3 DEF Fits, added
  <2> QED BY <2>1, <2>2
<1>4. CASE c.op = "update"
  <2>1. PICK problem : items = [site.items EXCEPT ![c.arg.id] = AccountRow(c.arg.fields, problem)]
    BY <1>4 DEF AccountsAfter, AccountEdited
  <2> QED BY <1>4, <1>p, <2>1 DEF Fits
<1>5. CASE c.op \notin {"delete", "refresh", "import", "update"}
  BY <1>5 DEF AccountsAfter
<1> QED
  BY <1>1, <1>2, <1>3, <1>4, <1>5

\* An answer with such accounts, or a failure, keeps what holds of the requests.
LEMMA AnswerFits ==
    ASSUME AccountsOK(page, site, calls), NEW c \in calls, NEW answer, Served(c, answer),
           answer # Nothing /\ answer.ok => Fits(answer.items)
    PROVE  (\A d \in calls' : AccountsCall(d)) /\ UpdateCalls(page, calls')
<1> DEFINE d == [c EXCEPT !.got = answer]
<1>1. IsCall(d) /\ d.op = c.op /\ d.arg = c.arg /\ d.got = answer
  BY GotKeeps DEF AccountsOK, AccountsCall
<1>2. calls' = (calls \ {c}) \cup {d}
  BY DEF Served
<1> HIDE DEF d
<1>3. \A x \in calls' : AccountsCall(x)
  BY <1>1, <1>2 DEF AccountsOK, AccountsCall
<1>4. UpdateCalls(page, calls')
  BY <1>1, <1>2 DEF AccountsOK, UpdateCalls
<1> QED
  BY <1>3, <1>4

\* What the site makes of a request, and the failure of one, keep the invariant.
LEMMA AccountsServed ==
    ASSUME AccountsOK(page, site, calls), NEW c \in calls, AccountsServe(c) \/ AccountsFail(c)
    PROVE  AccountsOK(page', site', calls')
<1> USE DEF AccountsOK
<1>1. page' = page
  BY DEF AccountsServe, AccountsFail, Fails
<1>2. ~Failure.ok
  BY DEF Failure
<1>3. c.op = "update" => c.arg.fields = c.arg.id
  BY DEF UpdateCalls
<1>4. CASE Served(c, Failure) /\ AccountsSite(site')
  BY <1>1, <1>2, <1>4, AnswerFits
<1>5. CASE AccountsFail(c)
  BY <1>4, <1>5 DEF AccountsFail, Fails
<1>6. ASSUME NEW items \in AccountsAfter(c), NEW made, site' = [items |-> items, made |-> made],
             Served(c, [ok |-> TRUE, items |-> items])
      PROVE  AccountsOK(page', site', calls')
  <2>1. Fits(items)
    BY <1>3, AfterFits
  <2>2. AccountsSite(site')
    BY <1>6, <2>1 DEF AccountsSite
  <2>3. [ok |-> TRUE, items |-> items].items = items
    OBVIOUS
  <2> QED BY <1>1, <1>6, <2>1, <2>2, <2>3, AnswerFits
<1>7. CASE site' = [site EXCEPT !.items = Restricted(@, DOMAIN @ \ {c.arg.id})] /\ Served(c, Failure)
  <2>1. Fits(Restricted(site.items, DOMAIN site.items \ {c.arg.id}))
    BY RestrictedFits DEF AccountsSite
  <2>2. AccountsSite(site')
    BY <1>7, <2>1 DEF AccountsSite
  <2> QED BY <1>4, <1>7, <2>2
<1>8. CASE AccountsServe(c)
  BY <1>4, <1>6, <1>7, <1>8 DEF AccountsServe
<1> QED
  BY <1>5, <1>8

\* So does the end of a handler, which resets its flag.
LEMMA AccountsEnded ==
    ASSUME AccountsOK(page, site, calls), NEW c \in calls, NEW op, NEW done, AccountsEnd(c, op, done),
           c.got.ok => /\ AccountsPage(done) /\ done.busy = page.busy
                       /\ done.target = IF op = "update" THEN NoAccount ELSE page.target
    PROVE  AccountsOK(page', site', calls')
<1> DEFINE shown == IF c.got.ok THEN done ELSE page
<1>1. c.op = op /\ calls' = calls \ {c} /\ site' = site /\ page' = [shown EXCEPT !.busy = @ \ {op}]
  BY DEF AccountsEnd, Answered
<1>2. /\ AccountsPage(shown) /\ shown.busy = page.busy
      /\ shown.target \in {page.target, NoAccount}
  BY DEF AccountsOK
<1> HIDE DEF shown
<1>3. DOMAIN page' = DOMAIN shown /\ page'.busy = shown.busy \ {op}
      /\ page'.items = shown.items /\ page'.selected = shown.selected /\ page'.target = shown.target
      /\ page'.form = shown.form /\ page'.import = shown.import
  BY <1>1, <1>2 DEF AccountsPage
<1>4. AccountsPage(page')
  BY <1>2, <1>3 DEF AccountsPage
<1>5. UpdateCalls(page', calls')
  <2>1. CASE op = "update"
    BY <1>1, <2>1 DEF AccountsOK, UpdateCalls
  <2>2. CASE op # "update"
    BY <1>1, <1>2, <1>3, <2>2 DEF AccountsOK, UpdateCalls
  <2> QED BY <2>1, <2>2
<1> QED
  BY <1>1, <1>4, <1>5 DEF AccountsOK

\* So does each answer: the one to an update closes the dialog it came from, or none.
LEMMA AccountsAnswered ==
    ASSUME AccountsOK(page, site, calls), NEW c \in calls,
           AccountsLoaded(c) \/ AccountsRefreshed(c) \/ AccountsDeleted(c) \/ AccountUpdated(c) \/ FilesRead(c)
             \/ AccountsImported(c)
    PROVE  AccountsOK(page', site', calls')
<1> DEFINE with == WithAccounts(c.got.items)
<1>1. AccountsPage(page)
  BY DEF AccountsOK
<1>2. c.got # Nothing /\ c.got.ok => /\ Fits(c.got.items) /\ AccountsPage(with) /\ with.busy = page.busy
                                     /\ with.target = page.target
  BY <1>1 DEF AccountsOK, AccountsCall, WithAccounts, AccountsPage
<1>3. CASE AccountsLoaded(c) \/ AccountsRefreshed(c) \/ AccountsDeleted(c)
  <2>1. c.got # Nothing
    BY <1>3 DEF AccountsLoaded, AccountsRefreshed, AccountsDeleted, AccountsEnd, Answered
  <2>2. PICK op : op # "update" /\ AccountsEnd(c, op, with)
    BY <1>3 DEF AccountsLoaded, AccountsRefreshed, AccountsDeleted
  <2> HIDE DEF with
  <2> QED BY <1>2, <2>1, <2>2, AccountsEnded
<1>4. CASE AccountUpdated(c)
  <2> DEFINE done == [with EXCEPT !.target = NoAccount]
  <2>1. c.got # Nothing /\ AccountsEnd(c, "update", done)
    BY <1>4 DEF AccountUpdated, AccountsEnd, Answered
  <2> HIDE DEF with
  <2>2. c.got.ok => AccountsPage(done) /\ done.busy = page.busy /\ done.target = NoAccount
    BY <1>2, <2>1 DEF AccountsPage
  <2> HIDE DEF done
  <2> QED BY <2>1, <2>2, AccountsEnded
<1>5. CASE AccountsImported(c)
  <2> DEFINE done == [page EXCEPT !.items = c.got.items, !.selected = {}, !.import = NoImport]
  <2>1. c.got # Nothing /\ AccountsEnd(c, "import", done)
    BY <1>5 DEF AccountsImported, AccountsEnd, Answered
  <2>2. c.got.ok => AccountsPage(done) /\ done.busy = page.busy /\ done.target = page.target
    BY <1>1, <1>2, <2>1 DEF AccountsPage, NoImport, Importable
  <2> HIDE DEF done
  <2> QED BY <2>1, <2>2, AccountsEnded
<1>6. CASE FilesRead(c)
  <2>1. site' = site /\ calls' \subseteq calls
    BY <1>6 DEF FilesRead
  <2> DEFINE import == [page.import EXCEPT !.files = TRUE, !.confirm = TRUE]
  <2>2. Importable(import)
    BY <1>1 DEF AccountsPage, Importable
  <2>3. page' = page \/ page' = [page EXCEPT !.import = import]
    <3> DEFINE read == [page EXCEPT !.import.files = TRUE, !.import.confirm = TRUE]
    <3>1. page' \in {page, read}
      BY <1>6 DEF FilesRead
    <3>2. read = [page EXCEPT !.import = import]
      BY <1>1 DEF AccountsPage, Importable
    <3> QED BY <3>1, <3>2
  <2> HIDE DEF import
  <2>4. AccountsPage(page') /\ page'.busy = page.busy /\ page'.target = page.target
    BY <1>1, <2>2, <2>3 DEF AccountsPage
  <2>5. UpdateCalls(page', calls')
    BY <2>1, <2>4 DEF AccountsOK, UpdateCalls
  <2> QED BY <2>1, <2>4, <2>5 DEF AccountsOK
<1> QED
  BY <1>3, <1>4, <1>5, <1>6

\* A request that is not made twice keeps it.
LEMMA AccountsAsk ==
    ASSUME AccountsOK(page, site, calls), NEW op, NEW arg, AsksAccounts(op, arg),
           op = "update" => arg.fields = arg.id /\ page.target = arg.id
    PROVE  AccountsOK(page', site', calls')
<1> DEFINE d == Asks(op, arg)
<1>1. IsCall(d) /\ d.op = op /\ d.arg = arg /\ d.got = Nothing
  BY DEF Asks, IsCall
<1>2. calls' = calls \cup {d} /\ site' = site /\ op \notin page.busy /\ page' = [page EXCEPT !.busy = @ \cup {op}]
  BY DEF AsksAccounts
<1> HIDE DEF d
<1>3. AccountsPage(page') /\ page'.busy = page.busy \cup {op} /\ page'.target = page.target
  BY <1>2 DEF AccountsOK, AccountsPage
<1>4. UpdateCalls(page', calls')
  BY <1>1, <1>2, <1>3 DEF AccountsOK, UpdateCalls
<1>5. \A c \in calls' : AccountsCall(c)
  BY <1>1, <1>2 DEF AccountsOK, AccountsCall
<1> QED
  BY <1>2, <1>3, <1>4, <1>5 DEF AccountsOK

\* So does the dialog to import.
LEMMA ImporterKeeps ==
    ASSUME AccountsOK(page, site, calls), NEW import, Importer(import), Importable(import)
    PROVE  AccountsOK(page', site', calls')
<1>1. page' = [page EXCEPT !.import = import] /\ site' = site /\ calls' = calls
  BY DEF Importer
<1>2. AccountsPage(page') /\ page'.busy = page.busy /\ page'.target = page.target
  BY <1>1 DEF AccountsOK, AccountsPage
<1> QED
  BY <1>1, <1>2 DEF AccountsOK, UpdateCalls

\* So does whatever is clicked, and whatever others do to the accounts.
LEMMA AccountsMove ==
    ASSUME AccountsOK(page, site, calls),
           \/ AccountsReload \/ AccountsRefresh \/ AccountsDelete \/ SelectsAccounts
           \/ (\E i \in 1 .. MaxAccounts : OpensAccount(i)) \/ ClosesAccount \/ AccountUpdate
           \/ OpensImport \/ ChoosesWay \/ ClosesImport \/ ReadsFiles \/ AsksToConfirm \/ ImportAccounts
           \/ AccountChanges
    PROVE  AccountsOK(page', site', calls')
<1>p. AccountsPage(page) /\ Importable(page.import) /\ AccountsSite(site)
  BY DEF AccountsOK, AccountsPage
<1>1. CASE AccountsReload \/ AccountsRefresh \/ AccountsDelete \/ ImportAccounts
  <2>1. PICK op, arg : op # "update" /\ AsksAccounts(op, arg)
    BY <1>1 DEF AccountsReload, AccountsRefresh, AccountsDelete, ImportAccounts
  <2> QED BY <2>1, AccountsAsk
<1>2. CASE AccountUpdate
  <2> DEFINE arg == [id |-> page.target, fields |-> page.form]
  <2>1. AsksAccounts("update", arg) /\ arg.fields = arg.id /\ page.target = arg.id
    BY <1>p, <1>2 DEF AccountUpdate, AccountsPage
  <2> HIDE DEF arg
  <2> QED BY <2>1, AccountsAsk
<1>3. CASE SelectsAccounts
  <2>1. PICK selected : selected \subseteq DOMAIN page.items /\ page' = [page EXCEPT !.selected = selected]
    <3>1. ASSUME NEW i \in DOMAIN page.items, page' = [page EXCEPT !.selected = IF i \in @ THEN @ \ {i} ELSE @ \cup {i}]
          PROVE  \E selected : selected \subseteq DOMAIN page.items /\ page' = [page EXCEPT !.selected = selected]
      <4> DEFINE chosen == IF i \in page.selected THEN page.selected \ {i} ELSE page.selected \cup {i}
      <4>1. page' = [page EXCEPT !.selected = chosen]
        BY <3>1
      <4>2. chosen \subseteq DOMAIN page.items
        BY <1>p DEF AccountsPage
      <4> QED BY <4>1, <4>2
    <3>2. ASSUME NEW rows, rows \subseteq DOMAIN page.items,
                 page' = [page EXCEPT !.selected = IF rows \subseteq @ THEN @ \ rows ELSE @ \cup rows]
          PROVE  \E selected : selected \subseteq DOMAIN page.items /\ page' = [page EXCEPT !.selected = selected]
      <4> DEFINE chosen == IF rows \subseteq page.selected THEN page.selected \ rows ELSE page.selected \cup rows
      <4>1. page' = [page EXCEPT !.selected = chosen]
        BY <3>2
      <4>2. chosen \subseteq DOMAIN page.items
        BY <1>p, <3>2 DEF AccountsPage
      <4> QED BY <4>1, <4>2
    <3>3. \A rows \in {DOMAIN page.items, Problems} : rows \subseteq DOMAIN page.items
      BY DEF Problems
    <3> QED BY <1>3, <3>1, <3>2, <3>3 DEF SelectsAccounts
  <2>2. AccountsPage(page') /\ page'.busy = page.busy /\ page'.target = page.target
    BY <1>p, <2>1 DEF AccountsPage
  <2> QED BY <1>3, <2>2 DEF SelectsAccounts, AccountsOK, UpdateCalls
<1>4. ASSUME NEW i, OpensAccount(i) PROVE AccountsOK(page', site', calls')
  <2>1. i \in DOMAIN page.items /\ page.items[i] = AccountRow(i, page.items[i].problem)
    BY <1>p, <1>4 DEF OpensAccount, AccountsPage, Fits
  <2>3. \A problem : AccountRow(i, problem).fields = i
    BY DEF AccountRow
  <2>4. page.items[i].fields = i
    BY <2>1, <2>3
  <2>2. page' = [page EXCEPT !.target = i, !.form = i] /\ site' = site /\ calls' = calls /\ "update" \notin page.busy
    BY <1>4, <2>4 DEF OpensAccount, AccountEditable
  <2>5. AccountsPage(page')
    BY <1>p, <2>2 DEF AccountsPage
  <2> QED BY <2>2, <2>5 DEF AccountsOK, UpdateCalls
<1>5. CASE ClosesAccount
  <2>1. AccountsPage(page') /\ page'.busy = page.busy /\ page'.target = NoAccount
    BY <1>p, <1>5 DEF ClosesAccount, AccountsPage
  <2> QED BY <1>5, <2>1 DEF ClosesAccount, AccountsOK, UpdateCalls
<1>6. CASE OpensImport \/ ChoosesWay \/ ClosesImport \/ AsksToConfirm
  <2>1. Importable(NoImport)
    BY DEF NoImport, Importable
  <2>2. \A way : /\ Importable([page.import EXCEPT !.way = way])
                 /\ Importable([page.import EXCEPT !.open = way])
                 /\ Importable([page.import EXCEPT !.confirm = FALSE])
                 /\ page.import.files => Importable([page.import EXCEPT !.confirm = TRUE])
    BY <1>p DEF Importable
  <2>3. \E import : Importer(import) /\ Importable(import)
    BY <1>6, <2>1, <2>2 DEF OpensImport, ChoosesWay, ClosesImport, AsksToConfirm
  <2> QED BY <2>3, ImporterKeeps
<1>7. CASE ReadsFiles
  <2> DEFINE d == Asks("read", Nothing)
  <2>1. AccountsCall(d) /\ d.op # "update"
    BY DEF Asks, AccountsCall, IsCall
  <2>2. page' = page /\ site' = site /\ calls' = calls \cup {d}
    BY <1>7 DEF ReadsFiles
  <2> HIDE DEF d
  <2> QED BY <2>1, <2>2 DEF AccountsOK, UpdateCalls
<1>8. CASE AccountChanges
  <2>1. PICK i \in DOMAIN site.items :
          \/ site' = [site EXCEPT !.items[i].problem = ~@]
          \/ site' = [site EXCEPT !.items = Restricted(@, DOMAIN @ \ {i})]
    BY <1>8 DEF AccountChanges
  <2>2. CASE site' = [site EXCEPT !.items[i].problem = ~@]
    <3> DEFINE row == AccountRow(i, ~site.items[i].problem)
    <3>1. [site.items[i] EXCEPT !.problem = ~@] = row
      BY <1>p DEF AccountsSite, Fits, AccountRow
    <3>2. site' = [site EXCEPT !.items = [site.items EXCEPT ![i] = row]]
      BY <2>2, <3>1
    <3>3. row.problem = ~site.items[i].problem
      BY DEF AccountRow
    <3>4. row = AccountRow(i, row.problem)
      BY <3>3
    <3> HIDE DEF row
    <3>5. AccountsSite(site')
      BY <1>p, <3>2, <3>4 DEF AccountsSite, Fits
    <3> QED BY <1>8, <3>5 DEF AccountChanges, AccountsOK
  <2>3. CASE site' = [site EXCEPT !.items = Restricted(@, DOMAIN @ \ {i})]
    <3>1. Fits(Restricted(site.items, DOMAIN site.items \ {i}))
      BY <1>p, RestrictedFits DEF AccountsSite
    <3>2. AccountsSite(site')
      BY <1>p, <2>3, <3>1 DEF AccountsSite
    <3> QED BY <1>8, <3>2 DEF AccountChanges, AccountsOK
  <2> QED BY <2>1, <2>2, <2>3
<1> QED
  BY <1>1, <1>2, <1>3, <1>4, <1>5, <1>6, <1>7, <1>8

\* Every step of the account page keeps the invariant until the page is left.
LEMMA AccountsKeep ==
    ASSUME AccountsOK(page, site, calls), AccountsNext
    PROVE  AccountsOK(page', site', calls') \/ page' = Left
BY AccountsServed, AccountsAnswered, AccountsMove DEF AccountsNext, AccountsStep, LeaveAccounts

\* The page opens with it.
LEMMA AccountsStart == ASSUME AccountsInit PROVE AccountsOK(page, site, calls)
<1>1. AccountsPage(page)
  BY DEF AccountsInit, EmptyAccounts, AccountsPage, Fits, NoImport, Importable
<1>2. AccountsSite(site)
  <2>1. /\ {"items", "made"} \subseteq DOMAIN site
        /\ site.items = <<AccountRow(1, FALSE), AccountRow(2, TRUE)>>
    BY DEF AccountsInit
  <2>2. \A i, problem : AccountRow(i, problem).problem = problem
    BY DEF AccountRow
  <2> DEFINE rows == <<AccountRow(1, FALSE), AccountRow(2, TRUE)>>
  <2>4. DOMAIN rows = {1, 2} /\ rows[1] = AccountRow(1, FALSE) /\ rows[2] = AccountRow(2, TRUE)
    OBVIOUS
  <2>5. ASSUME NEW row, NEW i, NEW problem, row = AccountRow(i, problem) PROVE row = AccountRow(i, row.problem)
    BY <2>2, <2>5
  <2> HIDE DEF rows
  <2>6. rows[1] = AccountRow(1, rows[1].problem)
    <3>1. rows[1] = AccountRow(1, FALSE)
      BY <2>4
    <3> QED BY <2>5, <3>1
  <2>7. rows[2] = AccountRow(2, rows[2].problem)
    <3>1. rows[2] = AccountRow(2, TRUE)
      BY <2>4
    <3> QED BY <2>5, <3>1
  <2>3. Fits(rows)
    BY <2>4, <2>6, <2>7 DEF Fits
  <2> QED BY <2>1, <2>3 DEF AccountsSite, rows
<1>3. (\A c \in calls : AccountsCall(c)) /\ UpdateCalls(page, calls)
  BY DEF AccountsInit, AccountsCall, IsCall, UpdateCalls
<1> QED
  BY <1>1, <1>2, <1>3 DEF AccountsOK

-----------------------------------------------------------------------------
(* The administration lists. *)

\* Every item has the fields that were filled for it.
OwnFields(items) == \A i \in DOMAIN items : "fields" \in DOMAIN items[i] /\ items[i].fields = i

\* The page shows such items, and its form was filled from its target.
AdminPage(p) ==
    /\ {"items", "loading", "pending", "busy", "plans", "create", "target", "form", "confirm", "result", "generated"}
         \subseteq DOMAIN p
    /\ OwnFields(p.items) /\ (p.target # NoItem => p.form = p.target)

\* The site keeps such items.
AdminSite(s) == {"items", "made"} \subseteq DOMAIN s /\ OwnFields(s.items)

\* What an administration list asks for.
AdminOps == {"load", "plans", "create", "update", "toggle", "delete"}

\* Answers bring such items, and an update carries the fields of its item.
AdminCall(c) ==
    /\ c.op \in AdminOps /\ IsCall(c)
    /\ (c.got # Nothing /\ c.got.ok => OwnFields(c.got.items))
    /\ c.op = "update" => c.arg.fields = c.arg.id

\* The invariant of the four lists.
AdminOK(p, s, cs) == AdminPage(p) /\ AdminSite(s) /\ \A c \in cs : AdminCall(c)

\* Items that are left when one goes keep their fields.
LEMMA WithoutOwn == ASSUME NEW items, OwnFields(items), NEW i PROVE OwnFields(Without(items, i))
BY DEF OwnFields, Without

\* Whatever a request makes of the items, each has its own fields.
LEMMA ItemsAfterOwn ==
    ASSUME AdminSite(site), NEW c, AdminCall(c), c.op \notin {"load", "plans"},
           NEW items \in ItemsAfter(c)
    PROVE  OwnFields(items)
<1> DEFINE id == c.arg.id
<1>s. OwnFields(site.items)
  BY DEF AdminSite
<1>1. CASE c.op = "create"
  <2> DEFINE new == site.made + 1
  <2>1. items = WithItem(site.items, new, AdminItem(new))
    BY <1>1 DEF ItemsAfter
  <2>2. "fields" \in DOMAIN AdminItem(new) /\ AdminItem(new).fields = new
    BY DEF AdminItem
  <2> HIDE DEF new
  <2>3. ASSUME NEW i \in DOMAIN items PROVE "fields" \in DOMAIN items[i] /\ items[i].fields = i
    BY <1>s, <2>1, <2>2 DEF WithItem, OwnFields
  <2> QED BY <2>3 DEF OwnFields
<1>2. CASE c.op = "delete"
  <2>1. items = Without(site.items, id) \/ items = [site.items EXCEPT ![id].on = FALSE]
    BY <1>2 DEF ItemsAfter
  <2>2. OwnFields([site.items EXCEPT ![id].on = FALSE])
    BY <1>s DEF OwnFields
  <2> QED BY <1>s, <2>1, <2>2, WithoutOwn
<1>3. CASE c.op = "toggle"
  <2>1. items = [site.items EXCEPT ![id].on = c.arg.on]
    BY <1>3 DEF ItemsAfter
  <2> QED BY <1>s, <2>1 DEF OwnFields
<1>4. CASE c.op = "update"
  <2>1. items = [site.items EXCEPT ![id].on = c.arg.on, ![id].fields = c.arg.fields]
    BY <1>4 DEF ItemsAfter
  <2>2. c.arg.fields = id
    BY <1>4 DEF AdminCall
  <2> DEFINE on == [site.items EXCEPT ![id].on = c.arg.on]
  <2>3. OwnFields(on) /\ items = [on EXCEPT ![id].fields = c.arg.fields]
    BY <1>s, <2>1 DEF OwnFields
  <2> HIDE DEF on, id
  <2> QED BY <2>2, <2>3 DEF OwnFields
<1>5. c.op \in {"create", "update", "toggle", "delete"}
  BY DEF AdminCall, AdminOps
<1> QED
  BY <1>1, <1>2, <1>3, <1>4, <1>5

\* An answer with such items, or a failure, keeps what holds of the requests.
LEMMA AnswerOwns ==
    ASSUME NEW c \in calls, \A d \in calls : AdminCall(d), NEW answer, Served(c, answer),
           answer # Nothing /\ answer.ok => OwnFields(answer.items)
    PROVE  \A d \in calls' : AdminCall(d)
<1> DEFINE d == [c EXCEPT !.got = answer]
<1>1. IsCall(d) /\ d.op = c.op /\ d.arg = c.arg /\ d.got = answer
  BY GotKeeps DEF AdminCall
<1>2. calls' = (calls \ {c}) \cup {d}
  BY DEF Served
<1> HIDE DEF d
<1> QED
  BY <1>1, <1>2 DEF AdminCall

\* What the site makes of a request, and the failure of one, keep the invariant.
LEMMA AdminServed ==
    ASSUME AdminOK(page, site, calls), NEW c \in calls, AdminServes(c) \/ AdminFails(c)
    PROVE  AdminOK(page', site', calls')
<1> USE DEF AdminOK
<1>1. page' = page
  BY DEF AdminServes, AdminFails, Fails
<1>2. ~Failure.ok
  BY DEF Failure
<1>3. CASE Served(c, Failure) /\ site' = site
  BY <1>1, <1>2, <1>3, AnswerOwns
<1>4. CASE AdminFails(c)
  BY <1>3, <1>4 DEF AdminFails, Fails
<1>5. CASE AdminServes(c) /\ c.op \in {"load", "plans"}
  <2>1. Served(c, [ok |-> TRUE, items |-> site.items]) /\ site' = site
    BY <1>5 DEF AdminServes
  <2>2. [ok |-> TRUE, items |-> site.items].items = site.items
    OBVIOUS
  <2> QED BY <1>1, <2>1, <2>2, AnswerOwns DEF AdminSite
<1>6. ASSUME NEW items \in ItemsAfter(c), NEW made, c.op \notin {"load", "plans"},
             site' = [items |-> items, made |-> made],
             Served(c, [ok |-> TRUE, items |-> items, made |-> made])
      PROVE  AdminOK(page', site', calls')
  <2>1. OwnFields(items)
    BY <1>6, ItemsAfterOwn
  <2>2. AdminSite(site')
    BY <1>6, <2>1 DEF AdminSite
  <2>3. [ok |-> TRUE, items |-> items, made |-> made].items = items
    OBVIOUS
  <2> QED BY <1>1, <1>6, <2>1, <2>2, <2>3, AnswerOwns
<1>7. CASE AdminServes(c) /\ c.op \notin {"load", "plans"}
  BY <1>3, <1>6, <1>7 DEF AdminServes
<1> QED
  BY <1>4, <1>5, <1>7

\* So does the end of a handler.
LEMMA ConcludedOwns ==
    ASSUME AdminOK(page, site, calls), NEW list, NEW c \in calls, NEW op, NEW done, NEW reset,
           Concluded(list, c, op, done, reset), AdminPage(done)
    PROVE  AdminOK(page', site', calls')
<1> DEFINE answered == [done EXCEPT !.items = c.got.items]
           next == IF c.got.ok THEN answered ELSE page
<1>1. c.got # Nothing /\ c \in calls /\ calls' \subseteq calls /\ site' = site
  BY DEF Concluded, Answered
<1>2. c.got.ok => AdminPage(answered)
  BY <1>1 DEF AdminOK, AdminCall, AdminPage
<1>3. AdminPage(next)
  BY <1>2 DEF AdminOK
<1>4. PICK pending : page' = [next EXCEPT !.busy = @ \ reset, !.pending = pending]
  BY DEF Concluded
<1> HIDE DEF next
<1>5. AdminPage(page')
  BY <1>3, <1>4 DEF AdminPage
<1> QED
  BY <1>1, <1>5 DEF AdminOK

\* So do loading, dialogs, switches, and an item that is opened to be edited.
LEMMA AdminStays ==
    ASSUME AdminOK(page, site, calls), NEW l,
           \/ LoadList(l) \/ OpenCreate(l) \/ ClosesDialog(l)
           \/ \E i : (i \in DOMAIN page.items /\ EditsItem(i)) \/ Toggles(l, i) \/ ConfirmsItem(i)
    PROVE  AdminOK(page', site', calls')
<1>p. AdminPage(page) /\ AdminSite(site)
  BY DEF AdminOK
<1>a. ASSUME NEW op \in AdminOps, NEW arg, op # "update" PROVE AdminCall(Asks(op, arg))
  BY <1>a DEF AdminCall, IsCall, Asks
<1>1. CASE LoadList(l)
  BY <1>p, <1>1, <1>a DEF AdminOps, LoadList, AdminOK, AdminPage
<1>2. CASE OpenCreate(l)
  BY <1>p, <1>2 DEF OpenCreate, AdminOK, AdminPage
<1>3. CASE ClosesDialog(l)
  BY <1>p, <1>3 DEF ClosesDialog, AdminOK, AdminPage
<1>4. ASSUME NEW i \in DOMAIN page.items, EditsItem(i) PROVE AdminOK(page', site', calls')
  <2>1. page.items[i].fields = i
    BY <1>p DEF AdminPage, OwnFields
  <2> QED BY <1>p, <1>4, <2>1 DEF EditsItem, AdminOK, AdminPage
<1>5. ASSUME NEW i, Toggles(l, i) PROVE AdminOK(page', site', calls')
  BY <1>p, <1>5, <1>a DEF AdminOps, Toggles, AdminOK, AdminPage
<1>6. ASSUME NEW i, ConfirmsItem(i) PROVE AdminOK(page', site', calls')
  BY <1>p, <1>6 DEF ConfirmsItem, AdminOK, AdminPage
<1> QED
  BY <1>1, <1>2, <1>3, <1>4, <1>5, <1>6

\* So does what a dialog submits.
LEMMA SubmitsOwn ==
    ASSUME AdminOK(page, site, calls), NEW l, NEW flag, NEW op \in AdminOps, NEW pending, NEW arg,
           Submits(l, flag, op, pending, arg), op = "update" => arg.fields = arg.id
    PROVE  AdminOK(page', site', calls')
<1>1. PICK now : page' = [page EXCEPT !.busy = @ \cup {flag}, !.pending = now]
  BY DEF Submits
<1>2. AdminPage(page')
  BY <1>1 DEF AdminOK, AdminPage
<1>3. AdminCall(Asks(op, arg))
  BY DEF AdminCall, IsCall, Asks
<1> QED
  BY <1>2, <1>3 DEF Submits, AdminOK

\* A form that is submitted was filled from its target.
LEMMA UpdatesOwn ==
    ASSUME AdminOK(page, site, calls), NEW l, NEW flag, NEW on, page.target # NoItem,
           Submits(l, flag, "update", page.target, Filled(on))
    PROVE  AdminOK(page', site', calls')
<1>1. Filled(on).fields = Filled(on).id
  BY DEF Filled, AdminOK, AdminPage
<1> QED
  BY <1>1, SubmitsOwn DEF AdminOps

\* What handlers do when they succeeded keeps the page as it has to be.
LEMMA DonePages ==
    ASSUME AdminPage(page)
    PROVE  /\ AdminPage([page EXCEPT !.create = FALSE]) /\ AdminPage([page EXCEPT !.target = NoItem])
           /\ AdminPage([page EXCEPT !.confirm = NoItem])
           /\ \A made : AdminPage([page EXCEPT !.generated = made, !.create = FALSE, !.result = TRUE])
BY DEF AdminPage

\* A list that is loaded, or not, keeps the invariant.
LEMMA LoadedOwns ==
    ASSUME AdminOK(page, site, calls), NEW list, NEW c \in calls, LoadedList(list, c)
    PROVE  AdminOK(page', site', calls')
<1> DEFINE items == IF c.got.ok THEN c.got.items ELSE page.items
<1>1. page' = [page EXCEPT !.items = items, !.loading = FALSE] /\ calls' \subseteq calls /\ site' = site
  BY DEF LoadedList
<1>2. OwnFields(items)
  BY DEF LoadedList, Answered, AdminOK, AdminCall, AdminPage
<1> HIDE DEF items
<1>3. AdminPage(page')
  BY <1>1, <1>2 DEF AdminOK, AdminPage
<1> QED
  BY <1>1, <1>3 DEF AdminOK

\* Every step of the redeem codes keeps it.
LEMMA CodesOwn ==
    ASSUME AdminOK(page, site, calls), CodesNext \/ \E c \in calls : CodesStep(c)
    PROVE  AdminOK(page', site', calls')
<1>p. AdminPage(page)
  BY DEF AdminOK
<1>1. CASE CodesRefresh \/ CodesDialogs
  BY <1>1, AdminStays DEF CodesRefresh, CodesDialogs
<1>2. CASE CodesGenerate \/ CodesDelete
  BY <1>2, SubmitsOwn DEF AdminOps, CodesGenerate, CodesDelete
<1>3. CASE CodesUpdate
  <2>1. PICK on : page.target # NoItem /\ Submits("codes", "update", "update", page.target, Filled(on))
    BY <1>3 DEF CodesUpdate
  <2> QED BY <2>1, UpdatesOwn
<1>4. ASSUME NEW i, CodesEdit(i) \/ CodesToggle(i) \/ CodesConfirm(i) PROVE AdminOK(page', site', calls')
  BY <1>4, AdminStays DEF CodesEdit, CodesToggle, CodesConfirm, CodesRow, RowFree, CodesToggleable
<1>5. ASSUME NEW c \in calls, CodesGenerated(c) \/ CodesUpdated(c) \/ CodesToggled(c) \/ CodesDeleted(c)
      PROVE  AdminOK(page', site', calls')
  BY <1>p, <1>5, ConcludedOwns, DonePages DEF CodesGenerated, CodesUpdated, CodesToggled, CodesDeleted
<1>6. ASSUME NEW c \in calls, CodesLoaded(c) PROVE AdminOK(page', site', calls')
  <2>1. CASE c.got.ok /\ page' = [page EXCEPT !.items = c.got.items]
             /\ calls' = (calls \ {c}) \cup {[c EXCEPT !.op = "plans", !.got = Nothing]} /\ c \in Answered("load")
    <3> DEFINE d == [c EXCEPT !.op = "plans", !.got = Nothing]
    <3>1. OwnFields(c.got.items)
      BY <2>1 DEF AdminOK, AdminCall, Answered
    <3>2. AdminPage(page')
      BY <1>p, <2>1, <3>1 DEF AdminPage
    <3> DEFINE f == [c EXCEPT !.op = "plans"]
    <3>3. IsCall(f) /\ f.op = "plans"
      BY OpKeeps DEF AdminOK, AdminCall
    <3>5. d = [f EXCEPT !.got = Nothing]
      BY DEF AdminOK, AdminCall, IsCall
    <3> HIDE DEF d, f
    <3>4. AdminCall(d)
      BY <3>3, <3>5, GotKeeps DEF AdminCall, AdminOps
    <3> QED BY <1>6, <2>1, <3>2, <3>4 DEF CodesLoaded, AdminOK, d
  <2>2. CASE page' = [page EXCEPT !.plans = @ \/ c.got.ok, !.loading = FALSE] /\ calls' = calls \ {c}
    <3>1. AdminPage(page')
      BY <1>p, <2>2 DEF AdminPage
    <3> QED BY <1>6, <2>2, <3>1 DEF CodesLoaded, AdminOK
  <2> QED BY <1>6, <2>1, <2>2 DEF CodesLoaded
<1>7. ASSUME NEW i, CodeRedeemed(i) PROVE AdminOK(page', site', calls')
  <2>1. AdminSite(site')
    BY <1>7 DEF CodeRedeemed, AdminOK, AdminSite, OwnFields
  <2> QED BY <1>7, <2>1 DEF CodeRedeemed, AdminOK
<1> QED
  BY <1>1, <1>2, <1>3, <1>4, <1>5, <1>6, <1>7 DEF CodesNext, CodesStep

\* Every step of the users keeps it.
LEMMA UsersOwn ==
    ASSUME AdminOK(page, site, calls), UsersNext \/ \E c \in calls : UsersStep(c)
    PROVE  AdminOK(page', site', calls')
<1>p. AdminPage(page)
  BY DEF AdminOK
<1>1. CASE UsersRefresh \/ UsersSearch \/ UsersDialogs
  BY <1>1, AdminStays DEF UsersRefresh, UsersSearch, UsersDialogs
<1>2. CASE UsersCreate \/ UsersDelete
  BY <1>2, SubmitsOwn DEF AdminOps, UsersCreate, UsersDelete
<1>3. CASE UsersUpdate
  <2>1. PICK on : page.target # NoItem /\ Submits("users", "update", "update", page.target, Filled(on))
    BY <1>3 DEF UsersUpdate
  <2> QED BY <2>1, UpdatesOwn
<1>4. ASSUME NEW i, UsersEdit(i) \/ UsersToggle(i) \/ UsersConfirm(i) PROVE AdminOK(page', site', calls')
  BY <1>4, AdminStays DEF UsersEdit, UsersToggle, UsersConfirm, UsersRow, RowFree
<1>5. ASSUME NEW c \in calls, UsersCreated(c) \/ UsersUpdated(c) \/ UsersToggled(c) \/ UsersDeleted(c)
      PROVE  AdminOK(page', site', calls')
  BY <1>p, <1>5, ConcludedOwns, DonePages DEF UsersCreated, UsersUpdated, UsersToggled, UsersDeleted
<1>6. ASSUME NEW c \in calls, UsersLoaded(c) PROVE AdminOK(page', site', calls')
  BY <1>6, LoadedOwns DEF UsersLoaded
<1> QED
  BY <1>1, <1>2, <1>3, <1>4, <1>5, <1>6 DEF UsersNext, UsersStep

\* Every step of the promotion codes keeps it.
LEMMA PromosOwn ==
    ASSUME AdminOK(page, site, calls), PromosNext \/ \E c \in calls : PromosStep(c)
    PROVE  AdminOK(page', site', calls')
<1>p. AdminPage(page)
  BY DEF AdminOK
<1>1. CASE PromosRefresh \/ PromosDialogs
  BY <1>1, AdminStays DEF PromosRefresh, PromosDialogs
<1>2. CASE PromosCreate \/ PromosDelete
  BY <1>2, SubmitsOwn DEF AdminOps, PromosCreate, PromosDelete
<1>3. CASE PromosUpdate
  <2>1. PICK on : page.target # NoItem /\ Submits("promos", "update", "update", page.target, Filled(on))
    BY <1>3 DEF PromosUpdate
  <2> QED BY <2>1, UpdatesOwn
<1>4. ASSUME NEW i, PromosEdit(i) \/ PromosToggle(i) \/ PromosConfirm(i) PROVE AdminOK(page', site', calls')
  BY <1>4, AdminStays DEF PromosEdit, PromosToggle, PromosConfirm, PromosRow, RowFree
<1>5. ASSUME NEW c \in calls, PromosCreated(c) \/ PromosUpdated(c) \/ PromosToggled(c) \/ PromosDeleted(c)
      PROVE  AdminOK(page', site', calls')
  BY <1>p, <1>5, ConcludedOwns, DonePages DEF PromosCreated, PromosUpdated, PromosToggled, PromosDeleted
<1>6. ASSUME NEW c \in calls, PromosLoaded(c) PROVE AdminOK(page', site', calls')
  BY <1>6, LoadedOwns DEF PromosLoaded
<1> QED
  BY <1>1, <1>2, <1>3, <1>4, <1>5, <1>6 DEF PromosNext, PromosStep

\* Every step of the plans keeps it.
LEMMA PlansOwn ==
    ASSUME AdminOK(page, site, calls), PlansNext \/ \E c \in calls : PlansStep(c)
    PROVE  AdminOK(page', site', calls')
<1>p. AdminPage(page)
  BY DEF AdminOK
<1>1. CASE PlansRefresh \/ PlansDialogs
  BY <1>1, AdminStays DEF PlansRefresh, PlansDialogs
<1>2. CASE PlansCreate \/ PlansDelete
  BY <1>2, SubmitsOwn DEF AdminOps, PlansCreate, PlansDelete
<1>3. CASE PlansUpdate
  <2>1. PICK on : page.target # NoItem /\ Submits("plans", "submit", "update", page.target, Filled(on))
    BY <1>3 DEF PlansUpdate
  <2> QED BY <2>1, UpdatesOwn
<1>4. ASSUME NEW i, PlansEdit(i) \/ PlansToggle(i) \/ PlansConfirm(i) PROVE AdminOK(page', site', calls')
  BY <1>4, AdminStays DEF PlansEdit, PlansToggle, PlansConfirm, PlansRow, RowFree
<1>5. ASSUME NEW c \in calls, PlansCreated(c) \/ PlansUpdated(c) \/ PlansToggled(c) \/ PlansDeleted(c)
      PROVE  AdminOK(page', site', calls')
  BY <1>p, <1>5, ConcludedOwns, DonePages DEF PlansCreated, PlansUpdated, PlansToggled, PlansDeleted
<1>6. ASSUME NEW c \in calls, PlansLoaded(c) PROVE AdminOK(page', site', calls')
  BY <1>6, LoadedOwns DEF PlansLoaded
<1> QED
  BY <1>1, <1>2, <1>3, <1>4, <1>5, <1>6 DEF PlansNext, PlansStep

\* Every step of the lists, and another administrator, keeps it until the page is left.
LEMMA AdminOwns ==
    ASSUME AdminOK(page, site, calls), AdminNext
    PROVE  AdminOK(page', site', calls') \/ page' = Left
<1>1. ASSUME NEW c \in calls, AdminServes(c) \/ AdminFails(c) PROVE AdminOK(page', site', calls')
  BY <1>1, AdminServed
<1>2. CASE AnotherAdmin
  <2>1. PICK i : \/ site' = [site EXCEPT !.items = Without(@, i)]
                 \/ site' = [site EXCEPT !.items[i].on = ~@]
    BY <1>2 DEF AnotherAdmin
  <2>2. {"items", "made"} \subseteq DOMAIN site' /\ OwnFields(site.items)
    BY <2>1 DEF AdminOK, AdminSite
  <2>3. OwnFields(site'.items)
    <3>1. CASE site' = [site EXCEPT !.items = Without(@, i)]
      <4>1. site'.items = Without(site.items, i)
        BY <3>1 DEF AdminOK, AdminSite
      <4> QED BY <2>2, <4>1, WithoutOwn
    <3>2. CASE site' = [site EXCEPT !.items[i].on = ~@]
      <4> DEFINE items == [site.items EXCEPT ![i].on = ~@]
      <4>1. site'.items = items
        BY <3>2 DEF AdminOK, AdminSite
      <4>2. OwnFields(items)
        BY <2>2 DEF OwnFields
      <4> HIDE DEF items
      <4> QED BY <4>1, <4>2
    <3> QED BY <2>1, <3>1, <3>2
  <2>4. AdminSite(site')
    BY <2>2, <2>3 DEF AdminSite
  <2> QED BY <1>2, <2>4 DEF AnotherAdmin, AdminOK
<1>3. CASE LeaveAdmin
  BY <1>3 DEF LeaveAdmin
<1> QED
  BY <1>1, <1>2, <1>3, CodesOwn, UsersOwn, PromosOwn, PlansOwn DEF AdminNext, AdminStep

\* The lists open with it.
LEMMA AdminStarts == ASSUME AdminInit PROVE AdminOK(page, site, calls)
<1>1. PICK list : OpenAdmin(list)
  BY DEF AdminInit, UsersOpen, PromosOpen, PlansOpen
<1>2. AdminPage(page)
  BY <1>1 DEF OpenAdmin, EmptyAdmin, AdminPage, OwnFields
<1>3. AdminSite(site)
  BY <1>1 DEF OpenAdmin, AdminItem, AdminSite, OwnFields
<1>4. \A c \in calls : AdminCall(c)
  BY <1>1 DEF OpenAdmin, AdminCall, AdminOps, IsCall
<1> QED
  BY <1>2, <1>3, <1>4 DEF AdminOK

\* While generated codes are on screen, none are being generated; and never two requests at a time.
CodesShown(p, cs) ==
    /\ p.result => ~p.create /\ \A c \in cs : c.op # "create"
    /\ \A c \in cs : c.op = "create" => "create" \in p.busy
    /\ \A c, d \in cs : c.op = "create" /\ d.op = "create" => c = d

\* A step that leaves generated codes on screen leaves these.
CodesStay == page.result /\ page'.result => page'.generated = page.generated

\* On the page of redeem codes nothing happens on another list.
LEMMA OthersNotShown ==
    ASSUME At("codes")
    PROVE  /\ ~UsersNext /\ ~PromosNext /\ ~PlansNext
           /\ \A c : ~UsersStep(c) /\ ~PromosStep(c) /\ ~PlansStep(c)
BY DEF At, UsersNext, PromosNext, PlansNext, UsersStep, PromosStep, PlansStep, UsersLoaded, UsersCreated,
   UsersUpdated,
   UsersToggled, UsersDeleted, PromosLoaded, PromosCreated, PromosUpdated, PromosToggled, PromosDeleted, PlansLoaded,
   PlansCreated, PlansUpdated, PlansToggled, PlansDeleted, LoadedList, Concluded

\* So a step that leaves generated codes on screen leaves the ones that are there.
LEMMA CodesShow ==
    ASSUME AdminOK(page, site, calls), CodesShown(page, calls), At("codes"), AdminNext
    PROVE  (CodesShown(page', calls') /\ CodesStay) \/ page' = Left
<1>p. AdminPage(page)
  BY DEF AdminOK
<1>k. ASSUME \A c \in calls' : c.op = "create" => c \in calls,
             page'.result => page.result /\ (page'.create => page.create),
             "create" \in page.busy => "create" \in page'.busy, page'.generated = page.generated
      PROVE  CodesShown(page', calls') /\ CodesStay
  BY <1>k DEF CodesShown, CodesStay
<1>s. ASSUME NEW c \in calls, NEW answer, Served(c, answer), page' = page
      PROVE  CodesShown(page', calls') /\ CodesStay
  <2> DEFINE d == [c EXCEPT !.got = answer]
  <2>1. d.op = c.op
    BY GotKeeps DEF AdminOK, AdminCall
  <2>2. calls' = (calls \ {c}) \cup {d}
    BY <1>s DEF Served
  <2> HIDE DEF d
  <2> QED BY <1>s, <2>1, <2>2 DEF CodesShown, CodesStay
<1>1. ASSUME NEW c \in calls, AdminServes(c) \/ AdminFails(c) PROVE CodesShown(page', calls') /\ CodesStay
  <2>1. page' = page /\ \E answer : Served(c, answer)
    BY <1>1 DEF AdminServes, AdminFails, Fails
  <2> QED BY <1>s, <2>1
<1>2. CASE AnotherAdmin \/ \E i : CodeRedeemed(i)
  BY <1>2 DEF AnotherAdmin, CodeRedeemed, CodesShown, CodesStay
<1>3. CASE LeaveAdmin
  BY <1>3 DEF LeaveAdmin
<1>4. CASE CodesRefresh
  <2>1. page' = [page EXCEPT !.loading = TRUE] /\ \A c \in calls' : c \in calls \/ c.op = "load"
    BY <1>4 DEF CodesRefresh, LoadList, Asks
  <2>2. page'.result = page.result /\ page'.create = page.create /\ page'.busy = page.busy /\ page'.generated = page.generated
    BY <1>p, <2>1 DEF AdminPage
  <2> QED BY <1>k, <2>1, <2>2
<1>5. CASE CodesDialogs
  <2>1. calls' = calls /\ page'.busy = page.busy /\ page'.generated = page.generated
    BY <1>p, <1>5 DEF CodesDialogs, OpenCreate, ClosesDialog, AdminPage
  <2>2. page'.result => page.result /\ (page'.create => page.create)
    BY <1>p, <1>5 DEF CodesDialogs, OpenCreate, ClosesDialog, AdminPage, NoDialog
  <2> QED BY <1>k, <2>1, <2>2
<1>6. CASE CodesUpdate \/ CodesDelete
  <2>1. PICK flag, op, pending, arg : op # "create" /\ Submits("codes", flag, op, pending, arg)
    BY <1>6 DEF CodesUpdate, CodesDelete
  <2>2. \A c \in calls' : c \in calls \/ c.op = op
    BY <2>1 DEF Submits, Asks
  <2>3. PICK now : page' = [page EXCEPT !.busy = @ \cup {flag}, !.pending = now]
    BY <2>1 DEF Submits
  <2>4. page'.result = page.result /\ page'.create = page.create /\ page'.busy = page.busy \cup {flag}
        /\ page'.generated = page.generated
    BY <1>p, <2>3 DEF AdminPage
  <2> QED BY <1>k, <2>1, <2>2, <2>4
<1>7. CASE CodesGenerate
  <2>1. page.create /\ Submits("codes", "create", "create", NoItem, Nothing)
    BY <1>7 DEF CodesGenerate
  <2> DEFINE d == Asks("create", Nothing)
  <2>2. calls' = calls \cup {d} /\ "create" \notin page.busy
    BY <2>1 DEF Submits
  <2> HIDE DEF d
  <2>3. PICK now : page' = [page EXCEPT !.busy = @ \cup {"create"}, !.pending = now]
    BY <2>1 DEF Submits
  <2>4. page'.result = page.result /\ page'.create = page.create /\ page'.busy = page.busy \cup {"create"}
        /\ page'.generated = page.generated
    BY <1>p, <2>3 DEF AdminPage
  <2>5. ~page.result /\ \A c \in calls : c.op # "create"
    BY <2>1, <2>2 DEF CodesShown
  <2> QED BY <2>2, <2>4, <2>5 DEF CodesShown, CodesStay
<1>8. ASSUME NEW i, CodesEdit(i) \/ CodesConfirm(i) PROVE CodesShown(page', calls') /\ CodesStay
  <2>1. /\ calls' = calls /\ page'.result = page.result /\ page'.create = page.create /\ page'.busy = page.busy
        /\ page'.generated = page.generated
    BY <1>p, <1>8 DEF CodesEdit, CodesConfirm, EditsItem, ConfirmsItem, AdminPage
  <2> QED BY <1>k, <2>1
<1>9. ASSUME NEW i, CodesToggle(i) PROVE CodesShown(page', calls') /\ CodesStay
  <2>1. page' = [page EXCEPT !.pending = i] /\ \A c \in calls' : c \in calls \/ c.op = "toggle"
    BY <1>9 DEF CodesToggle, Toggles, Asks
  <2>2. page'.result = page.result /\ page'.create = page.create /\ page'.busy = page.busy /\ page'.generated = page.generated
    BY <1>p, <2>1 DEF AdminPage
  <2> QED BY <1>k, <2>1, <2>2
<1>c. ASSUME NEW c \in calls, NEW op, NEW done, NEW reset, Concluded("codes", c, op, done, reset),
             DOMAIN done = DOMAIN page, done.busy = page.busy
      PROVE  /\ c.op = op /\ calls' = calls \ {c} /\ page'.busy = page.busy \ reset
             /\ \/ page'.result = done.result /\ page'.create = done.create /\ page'.generated = done.generated
                \/ page'.result = page.result /\ page'.create = page.create /\ page'.generated = page.generated
  <2> DEFINE answered == [done EXCEPT !.items = c.got.items]
             next == IF c.got.ok THEN answered ELSE page
  <2>1. PICK pending : page' = [next EXCEPT !.busy = @ \ reset, !.pending = pending]
    BY <1>c DEF Concluded
  <2>2. DOMAIN answered = DOMAIN page /\ answered.busy = page.busy /\ answered.result = done.result
        /\ answered.create = done.create /\ answered.generated = done.generated
    BY <1>p, <1>c DEF AdminPage
  <2> HIDE DEF answered
  <2>3. /\ DOMAIN next = DOMAIN page /\ next.busy = page.busy
        /\ \/ next.result = done.result /\ next.create = done.create /\ next.generated = done.generated
           \/ next.result = page.result /\ next.create = page.create /\ next.generated = page.generated
    BY <2>2
  <2> HIDE DEF next
  <2>4. /\ page'.busy = page.busy \ reset /\ page'.result = next.result /\ page'.create = next.create
        /\ page'.generated = next.generated
    BY <1>p, <2>1, <2>3 DEF AdminPage
  <2> QED BY <1>c, <2>3, <2>4 DEF Concluded, Answered
<1>10. ASSUME NEW c \in calls, CodesUpdated(c) \/ CodesToggled(c) \/ CodesDeleted(c)
       PROVE  CodesShown(page', calls') /\ CodesStay
  <2>1. PICK op, done, reset :
          /\ Concluded("codes", c, op, done, reset) /\ "create" \notin reset
          /\ DOMAIN done = DOMAIN page /\ done.busy = page.busy /\ done.result = page.result /\ done.create = page.create
          /\ done.generated = page.generated
    <3>1. \A done \in {page, [page EXCEPT !.target = NoItem], [page EXCEPT !.confirm = NoItem]} :
            /\ DOMAIN done = DOMAIN page /\ done.busy = page.busy /\ done.result = page.result
            /\ done.create = page.create /\ done.generated = page.generated
      BY <1>p DEF AdminPage
    <3>2. PICK op, done, reset : /\ Concluded("codes", c, op, done, reset) /\ "create" \notin reset
                                 /\ done \in {page, [page EXCEPT !.target = NoItem], [page EXCEPT !.confirm = NoItem]}
      BY <1>10 DEF CodesUpdated, CodesToggled, CodesDeleted
    <3> QED BY <3>1, <3>2
  <2> QED BY <1>c, <1>k, <2>1
<1>11. ASSUME NEW c \in calls, CodesGenerated(c) PROVE CodesShown(page', calls') /\ CodesStay
  <2> DEFINE done == [page EXCEPT !.generated = c.got.made, !.create = FALSE, !.result = TRUE]
  <2>1. DOMAIN done = DOMAIN page /\ done.busy = page.busy /\ ~done.create
    BY <1>p DEF AdminPage
  <2>2. Concluded("codes", c, "create", done, {"create"})
    BY <1>11 DEF CodesGenerated
  <2> HIDE DEF done
  <2>3. c.op = "create" /\ calls' = calls \ {c} /\ (page'.result => ~page'.create \/ page.result)
    BY <1>c, <2>1, <2>2
  <2>4. ~page.result /\ \A d \in calls' : d.op # "create"
    BY <2>3 DEF CodesShown
  <2> QED BY <2>3, <2>4 DEF CodesShown, CodesStay
<1>12. ASSUME NEW c \in calls, CodesLoaded(c) PROVE CodesShown(page', calls') /\ CodesStay
  <2>1. \A d \in calls' : d \in calls \/ d.op # "create"
    <3> DEFINE f == [c EXCEPT !.op = "plans"]
               d == [f EXCEPT !.got = Nothing]
    <3>1. d.op = "plans" /\ d = [c EXCEPT !.op = "plans", !.got = Nothing]
      BY OpKeeps, GotKeeps DEF AdminOK, AdminCall, IsCall
    <3> HIDE DEF d
    <3> QED BY <1>12, <3>1 DEF CodesLoaded
  <2>2. page'.result = page.result /\ page'.create = page.create /\ page'.busy = page.busy /\ page'.generated = page.generated
    BY <1>p, <1>12 DEF CodesLoaded, AdminPage
  <2> QED BY <1>k, <2>1, <2>2
<1>13. CASE CodesNext
  BY <1>2, <1>4, <1>5, <1>6, <1>7, <1>8, <1>9, <1>13 DEF CodesNext
<1>14. ASSUME NEW c \in calls, CodesStep(c) PROVE CodesShown(page', calls') /\ CodesStay
  BY <1>10, <1>11, <1>12, <1>14 DEF CodesStep
<1> QED
  BY <1>1, <1>2, <1>3, <1>13, <1>14, OthersNotShown DEF AdminNext, AdminStep

\* The lists open with none.
LEMMA CodesStart == ASSUME AdminInit PROVE CodesShown(page, calls)
<1>1. PICK list : OpenAdmin(list)
  BY DEF AdminInit, UsersOpen, PromosOpen, PlansOpen
<1> QED
  BY <1>1 DEF OpenAdmin, EmptyAdmin, CodesShown

-----------------------------------------------------------------------------
(* The web application. *)

\* The inductive invariant of all pages: of the one on screen, and of the cards with one of their own.
ShownInv == UserInv \/ OtherInv
CardsInv ==
    /\ At("membership") => MemberOK(page, calls)
    /\ At("imports") => ImportsOK(page, site) /\ OwnInv(page, site, calls)
    /\ At("machine") => MachineOK(site) /\ DraftOK(page, clicks)
    /\ At("forms") => FormOK(page, site, calls, clicks)
    /\ At("accounts") => AccountsOK(page, site, calls)
    /\ page.at \in AdminLists => AdminOK(page, site, calls)
    /\ At("codes") => CodesShown(page, calls)
    /\ At("update") => CardOK(page, site, calls)
PagesInv == ShownInv /\ CardsInv

\* What happens on a page of a user needs it on screen, or registrations that outlive it.
LEMMA UserIsShown == UserNext => page.at \in UserPageNames \/ Registering
<1>1. UserStep => page.at \in UserPageNames \/ Registering
  <2>1. ASSUME NEW c, RedeemStep(c) PROVE page.at = "redeem"
    BY <2>1 DEF RedeemStep, ServeRedeem, ServeHistory, RedeemLoaded, RedeemAnswered, RedeemReported, At
  <2>2. ASSUME NEW c, MembershipStep(c) PROVE page.at = "membership"
    BY <2>2 DEF MembershipStep, ServeMembership, ClaimAnswered, MemberLoaded, CheckinLoaded, At
  <2>3. ASSUME NEW c, RegisterStep(c) PROVE page.at = "register" \/ Registering
    BY <2>3 DEF RegisterStep, ServeSettings, RegisterSettings, SendCodeDone, RegisterAnswered, StoreCode, MailCode,
       CheckRegistration, CommitRegistration, At
  <2> QED BY <2>1, <2>2, <2>3 DEF UserStep, UserPageNames
<1>2. LeaveUserPage \/ (\E c \in calls : UserPageFails(c)) => page.at \in UserPageNames
  BY DEF LeaveUserPage, UserPageFails
<1>3. RedeemNext => page.at = "redeem"
  BY DEF RedeemNext, RedeemRetry, HandleRedeem, CodeTaken, Event, At
<1>4. MembershipNext => page.at = "membership"
  BY DEF MembershipNext, MemberRefresh, CheckinRetry, HandleClaimCheckin, Event, At
<1>5. RegisterNext => page.at = "register"
  BY DEF RegisterNext, HandleReloadSettings, HandleSendCode, HandleRegister, AnotherVisitor, CodesWithdrawn,
     RegisterForm, Event, At
<1> QED
  BY <1>1, <1>2, <1>3, <1>4, <1>5 DEF UserNext, UserPageNames

\* Every step of the pages of a user shows the same page or none.
LEMMA UserRemains ==
    ASSUME UserInv, UserNext
    PROVE  page'.at \in {page.at, "away"}
<1>1. "at" \in DOMAIN page /\ "at" \in DOMAIN Left /\ Left.at = "away"
  BY DEF UserInv, PageOK, Left
<1>2. ASSUME NEW c, RedeemStep(c) PROVE page'.at = page.at
  BY <1>1, <1>2 DEF RedeemStep, ServeRedeem, ServeHistory, RedeemLoaded, RedeemAnswered, RedeemReported
<1>3. ASSUME NEW c, MembershipStep(c) PROVE page'.at = page.at
  BY <1>1, <1>3 DEF MembershipStep, ServeMembership, ClaimAnswered, MemberLoaded, CheckinLoaded, MemberLoading
<1>4. ASSUME NEW c, RegisterStep(c) PROVE page'.at \in {page.at, "away"}
  <2>1. CASE ServeSettings(c) \/ StoreCode(c) \/ MailCode(c) \/ CheckRegistration(c) \/ CommitRegistration(c)
    BY <2>1 DEF ServeSettings, StoreCode, MailCode, CheckRegistration, CommitRegistration
  <2>2. CASE RegisterSettings(c) \/ SendCodeDone(c)
    BY <1>1, <2>2 DEF RegisterSettings, SendCodeDone
  <2>3. CASE RegisterAnswered(c)
    BY <1>1, <2>3 DEF RegisterAnswered
  <2> QED BY <1>4, <2>1, <2>2, <2>3 DEF RegisterStep
<1>5. CASE RedeemNext
  BY <1>1, <1>5 DEF RedeemNext, RedeemRetry, HandleRedeem, CodeTaken
<1>6. CASE MembershipNext
  BY <1>1, <1>6 DEF MembershipNext, MemberRefresh, CheckinRetry, HandleClaimCheckin, MemberLoading
<1>7. CASE RegisterNext
  BY <1>1, <1>7 DEF RegisterNext, HandleReloadSettings, HandleSendCode, HandleRegister, AnotherVisitor, CodesWithdrawn
<1>8. CASE LeaveUserPage
  BY <1>1, <1>8 DEF LeaveUserPage
<1>9. ASSUME NEW c, UserPageFails(c) PROVE page'.at = page.at
  BY <1>9 DEF UserPageFails, Fails
<1> QED
  BY <1>2, <1>3, <1>4, <1>5, <1>6, <1>7, <1>8, <1>9 DEF UserNext, UserStep

\* Each page opens as itself.
LEMMA PagesOpen ==
    /\ GalleryInit => page.at = "gallery"
    /\ AdminInit => page.at \in AdminLists
    /\ RedeemInit => page.at = "redeem"
    /\ RegisterInit => page.at = "register"
    /\ MemberInit => page.at = "membership"
    /\ ImportInit => page.at = "imports"
    /\ SettingsInit => page.at \in SettingsCards
    /\ AccountsInit => page.at = "accounts"
<1>1. GalleryInit => page.at = "gallery"
  BY DEF GalleryInit, EmptyGallery
<1>5. ImportInit => page.at = "imports"
  <2>1. \A kind : EmptyImports(kind).at = "imports"
    BY DEF EmptyImports
  <2>2. ASSUME ImportInit PROVE \E kind : page = EmptyImports(kind)
    BY <2>2 DEF ImportInit
  <2> QED BY <2>1, <2>2
<1>6. AccountsInit => page.at = "accounts"
  <2>1. EmptyAccounts.at = "accounts"
    BY DEF EmptyAccounts
  <2> QED BY <2>1 DEF AccountsInit
<1>2. AdminInit => page.at \in AdminLists
  <2>1. \A list : OpenAdmin(list) => page.at = list
    BY DEF OpenAdmin, EmptyAdmin
  <2> QED BY <2>1 DEF AdminInit, UsersOpen, PromosOpen, PlansOpen, AdminLists
<1>3. (RedeemInit => page.at = "redeem") /\ (RegisterInit => page.at = "register") /\ (MemberInit => page.at = "membership")
  BY DEF RedeemInit, EmptyRedeem, RegisterInit, EmptyRegister, MemberInit, EmptyMembership
<1>4. SettingsInit => page.at \in SettingsCards
  BY DEF SettingsInit, MachineInit, EmptyMachine, FormsInit, EmptyForm, CardInit, EmptyCard, SettingsCards
<1> QED
  BY <1>1, <1>2, <1>3, <1>4, <1>5, <1>6

\* Every page opens with the invariant.
LEMMA PagesStart == PageInit => PagesInv
<1> SUFFICES ASSUME PageInit PROVE PagesInv
  OBVIOUS
<1>1. ShownInv
  BY UserStarts, OthersStart DEF PageInit, ShownInv
<1>2. At("membership") => MemberInit
  BY PagesOpen DEF PageInit, UserInit, At, AdminLists, SettingsCards
<1>3. At("imports") => ImportInit
  BY PagesOpen DEF PageInit, UserInit, At, AdminLists, SettingsCards
<1>4. At("machine") \/ At("update") \/ At("forms") => SettingsInit
  BY PagesOpen DEF PageInit, UserInit, At, AdminLists
<1>6. (At("accounts") => AccountsInit) /\ (page.at \in AdminLists => AdminInit)
  BY PagesOpen DEF PageInit, UserInit, At, AdminLists, SettingsCards
<1>7. At("codes") => page.at \in AdminLists
  BY DEF At, AdminLists
<1>5. MemberInit => MemberOK(page, calls)
  BY DEF MemberInit, EmptyMembership, MemberLoads, MemberOK, TellsEnabled
<1> QED
  BY <1>1, <1>2, <1>3, <1>4, <1>5, <1>6, <1>7, ImportsStart, OwnStarts, MachineStarts, DraftStarts, CardStarts,
     FormsStart,
     AccountsStart, AdminStarts, CodesStart DEF PagesInv, CardsInv

\* Every step keeps the invariant.
LEMMA PagesKeep == PagesInv /\ [PageNext]_pageVars => PagesInv'
<1> SUFFICES ASSUME PagesInv, [PageNext]_pageVars PROVE PagesInv'
  OBVIOUS
<1> DEFINE OtherNext == (At("gallery") /\ GalleryNext) \/ AdminNext \/ ImportNext \/ SettingsNext \/ AccountsNext
<1>1. OtherNext => page.at \in OtherPages
  <2>1. AccountsNext => page.at = "accounts"
    BY DEF AccountsNext, At
  <2> QED BY <2>1, AdminIsShown, ImportIsShown, SettingsAreShown DEF At, OtherPages, SettingsCards
<1>2. CASE UNCHANGED pageVars
  BY <1>2 DEF PagesInv, ShownInv, CardsInv, UserInv, PageOK, CallsOK, SiteOK, OtherInv, OtherSite, At, Registering,
     pageVars
<1>3. CASE UserInv /\ PageNext
  <2>1. ~OtherNext
    BY <1>1, <1>3 DEF UserInv, PageOK, UserPageNames, OtherPages, AdminLists
  <2>2. UserNext
    BY <1>3, <2>1 DEF PageNext
  <2>3. UserInv' /\ page'.at \in {page.at, "away"}
    BY <1>3, <2>2, UserKeeps, UserRemains
  <2>4. page.at \in {"redeem", "membership", "register", "away"}
    BY <1>3 DEF UserInv, PageOK, UserPageNames
  <2>5. CardsInv'
    <3>1. CASE ~At("membership")'
      BY <2>3, <2>4, <3>1 DEF CardsInv, At, AdminLists
    <3>2. CASE At("membership")'
      <4>1. At("membership") /\ page' # Left
        BY <2>3, <3>2 DEF At, Left
      <4>2. MemberOK(page', calls')
        BY <4>1, <1>3, <2>2, MemberKeeps DEF PagesInv, CardsInv
      <4> QED BY <3>2, <4>2 DEF CardsInv, At, AdminLists
    <3> QED BY <3>1, <3>2
  <2> QED BY <2>3, <2>5 DEF PagesInv, ShownInv
<1>4. CASE OtherInv /\ PageNext
  <2>1. ~UserNext
    BY <1>4, UserIsShown DEF OtherInv, UserPageNames, OtherPages, AdminLists, OtherSite, Registering
  <2>2. OtherNext
    BY <1>4, <2>1 DEF PageNext
  <2>3. OtherInv' /\ page'.at \in {page.at, "away"}
    BY <1>4, <2>2, OthersRemain
  <2>4. /\ At("imports") => ImportNext
        /\ At("machine") \/ At("update") \/ At("forms") => SettingsNext
        /\ At("accounts") => AccountsNext
        /\ page.at \in AdminLists => AdminNext
    BY <2>2, AdminIsShown, ImportIsShown, SettingsAreShown DEF At, AdminLists, AccountsNext, SettingsCards
  <2>5. ~At("membership")'
    BY <2>3 DEF OtherInv, At, OtherPages, AdminLists
  <2>l. Left.at = "away"
    BY DEF Left
  <2>6. At("imports")' => ImportsOK(page', site') /\ OwnInv(page', site', calls')
    <3> SUFFICES ASSUME At("imports")' PROVE ImportsOK(page', site') /\ OwnInv(page', site', calls')
      OBVIOUS
    <3>1. At("imports") /\ page' # Left
      BY <2>3, <2>l DEF At
    <3>2. ImportNext /\ ImportsOK(page, site) /\ OwnInv(page, site, calls)
      BY <3>1, <2>4 DEF PagesInv, CardsInv
    <3>3. OwnInv(page', site', calls')
      BY <3>1, <3>2, OwnFormKeeps, OwnCallsKeep, OwnSiteKeeps DEF OwnInv
    <3> QED BY <3>1, <3>2, <3>3, PollingKeepsOne, RunnersKeep DEF ImportsOK
  <2>7. At("machine")' => MachineOK(site') /\ DraftOK(page', clicks')
    <3> SUFFICES ASSUME At("machine")' PROVE MachineOK(site') /\ DraftOK(page', clicks')
      OBVIOUS
    <3>1. At("machine")
      BY <2>3 DEF At
    <3>2. SettingsNext /\ MachineOK(site) /\ DraftOK(page, clicks)
      BY <3>1, <2>4 DEF PagesInv, CardsInv
    <3> QED BY <3>1, <3>2, MachineKeeps, DraftKeeps
  <2>8. At("update")' => CardOK(page', site', calls')
    <3> SUFFICES ASSUME At("update")' PROVE CardOK(page', site', calls')
      OBVIOUS
    <3>1. At("update")
      BY <2>3 DEF At
    <3>2. SettingsNext /\ CardOK(page, site, calls)
      BY <3>1, <2>4 DEF PagesInv, CardsInv
    <3> QED BY <3>1, <3>2, CardKeeps
  <2>9. At("forms")' => FormOK(page', site', calls', clicks')
    <3> SUFFICES ASSUME At("forms")' PROVE FormOK(page', site', calls', clicks')
      OBVIOUS
    <3>1. At("forms") /\ page' # Left
      BY <2>3, <2>l DEF At
    <3>2. SettingsNext /\ FormOK(page, site, calls, clicks)
      BY <3>1, <2>4 DEF PagesInv, CardsInv
    <3> QED BY <3>1, <3>2, FormKeeps
  <2>10. At("accounts")' => AccountsOK(page', site', calls')
    <3> SUFFICES ASSUME At("accounts")' PROVE AccountsOK(page', site', calls')
      OBVIOUS
    <3>1. At("accounts") /\ page' # Left
      BY <2>3, <2>l DEF At
    <3>2. AccountsNext /\ AccountsOK(page, site, calls)
      BY <3>1, <2>4 DEF PagesInv, CardsInv
    <3> QED BY <3>1, <3>2, AccountsKeep
  <2>11. page'.at \in AdminLists => AdminOK(page', site', calls')
    <3> SUFFICES ASSUME page'.at \in AdminLists PROVE AdminOK(page', site', calls')
      OBVIOUS
    <3>1. page.at \in AdminLists /\ page' # Left
      BY <2>3, <2>l DEF AdminLists
    <3>2. AdminNext /\ AdminOK(page, site, calls)
      BY <3>1, <2>4 DEF PagesInv, CardsInv
    <3> QED BY <3>1, <3>2, AdminOwns
  <2>12. At("codes")' => CodesShown(page', calls')
    <3> SUFFICES ASSUME At("codes")' PROVE CodesShown(page', calls')
      OBVIOUS
    <3>1. At("codes") /\ page.at \in AdminLists /\ page' # Left
      BY <2>3, <2>l DEF At, AdminLists
    <3>2. AdminNext /\ AdminOK(page, site, calls) /\ CodesShown(page, calls)
      BY <3>1, <2>4 DEF PagesInv, CardsInv
    <3> QED BY <3>1, <3>2, CodesShow
  <2>13. CardsInv'
    BY <2>5, <2>6, <2>7, <2>8, <2>9, <2>10, <2>11, <2>12 DEF CardsInv, At
  <2> QED BY <2>3, <2>13 DEF PagesInv, ShownInv
<1> QED
  BY <1>2, <1>3, <1>4 DEF PagesInv, ShownInv

\* A step keeps what is only on screen: generated codes, and a draft of the register machine.
ShownStep ==
    /\ At("codes") /\ page.result /\ page'.at = "codes" /\ page'.result => page'.generated = page.generated
    /\ Machine /\ page.dirty /\ page'.at = "machine" /\ page'.dirty =>
         page'.value = page.value \/ (clicks' = clicks + 1 /\ calls' = calls)

\* Every step of every page does.
LEMMA PagesShow == PagesInv /\ [PageNext]_pageVars => [ShownStep]_pageVars
<1> SUFFICES ASSUME PagesInv, PageNext PROVE ShownStep
  BY DEF ShownStep, pageVars
<1> DEFINE OtherNext == (At("gallery") /\ GalleryNext) \/ AdminNext \/ ImportNext \/ SettingsNext \/ AccountsNext
<1>1. CASE ~At("codes") /\ ~At("machine")
  BY <1>1 DEF ShownStep, Machine
<1>2. CASE At("codes") \/ At("machine")
  <2>1. OtherInv
    BY <1>2 DEF PagesInv, ShownInv, UserInv, PageOK, UserPageNames, At
  <2>2. ~UserNext
    BY <2>1, UserIsShown DEF OtherInv, UserPageNames, OtherPages, AdminLists, OtherSite, Registering
  <2>3. At("codes") => AdminNext /\ AdminOK(page, site, calls) /\ CodesShown(page, calls)
    BY <2>2, ImportIsShown, SettingsAreShown DEF PageNext, At, AdminLists, AccountsNext, SettingsCards, PagesInv,
       CardsInv
  <2>4. At("machine") => SettingsNext /\ DraftOK(page, clicks)
    BY <2>2, ImportIsShown, AdminIsShown DEF PageNext, At, AdminLists, AccountsNext, PagesInv, CardsInv
  <2>5. Left.at = "away"
    BY DEF Left
  <2>6. At("codes") => CodesStay \/ page'.at = "away"
    BY <2>3, <2>5, CodesShow
  <2>7. At("machine") => DraftStays
    BY <2>4, DraftKeeps
  <2> QED BY <2>6, <2>7 DEF ShownStep, CodesStay, DraftStays, At, Machine
<1> QED
  BY <1>1, <1>2

\* Whatever is clicked, answered, lost and overtaken on any page, the invariant holds.
THEOREM PagesAlways == PageSpec => []PagesInv
<1> QED
  BY PagesStart, PagesKeep, PTL DEF PageSpec

\* Codes of any kind pay for what they were given for once: however often redemptions and registrations
\* are sent, answered, lost and raced, for any number of events.
THEOREM CodesAlwaysPayOnce == PageSpec => []CodesPayOnce
<1>1. OtherInv => CodesPayOnce
  BY DEF OtherInv, OtherSite, OtherPages, AdminLists, At, Registering, CodesPayOnce, RedeemPaysOnce,
     RegistrationsPaidFor
<1>2. PagesInv => CodesPayOnce
  BY <1>1, UserPays DEF PagesInv, ShownInv
<1> QED
  BY <1>2, PagesAlways, PTL

\* A check-in that is enabled and a restart that is due are offered once the answers are there,
\* whichever came last.
THEOREM DueAlwaysStaysOffered == PageSpec => []DueStaysOffered
<1>1. CardsInv => DueStaysOffered
  BY DEF CardsInv, MemberOK, CardOK, CardPage, CardDue, DueStaysOffered, CheckinStaysOffered, RestartStaysOffered,
     Card
<1> QED
  BY <1>1, PagesAlways, PTL DEF PagesInv

\* A job that is not finished is worked on by a runner, and asked for by one interval at most.
THEOREM ImportsAreAlwaysFollowed == PageSpec => []ImportsAreFollowed
<1>1. CardsInv => ImportsAreFollowed
  BY DEF CardsInv, ImportsOK, PollsOnce, JobsHaveRunners, ImportsAreFollowed, OnePollingTimer, ImportsEnd, Importing
<1> QED
  BY <1>1, PagesAlways, PTL DEF PagesInv

\* The register machine works while it is switched on, and begins one registration at most after it
\* was switched off.
THEOREM RegisterAlwaysFollowsSwitch == PageSpec => []RegisterFollowsSwitch
<1>1. CardsInv => RegisterFollowsSwitch
  BY DEF CardsInv, MachineOK, RegisterFollowsSwitch, RegistersOneAfterStop, RegisterRuns, Machine
<1> QED
  BY <1>1, PagesAlways, PTL DEF PagesInv

\* What is sent for an item was filled for it, on every page that has forms: fields, secrets and
\* accounts never reach another, and a secret that is not shown is neither blanked nor stored twice.
THEOREM FormsAlwaysSaveTheirOwn == PageSpec => []FormsSaveTheirOwn
<1>1. CardsInv => NoItemGetsAnothersFields
  BY DEF CardsInv, AdminOK, AdminSite, OwnFields, NoItemGetsAnothersFields
<1>2. CardsInv => SecretsStay /\ ImportsOwnAccounts
  BY DEF CardsInv, OwnInv, OwnSite, SecretsStay, ImportsOwnAccounts, Importing
<1>3. CardsInv => SettingsSecretsKept
  BY DEF CardsInv, FormOK, FormPage, FormCalls, SettingsSecretsKept, Forms, Pending
<1>4. CardsInv => AccountsActOnShown
  <2>1. \A i, problem : AccountRow(i, problem).fields = i
    BY DEF AccountRow
  <2>2. AccountsSite(site) => \A i \in DOMAIN site.items : site.items[i].fields = i
    BY <2>1 DEF AccountsSite, Fits
  <2> QED BY <2>2 DEF CardsInv, AccountsOK, AccountsPage, UpdateCalls, Importable, AccountsActOnShown, Under
<1>5. PagesInv => FormsSaveTheirOwn
  BY <1>1, <1>2, <1>3, <1>4 DEF PagesInv, FormsSaveTheirOwn
<1> QED
  BY <1>5, PagesAlways, PTL

\* No answer takes from the screen what is nowhere else: codes shown in plain text once, and settings
\* that were typed and not saved yet.
THEOREM ShownAlwaysStays == PageSpec => ShownStays
<1>1. [ShownStep]_pageVars =>
        /\ [At("codes") /\ page.result /\ page'.at = "codes" /\ page'.result => page'.generated = page.generated]_pageVars
        /\ [Machine /\ page.dirty /\ page'.at = "machine" /\ page'.dirty =>
              page'.value = page.value \/ (clicks' = clicks + 1 /\ calls' = calls)]_pageVars
  BY DEF ShownStep
<1> QED
  BY <1>1, PagesAlways, PagesShow, PTL DEF PageSpec, ShownStays, GeneratedCodesStay, RegisterDraftKept

-----------------------------------------------------------------------------
(* Waiting: the page of imports. *)

\* Every request of some is still under way, answered perhaps, among others.
Cover(ds, cs) == \A c \in cs : \E d \in ds : d.op = c.op /\ d.arg = c.arg

\* A request that is answered, or fails, stays under way until its handler goes on.
LEMMA ServedCovers ==
    ASSUME CallsOK, NEW c \in calls, NEW g, Served(c, g)
    PROVE  Cover(calls', calls) /\ CallsOK'
<1>1. calls' = (calls \ {c}) \cup {[c EXCEPT !.got = g]}
  BY DEF Served
<1>2. IsCall(c)
  BY DEF CallsOK
<1> DEFINE d == [c EXCEPT !.got = g]
<1>3. IsCall(d) /\ d.op = c.op /\ d.arg = c.arg
  BY <1>2, GotKeeps
<1> HIDE DEF d
<1>4. calls' = (calls \ {c}) \cup {d}
  BY <1>1 DEF d
<1> QED
  BY <1>3, <1>4 DEF Cover, CallsOK

\* On the page of imports, each flag waits for a request of its own kind.
ImportFlags == {"loading", "saving", "starting", "deleting", "browsing"}
ImportWaits(p, cs) ==
    /\ ImportFlags \subseteq DOMAIN p
    /\ p.loading => \E c \in cs : c.op = "connections"
    /\ p.saving => \E c \in cs : c.op = "save"
    /\ p.starting => \E c \in cs : c.op = "import"
    /\ p.deleting # Nothing => \E c \in cs : c.op = "delete" /\ c.arg = p.deleting
    /\ p.browsing # Nothing => \E c \in cs : c.op = "browse" /\ c.arg = p.browsing
SameFlags(q, p) ==
    /\ ImportFlags \subseteq DOMAIN q
    /\ q.loading = p.loading /\ q.saving = p.saving /\ q.starting = p.starting
    /\ q.deleting = p.deleting /\ q.browsing = p.browsing

\* A list that is taken over sets no flag.
LEMMA PollingSame ==
    ASSUME NEW p, NEW list, ImportFlags \subseteq DOMAIN p
    PROVE  SameFlags(Polling(p, list), p)
<1> DEFINE others == p.timers \ {p.ref}
           new == IF p.mounted /\ ShowsUnfinished(list) THEN 1 + Cardinality(others) ELSE Nothing
<1>1. Polling(p, list) = [p EXCEPT !.list = list, !.ref = new, !.timers = others \cup ({new} \ {Nothing})]
  BY DEF Polling
<1> HIDE DEF new, others
<1> QED
  BY <1>1 DEF SameFlags, ImportFlags

\* The flags of what comes after an answer: its own is cleared.
LEMMA ImportAnswerSettles ==
    ASSUME ImportWaits(page, calls), NEW c, ImportAnswered(c)
    PROVE  ImportWaits(page', calls')
<1> USE DEF ImportWaits
<1>1. \A list : SameFlags(Polling(page, list), page)
  BY PollingSame
<1>2. SameFlags(page, page)
  BY DEF SameFlags
<1>3. calls' = calls \ {c}
  BY DEF ImportAnswered, PollAnswered, ConnectionsLoaded, ConnectionSaved, ConnectionDeleted, AccountsRead,
     ImportStarted
<1> DEFINE polling == Polling(page, c.got.list)
           shown == IF c.got.ok THEN polling ELSE page
<1>4. SameFlags(polling, page) /\ SameFlags(shown, page)
  BY <1>1, <1>2
<1>5. CASE PollAnswered(c)
  <2>1. c.op = "poll"
    BY <1>5 DEF PollAnswered, Answered
  <2>2. SameFlags(page', page)
    <3>1. CASE page' = [page EXCEPT !.timers = @ \ {page.ref}, !.ref = Nothing]
      BY <3>1 DEF SameFlags, ImportFlags
    <3> QED BY <1>5, <3>1, <1>1, <1>2 DEF PollAnswered
  <2> QED BY <1>3, <2>1, <2>2 DEF SameFlags
<1>6. CASE ConnectionsLoaded(c)
  <2>1. c.op = "connections" /\ page' = [shown EXCEPT !.loading = FALSE]
    BY <1>6 DEF ConnectionsLoaded, Answered
  <2> HIDE DEF shown
  <2> QED BY <1>3, <1>4, <2>1 DEF SameFlags, ImportFlags
<1>7. CASE ConnectionDeleted(c)
  <2>1. c.op = "delete" /\ page' = [shown EXCEPT !.deleting = Nothing]
    BY <1>7 DEF ConnectionDeleted, Answered
  <2> HIDE DEF shown
  <2> QED BY <1>3, <1>4, <2>1 DEF SameFlags, ImportFlags
<1>8. CASE ConnectionSaved(c)
  <2> DEFINE closed == [polling EXCEPT !.form.open = FALSE, !.form.of = NewConnection]
             now == IF c.got.ok THEN closed ELSE page
  <2>1. c.op = "save" /\ page' = [now EXCEPT !.saving = FALSE]
    BY <1>8 DEF ConnectionSaved, Answered
  <2> HIDE DEF polling
  <2>2. SameFlags(closed, page)
    BY <1>4 DEF SameFlags, ImportFlags
  <2>3. SameFlags(now, page)
    BY <2>2, <1>2
  <2> HIDE DEF now
  <2> QED BY <1>3, <2>1, <2>3 DEF SameFlags, ImportFlags
<1>9. CASE AccountsRead(c)
  <2> DEFINE browser == IF c.got = Nothing /\ Known(c.arg) THEN Browsed(c) ELSE page.browser
  <2>1. c.op = "browse" /\ \E b : page' = [page EXCEPT !.browsing = Nothing, !.browser = b]
    BY <1>9 DEF AccountsRead, Under
  <2> QED BY <1>3, <2>1 DEF ImportFlags
<1>10. CASE ImportStarted(c)
  <2>1. c.op = "import"
    BY <1>10 DEF ImportStarted, Answered
  <2>2. CASE page' = StartFailed
    BY <1>3, <2>1, <2>2 DEF StartFailed, ImportFlags
  <2>3. ASSUME NEW list, page' = [Polling(page, list) EXCEPT !.browser.open = FALSE, !.starting = FALSE]
        PROVE  ImportWaits(page', calls')
    <3> DEFINE q == Polling(page, list)
    <3>1. SameFlags(q, page) /\ page' = [q EXCEPT !.browser.open = FALSE, !.starting = FALSE]
      BY <1>1, <2>3
    <3> HIDE DEF q
    <3> QED BY <1>3, <2>1, <3>1 DEF SameFlags, ImportFlags
  <2> QED BY <1>10, <2>2, <2>3 DEF ImportStarted
<1> QED BY <1>5, <1>6, <1>7, <1>8, <1>9, <1>10 DEF ImportAnswered

\* No flag of the page of imports outlasts its request.
LEMMA ImportsSettle ==
    ASSUME CallsOK, ImportWaits(page, calls), ImportNext
    PROVE  ImportWaits(page', calls') \/ page' = Left
<1>1. ASSUME SameFlags(page', page), Cover(calls', calls) PROVE ImportWaits(page', calls')
  BY <1>1 DEF SameFlags, Cover, ImportWaits
<1>2. ASSUME page' = page, Cover(calls', calls) PROVE ImportWaits(page', calls')
  BY <1>2 DEF Cover, ImportWaits
<1>3. ASSUME calls \subseteq calls' PROVE Cover(calls', calls)
  BY <1>3 DEF Cover
<1>4. ASSUME NEW c \in calls, ServeConnections(c) \/ ImportFails(c) PROVE ImportWaits(page', calls')
  <2>1. page' = page /\ \E g : Served(c, g)
    BY <1>4 DEF ServeConnections, ImportFails, Fails
  <2> QED BY <1>2, <2>1, ServedCovers
<1>5. CASE ImportStep
  <2>1. ASSUME page' = page, calls' = calls PROVE ImportWaits(page', calls')
    BY <1>2, <1>3, <2>1
  <2> QED BY <1>4, <1>5, <2>1, ImportAnswerSettles DEF ImportStep
<1>6. ASSUME NEW p, OpenForm(p) PROVE ImportWaits(page', calls')
  BY <1>1, <1>3, <1>6 DEF OpenForm, ImportWaits, SameFlags, ImportFlags
<1>7. CASE TypeSecret \/ CloseForm \/ ChooseAccounts \/ CloseBrowser
  BY <1>1, <1>3, <1>7 DEF TypeSecret, CloseForm, ChooseAccounts, CloseBrowser, ImportWaits, SameFlags, ImportFlags
<1>8. CASE PollTick \/ SiteRestarts \/ (\E r : RunnerDies(r))
  BY <1>2, <1>3, <1>8 DEF PollTick, SiteRestarts, RunnerDies
<1>9. ASSUME NEW p, DeleteConnection(p) PROVE ImportWaits(page', calls')
  <2>1. Asks("delete", p) \in calls' /\ calls \subseteq calls' /\ page' = [page EXCEPT !.deleting = p]
    BY <1>9 DEF DeleteConnection
  <2>2. Asks("delete", p).op = "delete" /\ Asks("delete", p).arg = p
    BY DEF Asks
  <2> QED BY <2>1, <2>2 DEF ImportWaits, ImportFlags
<1>10. ASSUME NEW p, BrowseAccounts(p) PROVE ImportWaits(page', calls')
  <2>1. Asks("browse", p) \in calls' /\ calls \subseteq calls' /\ page' = [page EXCEPT !.browsing = p]
    BY <1>10 DEF BrowseAccounts
  <2>2. Asks("browse", p).op = "browse" /\ Asks("browse", p).arg = p
    BY DEF Asks
  <2> QED BY <2>1, <2>2 DEF ImportWaits, ImportFlags
<1>11. CASE SaveConnection
  <2>1. \A arg : Asks("save", arg).op = "save"
    BY DEF Asks
  <2>2. page' = [page EXCEPT !.saving = TRUE] /\ \E arg : calls' = calls \cup {Asks("save", arg)}
    BY <1>11 DEF SaveConnection
  <2> QED BY <2>1, <2>2 DEF ImportWaits, ImportFlags
<1>12. CASE StartImport
  <2>1. \A arg : Asks("import", arg).op = "import"
    BY DEF Asks
  <2>2. page' = [page EXCEPT !.starting = TRUE] /\ \E arg : calls' = calls \cup {Asks("import", arg)}
    BY <1>12 DEF StartImport
  <2> QED BY <2>1, <2>2 DEF ImportWaits, ImportFlags
<1>13. CASE LeaveImports
  <2>1. CASE page' = [page EXCEPT !.mounted = FALSE, !.timers = {}, !.ref = Nothing] /\ UNCHANGED calls
    BY <2>1, <1>1, <1>3 DEF ImportWaits, SameFlags, ImportFlags
  <2> QED BY <1>13, <2>1 DEF LeaveImports
<1>14. CASE ReturnToImports
  <2> DEFINE q == [page EXCEPT !.mounted = TRUE, !.loading = TRUE]
  <2>l. ListCall("connections", clicks).op = "connections"
    BY DEF ListCall
  <2>1. page' = Polling(q, page.list) /\ calls \subseteq calls' /\ \E c \in calls' : c.op = "connections"
    BY <1>14, <2>l DEF ReturnToImports
  <2>2. ImportWaits(q, calls')
    BY <2>1 DEF ImportWaits, ImportFlags
  <2> HIDE DEF q
  <2>3. SameFlags(page', q)
    BY <2>1, <2>2, PollingSame DEF ImportWaits
  <2> QED BY <2>2, <2>3 DEF SameFlags, ImportWaits
<1> QED
  BY <1>4, <1>5, <1>6, <1>7, <1>8, <1>9, <1>10, <1>11, <1>12, <1>13, <1>14 DEF ImportNext, ImportConnections

\* The page of imports opens with the request that it waits for.
LEMMA ImportsWait == ASSUME ImportInit PROVE ImportWaits(page, calls)
<1>1. PICK kind \in Kinds : page = EmptyImports(kind) /\ calls = {ListCall("connections", 0)}
  BY DEF ImportInit
<1> QED
  BY <1>1 DEF EmptyImports, ListCall, ImportWaits, ImportFlags

-----------------------------------------------------------------------------
(* Waiting: the pages of a user. *)

\* Each flag of a page of a user waits for a request.
RedeemWaits(p, cs) ==
    /\ {"at", "loading", "submitting"} \subseteq DOMAIN p
    /\ p.loading => \E c \in cs : c.op = "history" /\ c.arg = "load"
    /\ p.submitting => \E c \in cs : c.op = "redeem" \/ c.arg = "redeem"
MemberWaits(p, cs) ==
    /\ {"at", "loading", "checkLoading", "claiming"} \subseteq DOMAIN p
    /\ p.loading => \E c \in cs : c.op = "member"
    /\ p.checkLoading => \E c \in cs : c.op = "status"
    /\ p.claiming => \E c \in cs : c.op = "claim" \/ c.arg = "claim"
FormWaits(p, cs) ==
    /\ {"at", "loading", "submitting", "sending"} \subseteq DOMAIN p
    /\ p.loading => \E c \in cs : c.op = "settings"
    /\ p.sending => \E c \in cs : c.op \in {"send", "mailing"}
    /\ p.submitting => \E c \in cs : c.op \in {"register", "registering"} /\ c.arg.who = Visitor
UserWaits(p, cs) ==
    /\ p.at = "redeem" => RedeemWaits(p, cs)
    /\ p.at = "membership" => MemberWaits(p, cs)
    /\ p.at = "register" => FormWaits(p, cs)

\* A page that stays as it is waits for the same.
LEMMA UserStillWaits ==
    ASSUME UserWaits(page, calls), page' = page, Cover(calls', calls)
    PROVE  UserWaits(page', calls')
<1>1. RedeemWaits(page, calls) => RedeemWaits(page, calls')
  BY DEF RedeemWaits, Cover
<1>2. MemberWaits(page, calls) => MemberWaits(page, calls')
  BY DEF MemberWaits, Cover
<1>3. FormWaits(page, calls) => FormWaits(page, calls')
  BY DEF FormWaits, Cover
<1> QED
  BY <1>1, <1>2, <1>3 DEF UserWaits

\* The page on which codes are redeemed waits for nothing that is over.
LEMMA RedeemSettles ==
    ASSUME UserInv, RedeemWaits(page, calls), At("redeem"),
           RedeemNext \/ \E c \in calls : RedeemAnswered(c) \/ RedeemLoaded(c) \/ RedeemReported(c)
    PROVE  RedeemWaits(page', calls')
<1>1. CASE RedeemRetry
  <2>1. Asks("history", "load").op = "history" /\ Asks("history", "load").arg = "load"
    BY DEF Asks
  <2>2. /\ page' = [page EXCEPT !.loading = TRUE, !.loadError = FALSE]
        /\ calls' = calls \cup {Asks("history", "load")}
    BY <1>1 DEF RedeemRetry
  <2> QED BY <2>1, <2>2 DEF RedeemWaits
<1>2. ASSUME NEW code, HandleRedeem(code) PROVE RedeemWaits(page', calls')
  <2>1. Asks("redeem", code).op = "redeem"
    BY DEF Asks
  <2>2. /\ page' = [page EXCEPT !.submitting = TRUE, !.feedback = "none"]
        /\ calls' = calls \cup {Asks("redeem", code)}
    BY <1>2 DEF HandleRedeem
  <2> QED BY <2>1, <2>2 DEF RedeemWaits
<1>3. ASSUME NEW code, CodeTaken(code) PROVE RedeemWaits(page', calls')
  BY <1>3 DEF CodeTaken, RedeemWaits
<1>4. ASSUME NEW c \in calls, RedeemLoaded(c) PROVE RedeemWaits(page', calls')
  <2>1. c.op = "history" /\ c.arg = "load" /\ calls' = calls \ {c}
    BY <1>4 DEF RedeemLoaded, Answered
  <2>2. page'.submitting = page.submitting /\ ~page'.loading /\ {"at", "loading", "submitting"} \subseteq DOMAIN page'
    BY <1>4 DEF RedeemLoaded, RedeemWaits
  <2> QED BY <2>1, <2>2 DEF RedeemWaits
<1>5. ASSUME NEW c \in calls, RedeemReported(c) PROVE RedeemWaits(page', calls')
  <2>1. c.op = "history" /\ c.arg = "redeem" /\ calls' = calls \ {c}
    BY <1>5 DEF RedeemReported, Answered
  <2>2. page'.loading = page.loading /\ ~page'.submitting /\ {"at", "loading", "submitting"} \subseteq DOMAIN page'
    BY <1>5 DEF RedeemReported, RedeemWaits
  <2> QED BY <2>1, <2>2 DEF RedeemWaits
<1>6. ASSUME NEW c \in calls, RedeemAnswered(c) PROVE RedeemWaits(page', calls')
  <2>1. c.op = "redeem"
    BY <1>6 DEF RedeemAnswered, Answered
  <2>2. CASE c.got.ok
    <3> DEFINE d == [op |-> "history", arg |-> "redeem", by |-> c.by, got |-> Nothing]
    <3>1. d.op = "history" /\ d.arg = "redeem"
      OBVIOUS
    <3>2. calls' = (calls \ {c}) \cup {d} /\ page' = [page EXCEPT !.balance = c.got.balance]
      BY <1>6, <2>2 DEF RedeemAnswered
    <3> HIDE DEF d
    <3> QED BY <2>1, <3>1, <3>2 DEF RedeemWaits
  <2>3. CASE ~c.got.ok
    BY <1>6, <2>1, <2>3 DEF RedeemAnswered, RedeemWaits
  <2> QED BY <2>2, <2>3
<1> QED
  BY <1>1, <1>2, <1>3, <1>4, <1>5, <1>6 DEF RedeemNext

\* The page of a membership waits for nothing that is over: its claim ends with the last of its loads.
LEMMA MemberSettles ==
    ASSUME UserInv, MemberWaits(page, calls), At("membership"),
           MembershipNext \/ \E c \in calls : ClaimAnswered(c) \/ MemberLoaded(c) \/ CheckinLoaded(c)
    PROVE  MemberWaits(page', calls')
<1>l. ASSUME NEW by, NEW of
      PROVE  \E d, e \in MemberLoads(by, of) : d.op = "member" /\ d.arg = of /\ e.op = "status" /\ e.arg = of
  <2>1. [op |-> "member", arg |-> of, by |-> by, got |-> Nothing] \in MemberLoads(by, of)
    BY DEF MemberLoads
  <2>2. [op |-> "status", arg |-> of, by |-> by, got |-> Nothing] \in MemberLoads(by, of)
    BY DEF MemberLoads
  <2> QED BY <2>1, <2>2
<1>1. CASE MemberRefresh
  <2>1. page' = [page EXCEPT !.loading = TRUE, !.checkLoading = TRUE, !.error = FALSE]
    BY <1>1 DEF MemberRefresh, MemberLoading
  <2>2. calls' = calls \cup MemberLoads(clicks', "page")
    BY <1>1 DEF MemberRefresh
  <2> QED BY <2>1, <2>2, <1>l DEF MemberWaits
<1>2. CASE CheckinRetry
  <2>1. Asks("status", "page").op = "status"
    BY DEF Asks
  <2>2. page' = [page EXCEPT !.checkLoading = TRUE, !.error = FALSE] /\ calls' = calls \cup {Asks("status", "page")}
    BY <1>2 DEF CheckinRetry
  <2> QED BY <2>1, <2>2 DEF MemberWaits
<1>3. CASE HandleClaimCheckin
  <2>1. Asks("claim", Nothing).op = "claim"
    BY DEF Asks
  <2>2. page' = [page EXCEPT !.claiming = TRUE] /\ calls' = calls \cup {Asks("claim", Nothing)}
    BY <1>3 DEF HandleClaimCheckin
  <2> QED BY <2>1, <2>2 DEF MemberWaits
<1>4. ASSUME NEW c \in calls, ClaimAnswered(c) PROVE MemberWaits(page', calls')
  <2>1. c.op = "claim"
    BY <1>4 DEF ClaimAnswered, Answered
  <2>2. CASE c.got.ok
    <3> DEFINE q == [page EXCEPT !.status = c.got.status]
    <3>1. page' = MemberLoading(q) /\ calls' = (calls \ {c}) \cup MemberLoads(c.by, "claim")
      BY <1>4, <2>2 DEF ClaimAnswered
    <3>2. {"at", "loading", "checkLoading", "claiming"} \subseteq DOMAIN page'
      BY <3>1 DEF MemberLoading, MemberWaits
    <3> QED BY <3>1, <3>2, <1>l DEF MemberWaits
  <2>3. CASE ~c.got.ok
    <3>1. page' = [page EXCEPT !.claiming = FALSE] /\ calls' = calls \ {c}
      BY <1>4, <2>3 DEF ClaimAnswered
    <3> QED BY <2>1, <3>1 DEF MemberWaits
  <2> QED BY <2>2, <2>3
<1>5. ASSUME NEW c \in calls, c.op \in {"member", "status"}, calls' = calls \ {c}, page.claiming, ~ClaimOver(c)
      PROVE  \E d \in calls' : d.op = "claim" \/ d.arg = "claim"
  <2>1. PICK d \in calls : d.op = "claim" \/ d.arg = "claim"
    BY <1>5 DEF MemberWaits
  <2>2. CASE d # c
    BY <1>5, <2>1, <2>2
  <2>3. CASE d = c
    BY <1>5, <2>1, <2>3 DEF ClaimOver
  <2> QED BY <2>2, <2>3
<1>6. ASSUME NEW c \in calls, MemberLoaded(c) PROVE MemberWaits(page', calls')
  <2>1. c.op = "member" /\ calls' = calls \ {c}
    BY <1>6 DEF MemberLoaded, Answered
  <2>2. /\ page'.checkLoading = page.checkLoading /\ ~page'.loading
        /\ page'.claiming = (page.claiming /\ ~ClaimOver(c))
        /\ {"at", "loading", "checkLoading", "claiming"} \subseteq DOMAIN page'
    BY <1>6 DEF MemberLoaded, MemberWaits
  <2>3. page'.claiming => \E d \in calls' : d.op = "claim" \/ d.arg = "claim"
    BY <1>5, <2>1, <2>2
  <2> QED BY <2>1, <2>2, <2>3 DEF MemberWaits
<1>7. ASSUME NEW c \in calls, CheckinLoaded(c) PROVE MemberWaits(page', calls')
  <2>1. c.op = "status" /\ calls' = calls \ {c}
    BY <1>7 DEF CheckinLoaded, Answered
  <2>2. /\ page'.loading = page.loading /\ ~page'.checkLoading
        /\ page'.claiming = (page.claiming /\ ~ClaimOver(c))
        /\ {"at", "loading", "checkLoading", "claiming"} \subseteq DOMAIN page'
    BY <1>7 DEF CheckinLoaded, MemberWaits
  <2>3. page'.claiming => \E d \in calls' : d.op = "claim" \/ d.arg = "claim"
    BY <1>5, <2>1, <2>2
  <2> QED BY <2>1, <2>2, <2>3 DEF MemberWaits
<1> QED
  BY <1>1, <1>2, <1>3, <1>4, <1>6, <1>7 DEF MembershipNext

\* A registration and its mail go on in stages, which the page waits for until the last.
LEMMA RegisterSettles ==
    ASSUME UserInv, FormWaits(page, calls), At("register"), RegisterNext \/ \E c \in calls : RegisterStep(c)
    PROVE  FormWaits(page', calls') \/ page' = Left
<1>s. ASSUME page' = page, Cover(calls', calls) PROVE FormWaits(page', calls')
  BY <1>s DEF FormWaits, Cover
<1>n. ASSUME calls \subseteq calls' PROVE Cover(calls', calls)
  BY <1>n DEF Cover
<1>c. ASSUME NEW c \in calls PROVE IsCall(c)
  BY DEF UserInv, CallsOK
<1>m. ASSUME NEW c \in calls, NEW d, d.arg = c.arg, calls' = (calls \ {c}) \cup {d}, page' = page,
             \/ c.op \in {"send", "mailing"} /\ d.op \in {"send", "mailing"}
             \/ c.op \in {"register", "registering"} /\ d.op \in {"register", "registering"}
      PROVE  FormWaits(page', calls')
  BY <1>m DEF FormWaits
<1>g. ASSUME NEW c \in calls, page' = page, NEW g, Served(c, g) PROVE FormWaits(page', calls')
  BY <1>g, <1>s, ServedCovers DEF UserInv
<1>1. ASSUME NEW op, NEW arg, calls' = calls \cup {Asks(op, arg)}
      PROVE  calls \subseteq calls' /\ \E c \in calls' : c.op = op /\ c.arg = arg
  <2>1. Asks(op, arg).op = op /\ Asks(op, arg).arg = arg
    BY DEF Asks
  <2> QED BY <1>1, <2>1
<1>2. CASE HandleReloadSettings
  <2>1. page' = [page EXCEPT !.loading = TRUE] /\ calls' = calls \cup {Asks("settings", Nothing)}
    BY <1>2 DEF HandleReloadSettings
  <2> QED BY <1>1, <2>1 DEF FormWaits
<1>3. CASE HandleSendCode
  <2>1. page' = [page EXCEPT !.sending = TRUE] /\ calls' = calls \cup {Asks("send", Visitor)}
    BY <1>3 DEF HandleSendCode
  <2> QED BY <1>1, <2>1 DEF FormWaits
<1>4. CASE HandleRegister
  <2>1. PICK code, promo :
          /\ page' = [page EXCEPT !.submitting = TRUE]
          /\ calls' = calls \cup {Asks("register", [who |-> Visitor, code |-> code, promo |-> promo])}
    BY <1>4 DEF HandleRegister
  <2>2. calls \subseteq calls' /\ \E c \in calls' : c.op = "register" /\ c.arg.who = Visitor
    BY <1>1, <2>1
  <2> QED BY <2>1, <2>2 DEF FormWaits
<1>5. CASE AnotherVisitor \/ CodesWithdrawn
  <2>1. page' = page /\ calls \subseteq calls'
    BY <1>5 DEF AnotherVisitor, CodesWithdrawn
  <2> QED BY <1>s, <1>n, <2>1
<1>6. ASSUME NEW c \in calls, ServeSettings(c) PROVE FormWaits(page', calls')
  BY <1>g, <1>6 DEF ServeSettings
<1>7. ASSUME NEW c \in calls, RegisterSettings(c) PROVE FormWaits(page', calls')
  <2>1. c.op = "settings" /\ calls' = calls \ {c}
    BY <1>7 DEF RegisterSettings, Answered
  <2>2. /\ page'.sending = page.sending /\ page'.submitting = page.submitting /\ ~page'.loading
        /\ {"at", "loading", "submitting", "sending"} \subseteq DOMAIN page'
    BY <1>7 DEF RegisterSettings, FormWaits
  <2> QED BY <2>1, <2>2 DEF FormWaits
<1>8. ASSUME NEW c \in calls, SendCodeDone(c) PROVE FormWaits(page', calls')
  BY <1>8 DEF SendCodeDone, Answered, FormWaits
<1>9. ASSUME NEW c \in calls, RegisterAnswered(c) PROVE FormWaits(page', calls') \/ page' = Left
  <2>1. c.op = "register" /\ calls' = calls \ {c}
    BY <1>9 DEF RegisterAnswered, Answered
  <2>2. CASE c.arg.who # Visitor
    BY <1>9, <2>1, <2>2 DEF RegisterAnswered, FormWaits
  <2>3. CASE c.arg.who = Visitor /\ page' = [page EXCEPT !.submitting = FALSE]
    BY <2>1, <2>3 DEF FormWaits
  <2> QED BY <1>9, <2>2, <2>3 DEF RegisterAnswered
<1>10. ASSUME NEW c \in calls, StoreCode(c) PROVE FormWaits(page', calls')
  <2>1. c.op = "send" /\ page' = page
    BY <1>10 DEF StoreCode, Pending
  <2>2. CASE Served(c, Failure)
    BY <1>g, <2>1, <2>2
  <2>3. ASSUME NEW n, calls' = (calls \ {c}) \cup {[c EXCEPT !.op = "mailing", !.got = n]} PROVE FormWaits(page', calls')
    <3> DEFINE d == [c EXCEPT !.op = "mailing", !.got = n]
    <3>1. d.op = "mailing" /\ d.arg = c.arg
      BY <1>c DEF IsCall
    <3> HIDE DEF d
    <3>2. calls' = (calls \ {c}) \cup {d}
      BY <2>3 DEF d
    <3> QED BY <1>m, <2>1, <3>1, <3>2
  <2> QED BY <1>10, <2>2, <2>3 DEF StoreCode
<1>11. ASSUME NEW c \in calls, MailCode(c) PROVE FormWaits(page', calls')
  <2>1. c.op = "mailing" /\ page' = page
    BY <1>11 DEF MailCode, Under
  <2>2. PICK n : calls' = (calls \ {c}) \cup {[c EXCEPT !.op = "send", !.got = n]}
    BY <1>11 DEF MailCode
  <2> DEFINE d == [c EXCEPT !.op = "send", !.got = n]
  <2>3. d.op = "send" /\ d.arg = c.arg
    BY <1>c DEF IsCall
  <2> HIDE DEF d
  <2>4. calls' = (calls \ {c}) \cup {d}
    BY <2>2 DEF d
  <2> QED BY <1>m, <2>1, <2>3, <2>4
<1>12. ASSUME NEW c \in calls, CheckRegistration(c) PROVE FormWaits(page', calls')
  <2>1. c.op = "register" /\ page' = page
    BY <1>12 DEF CheckRegistration, Pending
  <2>2. CASE Refused(c)
    BY <1>g, <2>1, <2>2 DEF Refused
  <2>3. CASE calls' = (calls \ {c}) \cup {[c EXCEPT !.op = "registering"]}
    <3> DEFINE d == [c EXCEPT !.op = "registering"]
    <3>1. d.op = "registering" /\ d.arg = c.arg
      BY <1>c, OpKeeps
    <3> HIDE DEF d
    <3>2. calls' = (calls \ {c}) \cup {d}
      BY <2>3 DEF d
    <3> QED BY <1>m, <2>1, <3>1, <3>2
  <2> QED BY <1>12, <2>2, <2>3 DEF CheckRegistration
<1>13. ASSUME NEW c \in calls, CommitRegistration(c) PROVE FormWaits(page', calls')
  <2>1. c.op = "registering" /\ page' = page
    BY <1>13 DEF CommitRegistration, Under
  <2>2. PICK n : calls' = (calls \ {c}) \cup {[c EXCEPT !.op = "register", !.got = n]}
    BY <1>13 DEF CommitRegistration
  <2> DEFINE d == [c EXCEPT !.op = "register", !.got = n]
  <2>3. d.op = "register" /\ d.arg = c.arg
    BY <1>c DEF IsCall
  <2> HIDE DEF d
  <2>4. calls' = (calls \ {c}) \cup {d}
    BY <2>2 DEF d
  <2> QED BY <1>m, <2>1, <2>3, <2>4
<1> QED
  BY <1>2, <1>3, <1>4, <1>5, <1>6, <1>7, <1>8, <1>9, <1>10, <1>11, <1>12, <1>13 DEF RegisterNext, RegisterStep

\* No flag of a page of a user outlasts its request.
LEMMA UsersSettle ==
    ASSUME UserInv, UserWaits(page, calls), UserNext
    PROVE  UserWaits(page', calls')
<1>l. ASSUME page' = Left PROVE UserWaits(page', calls')
  BY <1>l DEF Left, UserWaits
<1>a. "at" \in DOMAIN page /\ page.at \in {"redeem", "membership", "register", "away"} /\ CallsOK
  BY DEF UserInv, PageOK, UserPageNames
<1>r. UserInv' /\ page'.at \in {page.at, "away"}
  BY UserKeeps, UserRemains
<1>1. ASSUME NEW c \in calls, page' = page, NEW g, Served(c, g) PROVE UserWaits(page', calls')
  BY <1>1, <1>a, ServedCovers, UserStillWaits
<1>2. CASE page.at = "away"
  BY <1>2, <1>r DEF UserWaits
<1>3. CASE At("redeem")
  <2>1. RedeemWaits(page, calls)
    BY <1>3 DEF UserWaits, At
  <2>2. RedeemWaits(page', calls') => UserWaits(page', calls')
    BY <1>3, <1>r DEF UserWaits, At
  <2>3. ~MembershipNext /\ ~RegisterNext
    BY <1>3 DEF MembershipNext, MemberRefresh, CheckinRetry, HandleClaimCheckin, RegisterNext, HandleReloadSettings,
       HandleSendCode, HandleRegister, AnotherVisitor, CodesWithdrawn, RegisterForm, Event, At
  <2>4. ASSUME NEW c \in calls PROVE ~MembershipStep(c) /\ ~RegisterStep(c)
    BY <1>3, NotRedeeming DEF MembershipStep, ServeMembership, ClaimAnswered, MemberLoaded, CheckinLoaded, RegisterStep,
       ServeSettings, RegisterSettings, SendCodeDone, RegisterAnswered, StoreCode, MailCode, CheckRegistration,
       CommitRegistration, At
  <2>5. ASSUME NEW c \in calls, ServeRedeem(c) \/ ServeHistory(c) \/ UserPageFails(c) PROVE UserWaits(page', calls')
    BY <1>1, <2>5 DEF ServeRedeem, ServeHistory, UserPageFails, Fails
  <2>6. CASE LeaveUserPage
    BY <1>l, <2>6 DEF LeaveUserPage
  <2> QED BY <1>3, <2>1, <2>2, <2>3, <2>4, <2>5, <2>6, RedeemSettles DEF UserNext, UserStep, RedeemStep
<1>4. CASE At("membership")
  <2>1. MemberWaits(page, calls)
    BY <1>4 DEF UserWaits, At
  <2>2. MemberWaits(page', calls') => UserWaits(page', calls')
    BY <1>4, <1>r DEF UserWaits, At
  <2>3. ~RedeemNext /\ ~RegisterNext
    BY <1>4 DEF RedeemNext, RedeemRetry, HandleRedeem, CodeTaken, RegisterNext, HandleReloadSettings,
       HandleSendCode, HandleRegister, AnotherVisitor, CodesWithdrawn, RegisterForm, Event, At
  <2>r. ~Registering
    BY <1>4 DEF UserInv, SiteOK, Registering
  <2>4. ASSUME NEW c \in calls PROVE ~RedeemStep(c) /\ ~RegisterStep(c)
    BY <1>4, <2>r DEF RedeemStep, ServeRedeem, ServeHistory, RedeemLoaded, RedeemAnswered, RedeemReported, RegisterStep,
       ServeSettings, RegisterSettings, SendCodeDone, RegisterAnswered, StoreCode, MailCode, CheckRegistration,
       CommitRegistration, At
  <2>5. ASSUME NEW c \in calls, ServeMembership(c) \/ UserPageFails(c) PROVE UserWaits(page', calls')
    BY <1>1, <2>5 DEF ServeMembership, UserPageFails, Fails
  <2>6. CASE LeaveUserPage
    BY <1>l, <2>6 DEF LeaveUserPage
  <2> QED BY <1>4, <2>1, <2>2, <2>3, <2>4, <2>5, <2>6, MemberSettles DEF UserNext, UserStep, MembershipStep
<1>5. CASE At("register")
  <2>1. FormWaits(page, calls)
    BY <1>5 DEF UserWaits, At
  <2>2. FormWaits(page', calls') => UserWaits(page', calls')
    BY <1>5, <1>r DEF UserWaits, At
  <2>3. ~RedeemNext /\ ~MembershipNext
    BY <1>5 DEF RedeemNext, RedeemRetry, HandleRedeem, CodeTaken, MembershipNext, MemberRefresh, CheckinRetry,
       HandleClaimCheckin, Event, At
  <2>4. ASSUME NEW c \in calls PROVE ~RedeemStep(c) /\ ~MembershipStep(c)
    BY <1>5 DEF RedeemStep, ServeRedeem, ServeHistory, RedeemLoaded, RedeemAnswered, RedeemReported, MembershipStep,
       ServeMembership, ClaimAnswered, MemberLoaded, CheckinLoaded, At
  <2>5. ASSUME NEW c \in calls, UserPageFails(c) PROVE UserWaits(page', calls')
    BY <1>1, <2>5 DEF UserPageFails, Fails
  <2>6. ~LeaveUserPage
    BY <1>5 DEF LeaveUserPage, At
  <2> QED BY <1>5, <1>l, <2>1, <2>2, <2>3, <2>4, <2>5, <2>6, RegisterSettles DEF UserNext, UserStep
<1> QED
  BY <1>a, <1>2, <1>3, <1>4, <1>5 DEF At

\* The pages of a user open with the requests that they wait for.
LEMMA UsersWait == ASSUME UserInit PROVE UserWaits(page, calls)
<1>1. CASE RedeemInit
  BY <1>1 DEF RedeemInit, EmptyRedeem, UserWaits, RedeemWaits
<1>2. CASE MemberInit
  <2>1. [op |-> "member", arg |-> "page", by |-> 0, got |-> Nothing] \in calls
    BY <1>2 DEF MemberInit, MemberLoads
  <2>2. [op |-> "status", arg |-> "page", by |-> 0, got |-> Nothing] \in calls
    BY <1>2 DEF MemberInit, MemberLoads
  <2> QED BY <1>2, <2>1, <2>2 DEF MemberInit, EmptyMembership, UserWaits, MemberWaits
<1>3. CASE RegisterInit
  BY <1>3 DEF RegisterInit, EmptyRegister, UserWaits, FormWaits
<1> QED
  BY <1>1, <1>2, <1>3 DEF UserInit

-----------------------------------------------------------------------------
(* Waiting: the register machine, the forms and the update card. *)

\* Each flag of the register machine, of the forms and of the update card waits for a request of its
\* own kind; the loads of the machine's settings are those of its visits.
MachineWaits(p, cs) ==
    /\ {"at", "loading", "saving"} \subseteq DOMAIN p
    /\ p.loading => \E c \in cs : c.op = "machine" /\ c.arg = "shown"
    /\ p.saving => \E c \in cs : c.op # "machine"
    /\ \A c \in cs : IsCall(c) /\ (c.op = "machine" => c.by = 0)
FormsWait(p, cs) ==
    /\ {"at", "loading", "saving", "testing"} \subseteq DOMAIN p
    /\ p.loading => \E c \in cs : c.op = "form"
    /\ p.saving => \E c \in cs : c.op = "saveForm"
    /\ p.testing => \E c \in cs : c.op = "test"
CardWaits(p, cs) ==
    /\ {"at", "loading", "refreshing", "updating", "rolling", "restarting"} \subseteq DOMAIN p
    /\ p.loading \/ p.refreshing => \E c \in cs : c.op = "status"
    /\ p.updating => \E c \in cs : c.op = "update" \/ (c.op = "status" /\ c.arg = "updated")
    /\ p.rolling => \E c \in cs : c.op = "rollback"
    /\ p.restarting => \E c \in cs : c.op = "restart"

\* The page of the register machine waits for nothing that is over.
LEMMA MachineSettles ==
    ASSUME MachineWaits(page, calls), At("machine"), SettingsNext
    PROVE  MachineWaits(page', calls')
<1>1. ~Forms /\ ~Card
  BY DEF Forms, Card, At
<1> DEFINE Fields == {"at", "loading", "saving"} \subseteq DOMAIN page'
           Fine(c) == IsCall(c) /\ (c.op = "machine" => c.by = 0)
<1>f. \A c \in calls : Fine(c)
  BY DEF MachineWaits
<1>s. ASSUME Fields, page'.loading = page.loading, page'.saving = page.saving, calls' = calls
      PROVE  MachineWaits(page', calls')
  BY <1>s DEF MachineWaits
<1>2. ASSUME NEW c \in calls, page' = page, NEW g, Served(c, g) PROVE MachineWaits(page', calls')
  <2> DEFINE d == [c EXCEPT !.got = g]
  <2>1. Fine(d) /\ d.op = c.op /\ d.arg = c.arg
    BY <1>f, GotKeeps
  <2>2. calls' = (calls \ {c}) \cup {d}
    BY <1>2 DEF Served
  <2> HIDE DEF d
  <2> QED BY <1>2, <1>f, <2>1, <2>2 DEF MachineWaits
<1>3. ASSUME NEW arg, NEW d, d = Load("machine", arg) PROVE Fine(d) /\ d.op = "machine" /\ d.arg = arg
  BY <1>3 DEF Load, IsCall
<1>4. ASSUME NEW op, NEW arg, NEW d, d = Asks(op, arg), op # "machine" PROVE Fine(d) /\ d.op = op
  BY <1>4 DEF Asks, IsCall
<1>5. ASSUME NEW c \in calls, RegisterLoaded(c) PROVE MachineWaits(page', calls')
  <2> DEFINE silent == c.arg = "silent"
             merged == MergeRegisterConfig(c.got, silent /\ page.dirty)
             shown == IF c.got.ok THEN merged ELSE page
  <2>1. {"at", "loading", "saving"} \subseteq DOMAIN merged /\ merged.loading = page.loading /\ merged.saving = page.saving
    BY DEF MergeRegisterConfig, MachineWaits
  <2> HIDE DEF merged
  <2>2. {"at", "loading", "saving"} \subseteq DOMAIN shown /\ shown.loading = page.loading /\ shown.saving = page.saving
    BY <2>1 DEF MachineWaits
  <2>3. /\ c.op = "machine" /\ calls' = calls \ {c}
        /\ page' = IF silent THEN shown ELSE [shown EXCEPT !.dirty = @ /\ ~c.got.ok, !.loading = FALSE]
    BY <1>5 DEF RegisterLoaded, Answered, merged
  <2> HIDE DEF shown
  <2>4. CASE silent
    BY <1>f, <2>2, <2>3, <2>4 DEF MachineWaits
  <2>5. CASE ~silent
    <3>1. page' = [shown EXCEPT !.dirty = @ /\ ~c.got.ok, !.loading = FALSE]
      BY <2>3, <2>5
    <3> HIDE DEF silent
    <3>2. Fields /\ ~page'.loading /\ page'.saving = page.saving
      BY <2>2, <3>1
    <3> QED BY <1>f, <2>3, <3>2 DEF MachineWaits
  <2> QED BY <2>4, <2>5
<1>6. ASSUME NEW c \in calls, StartRegister(c) PROVE MachineWaits(page', calls')
  <2>1. c.op = "keepAndStart"
    BY <1>6 DEF StartRegister, Answered
  <2>2. CASE c.got.ok
    <3> DEFINE d == [c EXCEPT !.op = "start", !.got = Nothing]
    <3>0. IsCall(c)
      BY <1>f
    <3> DEFINE e == [c EXCEPT !.op = "start"]
               f == [e EXCEPT !.got = Nothing]
    <3>3. IsCall(e) /\ e.op = "start"
      BY <3>0, OpKeeps
    <3>4. d = f
      OBVIOUS
    <3> HIDE DEF d, e
    <3>5. IsCall(f) /\ f.op = "start"
      BY <3>3, GotKeeps
    <3> HIDE DEF f
    <3>1. Fine(d) /\ d.op = "start"
      BY <3>4, <3>5
    <3>2. calls' = (calls \ {c}) \cup {d} /\ page' = page
      BY <1>6, <2>2 DEF StartRegister, d
    <3> QED BY <1>f, <2>1, <3>1, <3>2 DEF MachineWaits
  <2>3. CASE ~c.got.ok
    <3>1. calls' = calls \ {c} /\ page' = [page EXCEPT !.saving = FALSE]
      BY <1>6, <2>3 DEF StartRegister, NotStarted
    <3> QED BY <1>f, <2>1, <3>1 DEF MachineWaits
  <2> QED BY <2>2, <2>3
<1>7. ASSUME NEW c \in calls, RegisterAsked(c) PROVE MachineWaits(page', calls')
  <2>1. c.op # "machine" /\ calls' = calls \ {c}
    BY <1>7 DEF RegisterAsked, Answered
  <2> DEFINE shown == IF c.got.ok THEN [page EXCEPT !.value = c.got.value, !.enabled = c.got.enabled, !.dirty = FALSE]
                      ELSE page
  <2>2. {"at", "loading", "saving"} \subseteq DOMAIN shown /\ shown.loading = page.loading
    BY DEF MachineWaits
  <2>3. page' = [shown EXCEPT !.saving = FALSE]
    BY <1>7 DEF RegisterAsked
  <2> HIDE DEF shown
  <2>4. Fields /\ page'.loading = page.loading /\ ~page'.saving
    BY <2>2, <2>3
  <2> QED BY <1>f, <2>1, <2>4 DEF MachineWaits
<1>8. ASSUME NEW op, op # "machine", AskMachine(op) PROVE MachineWaits(page', calls')
  <2> DEFINE d == Asks(op, page.value)
  <2>1. Fine(d) /\ d.op = op
    BY <1>4, <1>8
  <2>2. calls' = calls \cup {d} /\ page' = [page EXCEPT !.saving = TRUE]
    BY <1>8 DEF AskMachine
  <2> HIDE DEF d
  <2> QED BY <1>f, <1>8, <2>1, <2>2 DEF MachineWaits
<1>9. CASE SaveRegister \/ ResetRegister \/ ToggleRegister
  <2>1. ToggleRegister => AskMachine("stop") \/ AskMachine("keepAndStart")
    BY DEF ToggleRegister
  <2> QED BY <1>8, <1>9, <2>1 DEF SaveRegister, ResetRegister
<1>10. CASE EditRegister \/ LeaveMachine
  BY <1>s, <1>10 DEF EditRegister, LeaveMachine, MachineWaits
<1>11. CASE RegisterPoll
  <2> DEFINE d == Load("machine", "silent")
  <2>1. Fine(d) /\ calls' = calls \cup {d} /\ page' = page
    BY <1>3, <1>11 DEF RegisterPoll
  <2> HIDE DEF d
  <2> QED BY <1>f, <2>1 DEF MachineWaits
<1>12. CASE ReturnToMachine
  <2> DEFINE d == Load("machine", "shown")
  <2>1. Fine(d) /\ d.op = "machine" /\ d.arg = "shown"
    BY <1>3
  <2>2. calls' = calls \cup {d} /\ page' = [page EXCEPT !.mounted = TRUE, !.loading = TRUE]
    BY <1>12 DEF ReturnToMachine
  <2> HIDE DEF d
  <2> QED BY <1>f, <2>1, <2>2 DEF MachineWaits
<1>13. ASSUME page' = page, calls' = calls PROVE MachineWaits(page', calls')
  BY <1>13
<1>14. CASE RunnerAsks \/ RunnerSubmits \/ RunnerWaits \/ RunnerLeaves \/ RunnerGone \/ RunnerFails \/ MachineRestarts \/ AnotherSwitches
  BY <1>13, <1>14 DEF RunnerAsks, RunnerSubmits, RunnerWaits, RunnerLeaves, RunnerGone, RunnerFails, RunnerAt, MachineRestarts,
     AnotherSwitches
<1>15. ASSUME NEW c \in calls, ServeMachine(c) \/ SettingsFails(c) PROVE MachineWaits(page', calls')
  BY <1>2, <1>15 DEF ServeMachine, SettingsFails, Fails
<1>16. ASSUME NEW c PROVE /\ ~FormLoaded(c) /\ ~FormSaved(c) /\ ~ProxyTested(c) /\ ~ServeForm(c) /\ ~StatusLoaded(c)
                          /\ ~UpdateAnswered(c) /\ ~RollbackAnswered(c) /\ ~RestartAnswered(c) /\ ~ServeCard(c)
                          /\ ~CardFails(c)
  BY <1>1 DEF FormLoaded, FormSaved, ProxyTested, ServeForm, StatusLoaded, UpdateAnswered, RollbackAnswered,
     RestartAnswered, ServeCard, CardFails
<1>17. /\ ~EditForm /\ ~SaveForm /\ ~TestProxy /\ ~LeaveForms /\ ~ReturnToForms /\ ~AnotherSaves
       /\ ~RefreshStatus /\ ~HandleUpdate /\ ~HandleRollback /\ ~HandleRestart
  BY <1>1 DEF EditForm, SaveForm, TestProxy, LeaveForms, ReturnToForms, AnotherSaves, FormShown, RefreshStatus,
     HandleUpdate, HandleRollback, HandleRestart, CardShown
<1> HIDE DEF Fields, Fine
<1> QED
  BY <1>5, <1>6, <1>7, <1>9, <1>10, <1>11, <1>12, <1>14, <1>15, <1>16, <1>17 DEF SettingsNext, SettingsStep

\* The cards with a form wait for nothing that is over.
LEMMA FormsSettle ==
    ASSUME CallsOK, FormsWait(page, calls), At("forms"), SettingsNext
    PROVE  FormsWait(page', calls') \/ page' = Left
<1>1. ~Machine /\ ~Card
  BY DEF Machine, Card, At
<1> DEFINE Fields(p) == {"at", "loading", "saving", "testing"} \subseteq DOMAIN p
<1>w. Fields(page)
  BY DEF FormsWait
<1>2. ASSUME page' = page, Cover(calls', calls) PROVE FormsWait(page', calls')
  BY <1>2 DEF FormsWait, Cover
<1>3. ASSUME NEW c \in calls, ServeForm(c) \/ SettingsFails(c) PROVE FormsWait(page', calls')
  <2>1. page' = page /\ \E g : Served(c, g)
    BY <1>3 DEF ServeForm, SettingsFails, Fails
  <2> QED BY <1>2, <2>1, ServedCovers
<1>4. ASSUME NEW got PROVE /\ Fields(Fills(got)) /\ Fills(got).loading = page.loading
                           /\ Fills(got).saving = page.saving /\ Fills(got).testing = page.testing
  BY <1>w DEF Fills
<1>5. ASSUME NEW c \in calls, FormLoaded(c) PROVE FormsWait(page', calls')
  <2> DEFINE shown == IF c.got.ok THEN Fills(c.got) ELSE page
  <2>1. Fields(shown) /\ shown.saving = page.saving /\ shown.testing = page.testing
    BY <1>4, <1>w
  <2>2. c.op = "form" /\ calls' = calls \ {c} /\ page' = [shown EXCEPT !.loading = FALSE]
    BY <1>5 DEF FormLoaded, Answered
  <2> HIDE DEF shown
  <2> QED BY <2>1, <2>2 DEF FormsWait
<1>6. ASSUME NEW c \in calls, FormSaved(c) PROVE FormsWait(page', calls')
  <2> DEFINE shown == IF c.got.ok THEN Fills(c.got) ELSE page
  <2>1. Fields(shown) /\ shown.loading = page.loading /\ shown.testing = page.testing
    BY <1>4, <1>w
  <2>2. c.op = "saveForm" /\ calls' = calls \ {c} /\ page' = [shown EXCEPT !.saving = FALSE]
    BY <1>6 DEF FormSaved, Answered
  <2> HIDE DEF shown
  <2> QED BY <2>1, <2>2 DEF FormsWait
<1>7. ASSUME NEW c \in calls, ProxyTested(c) PROVE FormsWait(page', calls')
  BY <1>7 DEF ProxyTested, Answered, FormsWait
<1>8. CASE EditForm
  BY <1>8 DEF EditForm, FormsWait
<1>9. CASE SaveForm
  <2>1. \A arg : Asks("saveForm", arg).op = "saveForm"
    BY DEF Asks
  <2>2. page' = [page EXCEPT !.saving = TRUE] /\ \E arg : calls' = calls \cup {Asks("saveForm", arg)}
    BY <1>9 DEF SaveForm
  <2> QED BY <2>1, <2>2 DEF FormsWait
<1>10. CASE TestProxy
  <2>1. \A arg : Asks("test", arg).op = "test"
    BY DEF Asks
  <2>2. page' = [page EXCEPT !.testing = TRUE] /\ \E arg : calls' = calls \cup {Asks("test", arg)}
    BY <1>10 DEF TestProxy
  <2> QED BY <2>1, <2>2 DEF FormsWait
<1>11. CASE LeaveForms
  <2>1. CASE page' = [page EXCEPT !.mounted = FALSE, !.testing = FALSE] /\ calls' = calls \ Under("test")
    BY <2>1 DEF FormsWait, Under
  <2> QED BY <1>11, <2>1 DEF LeaveForms
<1>12. CASE ReturnToForms
  <2>1. Load("form", Nothing).op = "form"
    BY DEF Load
  <2>2. page' = [page EXCEPT !.mounted = TRUE, !.loading = TRUE] /\ calls' = calls \cup {Load("form", Nothing)}
    BY <1>12 DEF ReturnToForms
  <2> QED BY <2>1, <2>2 DEF FormsWait
<1>13. CASE AnotherSaves
  BY <1>13 DEF AnotherSaves
<1>14. ASSUME NEW c PROVE /\ ~RegisterLoaded(c) /\ ~StartRegister(c) /\ ~RegisterAsked(c) /\ ~ServeMachine(c)
                          /\ ~StatusLoaded(c) /\ ~UpdateAnswered(c) /\ ~RollbackAnswered(c) /\ ~RestartAnswered(c)
                          /\ ~ServeCard(c) /\ ~CardFails(c)
  BY <1>1 DEF RegisterLoaded, StartRegister, RegisterAsked, ServeMachine, StatusLoaded, UpdateAnswered,
     RollbackAnswered, RestartAnswered, ServeCard, CardFails
<1>15. /\ ~RunnerAsks /\ ~RunnerSubmits /\ ~RunnerWaits /\ ~RunnerLeaves /\ ~RunnerGone /\ ~RunnerFails /\ ~RegisterPoll
       /\ ~EditRegister /\ ~SaveRegister /\ ~ResetRegister /\ ~ToggleRegister /\ ~LeaveMachine /\ ~ReturnToMachine
       /\ ~MachineRestarts /\ ~AnotherSwitches
       /\ ~RefreshStatus /\ ~HandleUpdate /\ ~HandleRollback /\ ~HandleRestart
  BY <1>1 DEF RunnerAsks, RunnerSubmits, RunnerWaits, RunnerLeaves, RunnerGone, RunnerFails, RunnerAt, RegisterPoll, EditRegister,
     SaveRegister, ResetRegister, ToggleRegister, AskMachine, Editable, Stopped, LeaveMachine, ReturnToMachine,
     MachineRestarts, AnotherSwitches, RefreshStatus, HandleUpdate, HandleRollback, HandleRestart, CardShown
<1> QED
  BY <1>3, <1>5, <1>6, <1>7, <1>8, <1>9, <1>10, <1>11, <1>12, <1>13, <1>14, <1>15 DEF SettingsNext, SettingsStep

\* The update card waits for nothing that is over: an update ends with the check that follows it.
LEMMA CardSettles ==
    ASSUME CallsOK, CardWaits(page, calls), At("update"), SettingsNext
    PROVE  CardWaits(page', calls')
<1>1. ~Machine /\ ~Forms
  BY DEF Machine, Forms, At
<1>2. ASSUME page' = page, Cover(calls', calls) PROVE CardWaits(page', calls')
  BY <1>2 DEF CardWaits, Cover
<1>3. ASSUME NEW c \in calls, ServeCard(c) \/ CardFails(c) PROVE CardWaits(page', calls')
  <2>1. page' = page /\ \E g : Served(c, g)
    BY <1>3 DEF ServeCard, CardFails
  <2> QED BY <1>2, <2>1, ServedCovers
<1>4. ASSUME NEW c \in calls, StatusLoaded(c) PROVE CardWaits(page', calls')
  <2>1. PICK status :
          page' = [page EXCEPT !.status = status, !.loading = FALSE, !.refreshing = FALSE,
                               !.updating = page.updating /\ c.arg # "updated"]
    BY <1>4 DEF StatusLoaded, CardWaits
  <2>2. c.op = "status" /\ calls' = calls \ {c}
    BY <1>4 DEF StatusLoaded, Answered
  <2>3. /\ {"at", "loading", "refreshing", "updating", "rolling", "restarting"} \subseteq DOMAIN page'
        /\ ~page'.loading /\ ~page'.refreshing /\ (page'.updating => page.updating /\ c.arg # "updated")
        /\ page'.rolling = page.rolling /\ page'.restarting = page.restarting
    BY <2>1 DEF CardWaits
  <2> QED BY <2>2, <2>3 DEF CardWaits
<1>5. ASSUME NEW c \in calls, UpdateAnswered(c) PROVE CardWaits(page', calls')
  <2>1. c.op = "update"
    BY <1>5 DEF UpdateAnswered, Answered
  <2>2. CASE c.got.ok /\ ~c.got.needRestart
    <3> DEFINE d == [c EXCEPT !.op = "status", !.arg = "updated", !.got = Nothing]
    <3>1. d.op = "status" /\ d.arg = "updated"
      BY DEF CallsOK, IsCall
    <3>2. calls' = (calls \ {c}) \cup {d} /\ page' = [page EXCEPT !.needsRestart = FALSE, !.refreshing = TRUE]
      BY <1>5, <2>2 DEF UpdateAnswered
    <3> HIDE DEF d
    <3> QED BY <2>1, <3>1, <3>2 DEF CardWaits
  <2>3. CASE ~(c.got.ok /\ ~c.got.needRestart)
    <3>1. calls' = calls \ {c} /\ page' = [page EXCEPT !.updating = FALSE, !.needsRestart = @ \/ c.got.ok]
      BY <1>5, <2>3 DEF UpdateAnswered
    <3> QED BY <2>1, <3>1 DEF CardWaits
  <2> QED BY <2>2, <2>3
<1>6. ASSUME NEW c \in calls, RollbackAnswered(c) PROVE CardWaits(page', calls')
  BY <1>6 DEF RollbackAnswered, RollbackDone, Answered, CardWaits
<1>7. ASSUME NEW c \in calls, RestartAnswered(c) PROVE CardWaits(page', calls')
  BY <1>7 DEF RestartAnswered, Answered, CardWaits
<1>8. ASSUME NEW op, calls' = calls \cup {Asks(op, Nothing)}
      PROVE  calls \subseteq calls' /\ \E c \in calls' : c.op = op
  <2>1. Asks(op, Nothing).op = op
    BY DEF Asks
  <2> QED BY <1>8, <2>1
<1>9. CASE RefreshStatus
  BY <1>8, <1>9 DEF RefreshStatus, CardWaits
<1>10. CASE HandleUpdate
  BY <1>8, <1>10 DEF HandleUpdate, CardWaits
<1>11. CASE HandleRollback
  BY <1>8, <1>11 DEF HandleRollback, CardWaits
<1>12. CASE HandleRestart
  BY <1>8, <1>12 DEF HandleRestart, CardWaits
<1>13. ASSUME NEW c PROVE /\ ~RegisterLoaded(c) /\ ~StartRegister(c) /\ ~RegisterAsked(c) /\ ~ServeMachine(c)
                          /\ ~FormLoaded(c) /\ ~FormSaved(c) /\ ~ProxyTested(c) /\ ~ServeForm(c) /\ ~SettingsFails(c)
  BY <1>1 DEF RegisterLoaded, StartRegister, RegisterAsked, ServeMachine, FormLoaded, FormSaved, ProxyTested, ServeForm,
     SettingsFails
<1>14. /\ ~RunnerAsks /\ ~RunnerSubmits /\ ~RunnerWaits /\ ~RunnerLeaves /\ ~RunnerGone /\ ~RunnerFails /\ ~RegisterPoll
       /\ ~EditRegister /\ ~SaveRegister /\ ~ResetRegister /\ ~ToggleRegister /\ ~LeaveMachine /\ ~ReturnToMachine
       /\ ~MachineRestarts /\ ~AnotherSwitches
       /\ ~EditForm /\ ~SaveForm /\ ~TestProxy /\ ~LeaveForms /\ ~ReturnToForms /\ ~AnotherSaves
  BY <1>1 DEF RunnerAsks, RunnerSubmits, RunnerWaits, RunnerLeaves, RunnerGone, RunnerFails, RunnerAt, RegisterPoll, EditRegister,
     SaveRegister, ResetRegister, ToggleRegister, AskMachine, Editable, Stopped, LeaveMachine, ReturnToMachine,
     MachineRestarts, AnotherSwitches, EditForm, SaveForm, TestProxy, LeaveForms, ReturnToForms, AnotherSaves, FormShown
<1> QED
  BY <1>3, <1>4, <1>5, <1>6, <1>7, <1>9, <1>10, <1>11, <1>12, <1>13, <1>14 DEF SettingsNext, SettingsStep

\* The three open with the requests that they wait for.
LEMMA SettingsWait ==
    ASSUME SettingsInit
    PROVE  /\ At("machine") => MachineWaits(page, calls)
           /\ At("forms") => FormsWait(page, calls)
           /\ At("update") => CardWaits(page, calls)
<1>1. \A op, arg : LET d == Load(op, arg) IN IsCall(d) /\ d.op = op /\ d.arg = arg /\ d.by = 0
  BY DEF Load, IsCall
<1>2. CASE MachineInit
  BY <1>1, <1>2 DEF MachineInit, EmptyMachine, MachineWaits, At
<1>3. CASE FormsInit
  BY <1>1, <1>3 DEF FormsInit, EmptyForm, FormsWait, At
<1>4. CASE CardInit
  BY <1>1, <1>4 DEF CardInit, EmptyCard, CardWaits, At
<1> QED
  BY <1>2, <1>3, <1>4 DEF SettingsInit

-----------------------------------------------------------------------------
(* Waiting: the administration lists and the page of accounts. *)

\* Requests that have a flag, and their flags.
Flagged(list, c) == IF list = "accounts" THEN c.op # "read" ELSE c.op \in {"create", "update", "delete"}
Flag(list, op) == IF list = "plans" THEN "submit" ELSE op

\* A flag is set while a request of its kind is under way, of which there is one at most.
FlagsSet(list, busy, cs) ==
    /\ IsFiniteSet(cs)
    /\ \A f : f \in busy <=> \E c \in cs : Flagged(list, c) /\ Flag(list, c.op) = f
    /\ \A c, d \in cs : Flagged(list, c) /\ Flagged(list, d) /\ Flag(list, c.op) = Flag(list, d.op) => c = d

\* A request is made with its flag, which was not set.
LEMMA FlagsAsked ==
    ASSUME NEW list, NEW busy, NEW cs, FlagsSet(list, busy, cs), NEW d, Flagged(list, d), Flag(list, d.op) \notin busy
    PROVE  FlagsSet(list, busy \cup {Flag(list, d.op)}, cs \cup {d})
<1>1. IsFiniteSet(cs \cup {d})
  BY FS_AddElement DEF FlagsSet
<1>2. \A c \in cs : Flagged(list, c) => Flag(list, c.op) # Flag(list, d.op)
  BY DEF FlagsSet
<1> QED
  BY <1>1, <1>2 DEF FlagsSet

\* Its handler ends with the flag.
LEMMA FlagsDone ==
    ASSUME NEW list, NEW busy, NEW cs, FlagsSet(list, busy, cs), NEW c \in cs, Flagged(list, c)
    PROVE  FlagsSet(list, busy \ {Flag(list, c.op)}, cs \ {c})
<1>1. IsFiniteSet(cs \ {c})
  BY FS_RemoveElement DEF FlagsSet
<1>2. \A d \in cs \ {c} : Flagged(list, d) => Flag(list, c.op) # Flag(list, d.op)
  BY DEF FlagsSet
<1> QED
  BY <1>1, <1>2 DEF FlagsSet

\* What has no flag sets none and resets none.
LEMMA FlagsLeft ==
    ASSUME NEW list, NEW busy, NEW cs, FlagsSet(list, busy, cs), NEW c, ~Flagged(list, c)
    PROVE  FlagsSet(list, busy, cs \ {c}) /\ FlagsSet(list, busy, cs \cup {c})
<1>1. IsFiniteSet(cs \ {c}) /\ IsFiniteSet(cs \cup {c})
  BY FS_RemoveElement, FS_AddElement DEF FlagsSet
<1> QED
  BY <1>1 DEF FlagsSet

\* An answer leaves the flags to the handler.
LEMMA FlagsAnswered ==
    ASSUME NEW list, NEW busy, NEW cs, FlagsSet(list, busy, cs), NEW c \in cs, NEW d, d.op = c.op
    PROVE  FlagsSet(list, busy, (cs \ {c}) \cup {d})
<1>1. IsFiniteSet((cs \ {c}) \cup {d})
  BY FS_RemoveElement, FS_AddElement DEF FlagsSet
<1>2. Flagged(list, d) <=> Flagged(list, c)
  BY DEF Flagged
<1> QED
  BY <1>1, <1>2 DEF FlagsSet

\* There are as many flags as requests that have one.
LEMMA FlagsCount ==
    ASSUME NEW list, NEW busy, NEW cs, FlagsSet(list, busy, cs)
    PROVE  Cardinality(busy) = Cardinality({c \in cs : Flagged(list, c)})
<1> DEFINE S == {c \in cs : Flagged(list, c)}
           F == [c \in S |-> Flag(list, c.op)]
<1>1. IsFiniteSet(S)
  BY FS_Subset DEF FlagsSet
<1>2. F \in [S -> busy]
  BY DEF FlagsSet
<1>3. \A a, b \in S : F[a] = F[b] => a = b
  BY DEF FlagsSet
<1>4. \A f \in busy : \E c \in S : F[c] = f
  BY DEF FlagsSet
<1>5. F \in Bijection(S, busy)
  BY <1>2, <1>3, <1>4, Fun_IsBij
<1>6. ExistsBijection(S, busy)
  BY <1>5 DEF ExistsBijection
<1> QED
  BY <1>1, <1>6, FS_Bijection

-----------------------------------------------------------------------------
\* The flags of an administration list; its spinner, and the spinner of a row.
AdminWaits(p, cs) ==
    /\ {"at", "loading", "pending", "busy"} \subseteq DOMAIN p
    /\ p.loading => \E c \in cs : c.op \in {"load", "plans"}
    /\ p.pending # NoItem => \E c \in cs : c.op \in {"update", "toggle", "delete"} /\ c.arg.id = p.pending
    /\ FlagsSet(p.at, p.busy, cs)
SameRows(q, p) ==
    /\ {"at", "loading", "pending", "busy"} \subseteq DOMAIN q
    /\ q.at = p.at /\ q.loading = p.loading /\ q.pending = p.pending /\ q.busy = p.busy

\* What is loaded, opened and switched is waited for.
LEMMA AdminMoves ==
    ASSUME AdminWaits(page, calls), page.at \in AdminLists, NEW l,
           \/ LoadList(l) \/ OpenCreate(l) \/ ClosesDialog(l)
           \/ \E i : EditsItem(i) \/ Toggles(l, i) \/ ConfirmsItem(i)
    PROVE  AdminWaits(page', calls')
<1>s. ASSUME SameRows(page', page), calls' = calls PROVE AdminWaits(page', calls')
  BY <1>s DEF SameRows, AdminWaits
<1>n. ~Flagged(page.at, [op |-> "load"]) /\ page.at # "accounts"
  BY DEF Flagged, AdminLists
<1>1. CASE LoadList(l)
  <2> DEFINE d == Asks("load", Nothing)
  <2>1. d.op = "load"
    BY DEF Asks
  <2>2. calls' = calls \cup {d} /\ page' = [page EXCEPT !.loading = TRUE]
    BY <1>1 DEF LoadList
  <2> HIDE DEF d
  <2>3. ~Flagged(page.at, d)
    BY <1>n, <2>1 DEF Flagged
  <2>4. FlagsSet(page.at, page.busy, calls')
    BY <2>2, <2>3, FlagsLeft DEF AdminWaits
  <2> QED BY <2>1, <2>2, <2>4 DEF AdminWaits
<1>2. CASE OpenCreate(l)
  BY <1>s, <1>2 DEF OpenCreate, SameRows, AdminWaits
<1>3. CASE ClosesDialog(l)
  BY <1>s, <1>3 DEF ClosesDialog, SameRows, AdminWaits
<1>4. ASSUME NEW i, EditsItem(i) PROVE AdminWaits(page', calls')
  BY <1>s, <1>4 DEF EditsItem, SameRows, AdminWaits
<1>5. ASSUME NEW i, Toggles(l, i) PROVE AdminWaits(page', calls')
  <2> DEFINE d == Asks("toggle", [id |-> i, on |-> ~page.items[i].on])
  <2>1. d.op = "toggle" /\ d.arg.id = i
    BY DEF Asks
  <2>2. calls' = calls \cup {d} /\ page' = [page EXCEPT !.pending = i]
    BY <1>5 DEF Toggles
  <2> HIDE DEF d
  <2>3. ~Flagged(page.at, d)
    BY <1>n, <2>1 DEF Flagged
  <2>4. FlagsSet(page.at, page.busy, calls')
    BY <2>2, <2>3, FlagsLeft DEF AdminWaits
  <2> QED BY <2>1, <2>2, <2>4 DEF AdminWaits
<1>6. ASSUME NEW i, ConfirmsItem(i) PROVE AdminWaits(page', calls')
  BY <1>s, <1>6 DEF ConfirmsItem, SameRows, AdminWaits
<1> QED
  BY <1>1, <1>2, <1>3, <1>4, <1>5, <1>6

\* So is what a dialog submits.
LEMMA SubmitsWait ==
    ASSUME AdminWaits(page, calls), page.at \in AdminLists, NEW op \in {"create", "update", "delete"}, NEW pending, NEW arg,
           Submits(page.at, Flag(page.at, op), op, pending, arg),
           pending # NoItem => op # "create" /\ arg.id = pending
    PROVE  AdminWaits(page', calls')
<1> DEFINE d == Asks(op, arg)
           now == IF pending = NoItem THEN page.pending ELSE pending
<1>1. d.op = op /\ d.arg = arg
  BY DEF Asks
<1>2. /\ calls' = calls \cup {d} /\ Flag(page.at, op) \notin page.busy
      /\ page' = [page EXCEPT !.busy = page.busy \cup {Flag(page.at, op)}, !.pending = now]
  BY DEF Submits, AdminWaits
<1> HIDE DEF d
<1>3. Flagged(page.at, d)
  BY <1>1 DEF Flagged, AdminLists
<1>4. FlagsSet(page.at, page.busy \cup {Flag(page.at, op)}, calls')
  BY <1>1, <1>2, <1>3, FlagsAsked DEF AdminWaits
<1>5. now # NoItem => \E c \in calls' : c.op \in {"update", "toggle", "delete"} /\ c.arg.id = now
  BY <1>1, <1>2 DEF AdminWaits
<1> HIDE DEF now
<1>6. /\ {"at", "loading", "pending", "busy"} \subseteq DOMAIN page' /\ page'.at = page.at
      /\ page'.loading = page.loading /\ page'.pending = now /\ page'.busy = page.busy \cup {Flag(page.at, op)}
  BY <1>2 DEF AdminWaits
<1> QED
  BY <1>2, <1>4, <1>5, <1>6 DEF AdminWaits

\* A handler that ends resets what waits for it.
LEMMA ConcludedSettles ==
    ASSUME AdminWaits(page, calls), page.at \in AdminLists, NEW c \in calls, NEW op, NEW done, NEW reset,
           Concluded(page.at, c, op, done, reset), SameRows(done, page),
           \/ op \in {"create", "update", "delete"} /\ reset = {Flag(page.at, op)}
           \/ op = "toggle" /\ reset = {}
    PROVE  AdminWaits(page', calls')
<1> DEFINE next == IF c.got.ok THEN [done EXCEPT !.items = c.got.items] ELSE page
           now == IF op = "create" THEN page.pending ELSE NoItem
<1>1. SameRows(next, page)
  BY DEF SameRows, AdminWaits
<1>2. c.op = op /\ calls' = calls \ {c}
  BY DEF Concluded, Answered
<1>3. page' = [next EXCEPT !.busy = next.busy \ reset, !.pending = IF op = "create" THEN next.pending ELSE NoItem]
  BY DEF Concluded
<1> HIDE DEF next
<1>4. /\ {"at", "loading", "pending", "busy"} \subseteq DOMAIN page' /\ page'.at = page.at
      /\ page'.loading = page.loading /\ page'.busy = page.busy \ reset /\ page'.pending = now
  BY <1>1, <1>3 DEF SameRows
<1>5. FlagsSet(page.at, page.busy \ reset, calls')
  <2>1. CASE op \in {"create", "update", "delete"} /\ reset = {Flag(page.at, op)}
    <3>1. Flagged(page.at, c)
      BY <1>2, <2>1 DEF Flagged, AdminLists
    <3> QED BY <1>2, <2>1, <3>1, FlagsDone DEF AdminWaits
  <2>2. CASE op = "toggle" /\ reset = {}
    <3>1. ~Flagged(page.at, c) /\ page.busy \ reset = page.busy
      BY <1>2, <2>2 DEF Flagged, AdminLists
    <3> QED BY <1>2, <3>1, FlagsLeft DEF AdminWaits
  <2> QED BY <2>1, <2>2
<1>6. page.loading => \E d \in calls' : d.op \in {"load", "plans"}
  BY <1>2 DEF AdminWaits
<1>7. now # NoItem => \E d \in calls' : d.op \in {"update", "toggle", "delete"} /\ d.arg.id = now
  BY <1>2 DEF AdminWaits
<1> QED
  BY <1>4, <1>5, <1>6, <1>7 DEF AdminWaits

\* What handlers do when they succeeded leaves flags and spinners.
LEMMA DoneSame ==
    ASSUME AdminWaits(page, calls)
    PROVE  /\ SameRows(page, page)
           /\ SameRows([page EXCEPT !.create = FALSE], page) /\ SameRows([page EXCEPT !.target = NoItem], page)
           /\ SameRows([page EXCEPT !.confirm = NoItem], page)
           /\ \A made : SameRows([page EXCEPT !.generated = made, !.create = FALSE, !.result = TRUE], page)
BY DEF SameRows, AdminWaits

\* A list that was loaded, or not, is not waited for.
LEMMA LoadedSettles ==
    ASSUME AdminWaits(page, calls), page.at \in AdminLists, NEW c \in calls, LoadedList(page.at, c)
    PROVE  AdminWaits(page', calls')
<1>1. c.op = "load" /\ calls' = calls \ {c} /\ \E items : page' = [page EXCEPT !.items = items, !.loading = FALSE]
  BY DEF LoadedList, Answered
<1>2. ~Flagged(page.at, c)
  BY <1>1 DEF Flagged, AdminLists
<1>3. FlagsSet(page.at, page.busy, calls')
  BY <1>1, <1>2, FlagsLeft DEF AdminWaits
<1> QED
  BY <1>1, <1>3 DEF AdminWaits

\* The redeem codes wait for nothing that is over: the plans are asked for after the codes.
LEMMA CodesSettle ==
    ASSUME AdminWaits(page, calls), CallsOK, At("codes"), CodesNext \/ \E c \in calls : CodesStep(c)
    PROVE  AdminWaits(page', calls')
<1>a. page.at = "codes" /\ page.at \in AdminLists /\ \A op : Flag(page.at, op) = op
  BY DEF At, AdminLists, Flag
<1>1. CASE CodesRefresh \/ CodesDialogs
  BY <1>a, <1>1, AdminMoves DEF CodesRefresh, CodesDialogs
<1>2. CASE CodesGenerate \/ CodesDelete
  BY <1>a, <1>2, SubmitsWait DEF CodesGenerate, CodesDelete
<1>3. CASE CodesUpdate
  BY <1>a, <1>3, SubmitsWait DEF CodesUpdate, Filled
<1>4. ASSUME NEW i, CodesEdit(i) \/ CodesToggle(i) \/ CodesConfirm(i) PROVE AdminWaits(page', calls')
  BY <1>a, <1>4, AdminMoves DEF CodesEdit, CodesToggle, CodesConfirm
<1>5. ASSUME NEW c \in calls, CodesGenerated(c) \/ CodesUpdated(c) \/ CodesToggled(c) \/ CodesDeleted(c)
      PROVE  AdminWaits(page', calls')
  <2>1. CASE CodesGenerated(c)
    <3> DEFINE done == [page EXCEPT !.generated = c.got.made, !.create = FALSE, !.result = TRUE]
    <3>1. SameRows(done, page)
      BY DoneSame
    <3>2. Concluded(page.at, c, "create", done, {"create"})
      BY <1>a, <2>1 DEF CodesGenerated
    <3> HIDE DEF done
    <3> QED BY <1>a, <3>1, <3>2, ConcludedSettles
  <2>2. CASE CodesUpdated(c) \/ CodesToggled(c) \/ CodesDeleted(c)
    BY <1>a, <2>2, ConcludedSettles, DoneSame DEF CodesUpdated, CodesToggled, CodesDeleted
  <2> QED BY <1>5, <2>1, <2>2
<1>6. ASSUME NEW c \in calls, CodesLoaded(c) PROVE AdminWaits(page', calls')
  <2>1. c.op \in {"load", "plans"} /\ IsCall(c)
    BY <1>6 DEF CodesLoaded, Answered, CallsOK
  <2>2. ~Flagged(page.at, c)
    BY <1>a, <2>1 DEF Flagged
  <2>3. FlagsSet(page.at, page.busy, calls \ {c})
    BY <2>2, FlagsLeft DEF AdminWaits
  <2>4. CASE page' = [page EXCEPT !.items = c.got.items]
             /\ calls' = (calls \ {c}) \cup {[c EXCEPT !.op = "plans", !.got = Nothing]}
    <3> DEFINE d == [c EXCEPT !.op = "plans", !.got = Nothing]
    <3>1. d.op = "plans"
      BY <2>1 DEF IsCall
    <3>2. calls' = (calls \ {c}) \cup {d}
      BY <2>4
    <3> HIDE DEF d
    <3>3. ~Flagged(page.at, d)
      BY <1>a, <3>1 DEF Flagged
    <3>4. FlagsSet(page.at, page.busy, calls')
      BY <2>3, <3>2, <3>3, FlagsLeft
    <3> QED BY <2>1, <2>4, <3>1, <3>2, <3>4 DEF AdminWaits
  <2>5. CASE page' = [page EXCEPT !.plans = @ \/ c.got.ok, !.loading = FALSE] /\ calls' = calls \ {c}
    BY <2>1, <2>3, <2>5 DEF AdminWaits
  <2> QED BY <1>6, <2>4, <2>5 DEF CodesLoaded
<1>7. ASSUME NEW i, CodeRedeemed(i) PROVE AdminWaits(page', calls')
  BY <1>7 DEF CodeRedeemed
<1> QED
  BY <1>1, <1>2, <1>3, <1>4, <1>5, <1>6, <1>7 DEF CodesNext, CodesStep

\* So do the users.
LEMMA UserListSettles ==
    ASSUME AdminWaits(page, calls), At("users"), UsersNext \/ \E c \in calls : UsersStep(c)
    PROVE  AdminWaits(page', calls')
<1>a. page.at = "users" /\ page.at \in AdminLists /\ \A op : Flag(page.at, op) = op
  BY DEF At, AdminLists, Flag
<1>1. CASE UsersRefresh \/ UsersSearch \/ UsersDialogs
  BY <1>a, <1>1, AdminMoves DEF UsersRefresh, UsersSearch, UsersDialogs
<1>2. CASE UsersCreate \/ UsersDelete
  BY <1>a, <1>2, SubmitsWait DEF UsersCreate, UsersDelete
<1>3. CASE UsersUpdate
  BY <1>a, <1>3, SubmitsWait DEF UsersUpdate, Filled
<1>4. ASSUME NEW i, UsersEdit(i) \/ UsersToggle(i) \/ UsersConfirm(i) PROVE AdminWaits(page', calls')
  BY <1>a, <1>4, AdminMoves DEF UsersEdit, UsersToggle, UsersConfirm
<1>5. ASSUME NEW c \in calls, UsersCreated(c) \/ UsersUpdated(c) \/ UsersToggled(c) \/ UsersDeleted(c)
      PROVE  AdminWaits(page', calls')
  BY <1>a, <1>5, ConcludedSettles, DoneSame DEF UsersCreated, UsersUpdated, UsersToggled, UsersDeleted
<1>6. ASSUME NEW c \in calls, UsersLoaded(c) PROVE AdminWaits(page', calls')
  BY <1>a, <1>6, LoadedSettles DEF UsersLoaded
<1> QED
  BY <1>1, <1>2, <1>3, <1>4, <1>5, <1>6 DEF UsersNext, UsersStep

\* So do the promotion codes.
LEMMA PromosSettle ==
    ASSUME AdminWaits(page, calls), At("promos"), PromosNext \/ \E c \in calls : PromosStep(c)
    PROVE  AdminWaits(page', calls')
<1>a. page.at = "promos" /\ page.at \in AdminLists /\ \A op : Flag(page.at, op) = op
  BY DEF At, AdminLists, Flag
<1>1. CASE PromosRefresh \/ PromosDialogs
  BY <1>a, <1>1, AdminMoves DEF PromosRefresh, PromosDialogs
<1>2. CASE PromosCreate \/ PromosDelete
  BY <1>a, <1>2, SubmitsWait DEF PromosCreate, PromosDelete
<1>3. CASE PromosUpdate
  BY <1>a, <1>3, SubmitsWait DEF PromosUpdate, Filled
<1>4. ASSUME NEW i, PromosEdit(i) \/ PromosToggle(i) \/ PromosConfirm(i) PROVE AdminWaits(page', calls')
  BY <1>a, <1>4, AdminMoves DEF PromosEdit, PromosToggle, PromosConfirm
<1>5. ASSUME NEW c \in calls, PromosCreated(c) \/ PromosUpdated(c) \/ PromosToggled(c) \/ PromosDeleted(c)
      PROVE  AdminWaits(page', calls')
  BY <1>a, <1>5, ConcludedSettles, DoneSame DEF PromosCreated, PromosUpdated, PromosToggled, PromosDeleted
<1>6. ASSUME NEW c \in calls, PromosLoaded(c) PROVE AdminWaits(page', calls')
  BY <1>a, <1>6, LoadedSettles DEF PromosLoaded
<1> QED
  BY <1>1, <1>2, <1>3, <1>4, <1>5, <1>6 DEF PromosNext, PromosStep

\* So do the plans, whose dialogs share a flag.
LEMMA PlansSettle ==
    ASSUME AdminWaits(page, calls), At("plans"), PlansNext \/ \E c \in calls : PlansStep(c)
    PROVE  AdminWaits(page', calls')
<1>a. page.at = "plans" /\ page.at \in AdminLists /\ \A op : Flag(page.at, op) = "submit"
  BY DEF At, AdminLists, Flag
<1>1. CASE PlansRefresh \/ PlansDialogs
  BY <1>a, <1>1, AdminMoves DEF PlansRefresh, PlansDialogs
<1>2. CASE PlansCreate \/ PlansDelete
  BY <1>a, <1>2, SubmitsWait DEF PlansCreate, PlansDelete
<1>3. CASE PlansUpdate
  BY <1>a, <1>3, SubmitsWait DEF PlansUpdate, Filled
<1>4. ASSUME NEW i, PlansEdit(i) \/ PlansToggle(i) \/ PlansConfirm(i) PROVE AdminWaits(page', calls')
  BY <1>a, <1>4, AdminMoves DEF PlansEdit, PlansToggle, PlansConfirm
<1>5. ASSUME NEW c \in calls, PlansCreated(c) \/ PlansUpdated(c) \/ PlansToggled(c) \/ PlansDeleted(c)
      PROVE  AdminWaits(page', calls')
  BY <1>a, <1>5, ConcludedSettles, DoneSame DEF PlansCreated, PlansUpdated, PlansToggled, PlansDeleted
<1>6. ASSUME NEW c \in calls, PlansLoaded(c) PROVE AdminWaits(page', calls')
  BY <1>a, <1>6, LoadedSettles DEF PlansLoaded
<1> QED
  BY <1>1, <1>2, <1>3, <1>4, <1>5, <1>6 DEF PlansNext, PlansStep

\* No flag of an administration list outlasts its request.
LEMMA AdminSettling ==
    ASSUME AdminWaits(page, calls), CallsOK, page.at \in AdminLists, AdminNext
    PROVE  AdminWaits(page', calls') \/ page' = Left
<1>1. ASSUME NEW c \in calls, NEW g, page' = page, Served(c, g) PROVE AdminWaits(page', calls')
  <2> DEFINE d == [c EXCEPT !.got = g]
  <2>1. d.op = c.op /\ d.arg = c.arg
    BY GotKeeps DEF CallsOK
  <2>2. calls' = (calls \ {c}) \cup {d}
    BY <1>1 DEF Served
  <2> HIDE DEF d
  <2>3. FlagsSet(page.at, page.busy, calls')
    BY <2>1, <2>2, FlagsAnswered DEF AdminWaits
  <2> QED BY <1>1, <2>1, <2>2, <2>3 DEF AdminWaits
<1>2. ASSUME NEW c \in calls, AdminServes(c) \/ AdminFails(c) PROVE AdminWaits(page', calls')
  <2>1. page' = page /\ \E g : Served(c, g)
    BY <1>2 DEF AdminServes, AdminFails, Fails
  <2> QED BY <1>1, <2>1
<1>3. CASE AnotherAdmin
  BY <1>3 DEF AnotherAdmin
<1>4. CASE LeaveAdmin
  BY <1>4 DEF LeaveAdmin
<1>5. ASSUME NEW c \in calls
      PROVE  /\ (CodesStep(c) => At("codes")) /\ (UsersStep(c) => At("users"))
             /\ (PromosStep(c) => At("promos")) /\ (PlansStep(c) => At("plans"))
  <2>1. \A list, op, done, reset : Concluded(list, c, op, done, reset) \/ LoadedList(list, c) => At(list)
    BY DEF Concluded, LoadedList
  <2>2. CodesStep(c) => At("codes")
    BY <2>1 DEF CodesStep, CodesLoaded, CodesGenerated, CodesUpdated, CodesToggled, CodesDeleted
  <2>3. UsersStep(c) => At("users")
    BY <2>1 DEF UsersStep, UsersLoaded, UsersCreated, UsersUpdated, UsersToggled, UsersDeleted
  <2>4. PromosStep(c) => At("promos")
    BY <2>1 DEF PromosStep, PromosLoaded, PromosCreated, PromosUpdated, PromosToggled, PromosDeleted
  <2>5. PlansStep(c) => At("plans")
    BY <2>1 DEF PlansStep, PlansLoaded, PlansCreated, PlansUpdated, PlansToggled, PlansDeleted
  <2> QED BY <2>2, <2>3, <2>4, <2>5
<1>6. CASE CodesNext \/ \E c \in calls : CodesStep(c)
  <2>1. At("codes")
    BY <1>5, <1>6 DEF CodesNext
  <2> QED BY <1>6, <2>1, CodesSettle
<1>7. CASE UsersNext \/ \E c \in calls : UsersStep(c)
  <2>1. At("users")
    BY <1>5, <1>7 DEF UsersNext
  <2> QED BY <1>7, <2>1, UserListSettles
<1>8. CASE PromosNext \/ \E c \in calls : PromosStep(c)
  <2>1. At("promos")
    BY <1>5, <1>8 DEF PromosNext
  <2> QED BY <1>8, <2>1, PromosSettle
<1>9. CASE PlansNext \/ \E c \in calls : PlansStep(c)
  <2>1. At("plans")
    BY <1>5, <1>9 DEF PlansNext
  <2> QED BY <1>9, <2>1, PlansSettle
<1> QED
  BY <1>2, <1>3, <1>4, <1>6, <1>7, <1>8, <1>9 DEF AdminNext, AdminStep

\* The lists open with the request that they wait for.
LEMMA AdminWaiting == ASSUME AdminInit PROVE AdminWaits(page, calls)
<1>1. PICK list \in AdminLists : OpenAdmin(list)
  BY DEF AdminInit, UsersOpen, PromosOpen, PlansOpen, AdminLists
<1> DEFINE d == [op |-> "load", arg |-> Nothing, by |-> 0, got |-> Nothing]
<1>2. calls = {d} /\ d.op = "load" /\ page = EmptyAdmin(list)
  BY <1>1 DEF OpenAdmin
<1> HIDE DEF d
<1>3. IsFiniteSet(calls)
  BY <1>2, FS_Singleton
<1>4. ~Flagged(list, d)
  BY <1>2 DEF Flagged, AdminLists
<1>5. FlagsSet(list, {}, calls)
  BY <1>2, <1>3, <1>4 DEF FlagsSet
<1> QED
  BY <1>2, <1>5 DEF EmptyAdmin, AdminWaits

\* What waits settles, as the property says it.
LEMMA AdminHasSettled == ASSUME AdminWaits(page, calls), page.at \in AdminLists PROVE AdminSettles
<1> DEFINE submitted == {c \in calls : c.op \in {"create", "update", "delete"}}
<1>1. submitted = {c \in calls : Flagged(page.at, c)}
  BY DEF Flagged, AdminLists
<1>2. Cardinality(page.busy) = Cardinality(submitted)
  BY <1>1, FlagsCount DEF AdminWaits
<1>3. page.busy = IF At("plans") THEN {"submit" : c \in submitted} ELSE {c.op : c \in submitted}
  BY <1>1 DEF AdminWaits, FlagsSet, Flag, At
<1> QED
  BY <1>2, <1>3 DEF AdminWaits, AdminSettles

-----------------------------------------------------------------------------
\* The flags of the page of accounts.
AccountsWait(p, cs) == {"at", "busy"} \subseteq DOMAIN p /\ FlagsSet("accounts", p.busy, cs)

\* No flag of the page of accounts outlasts its request.
LEMMA AccountsSettling ==
    ASSUME AccountsOK(page, site, calls), AccountsWait(page, calls), CallsOK, AccountsNext
    PROVE  AccountsWait(page', calls') \/ page' = Left
<1>w. {"at", "busy"} \subseteq DOMAIN page /\ FlagsSet("accounts", page.busy, calls)
  BY DEF AccountsWait
<1>f. \A c : Flagged("accounts", c) <=> c.op # "read"
  BY DEF Flagged
<1>g. \A op : Flag("accounts", op) = op
  BY DEF Flag
<1>s. ASSUME calls' = calls, \/ page' = page
                             \/ \E x : page' = [page EXCEPT !.import = x]
                             \/ \E x : page' = [page EXCEPT !.selected = x]
                             \/ \E x : page' = [page EXCEPT !.target = x]
                             \/ \E x, y : page' = [page EXCEPT !.target = x, !.form = y]
      PROVE  AccountsWait(page', calls')
  BY <1>w, <1>s DEF AccountsWait
<1>1. ASSUME NEW c \in calls, NEW g, page' = page, Served(c, g) PROVE AccountsWait(page', calls')
  <2> DEFINE d == [c EXCEPT !.got = g]
  <2>1. d.op = c.op
    BY GotKeeps DEF CallsOK
  <2>2. calls' = (calls \ {c}) \cup {d}
    BY <1>1 DEF Served
  <2> HIDE DEF d
  <2> QED BY <1>1, <1>w, <2>1, <2>2, FlagsAnswered DEF AccountsWait
<1>2. ASSUME NEW c \in calls, AccountsServe(c) \/ AccountsFail(c) PROVE AccountsWait(page', calls')
  <2>1. page' = page /\ \E g : Served(c, g)
    BY <1>2 DEF AccountsServe, AccountsFail, Fails
  <2> QED BY <1>1, <2>1
<1>3. ASSUME NEW c \in calls, NEW op, op # "read", NEW done, AccountsEnd(c, op, done),
             {"at", "busy"} \subseteq DOMAIN done, done.busy = page.busy
      PROVE  AccountsWait(page', calls')
  <2> DEFINE shown == IF c.got.ok THEN done ELSE page
  <2>1. c.op = op /\ calls' = calls \ {c} /\ page' = [shown EXCEPT !.busy = @ \ {op}]
    BY <1>3 DEF AccountsEnd, Answered
  <2>2. {"at", "busy"} \subseteq DOMAIN shown /\ shown.busy = page.busy
    BY <1>3, <1>w
  <2> HIDE DEF shown
  <2>3. {"at", "busy"} \subseteq DOMAIN page' /\ page'.busy = page.busy \ {op}
    BY <2>1, <2>2
  <2>4. FlagsSet("accounts", page.busy \ {op}, calls')
    BY <1>3, <1>f, <1>g, <1>w, <2>1, FlagsDone
  <2> QED BY <2>3, <2>4 DEF AccountsWait
<1>4. ASSUME NEW items PROVE {"at", "busy"} \subseteq DOMAIN WithAccounts(items) /\ WithAccounts(items).busy = page.busy
  BY <1>w DEF WithAccounts
<1>5. ASSUME NEW c \in calls, AccountsLoaded(c) \/ AccountsRefreshed(c) \/ AccountsDeleted(c)
      PROVE  AccountsWait(page', calls')
  BY <1>3, <1>4, <1>5 DEF AccountsLoaded, AccountsRefreshed, AccountsDeleted
<1>6. ASSUME NEW c \in calls, AccountUpdated(c) PROVE AccountsWait(page', calls')
  <2> DEFINE q == WithAccounts(c.got.items)
             done == [q EXCEPT !.target = NoAccount]
  <2>1. {"at", "busy"} \subseteq DOMAIN q /\ q.busy = page.busy
    BY <1>4
  <2>2. AccountsEnd(c, "update", done)
    BY <1>6 DEF AccountUpdated
  <2> HIDE DEF q
  <2>3. {"at", "busy"} \subseteq DOMAIN done /\ done.busy = page.busy
    BY <2>1
  <2> QED BY <1>3, <2>2, <2>3
<1>7. ASSUME NEW c \in calls, AccountsImported(c) PROVE AccountsWait(page', calls')
  <2> DEFINE done == [page EXCEPT !.items = c.got.items, !.selected = {}, !.import = NoImport]
  <2>1. {"at", "busy"} \subseteq DOMAIN done /\ done.busy = page.busy
    BY <1>w
  <2>2. AccountsEnd(c, "import", done)
    BY <1>7 DEF AccountsImported
  <2> QED BY <1>3, <2>1, <2>2
<1>8. ASSUME NEW c \in calls, FilesRead(c) PROVE AccountsWait(page', calls')
  <2>1. c.op = "read" /\ calls' = calls \ {c}
    BY <1>8 DEF FilesRead, Answered
  <2>2. {"at", "busy"} \subseteq DOMAIN page' /\ page'.busy = page.busy
    BY <1>8, <1>w DEF FilesRead
  <2>3. FlagsSet("accounts", page.busy, calls')
    BY <1>f, <1>w, <2>1, FlagsLeft
  <2> QED BY <2>2, <2>3 DEF AccountsWait
<1>9. ASSUME NEW op, op # "read", NEW arg, AsksAccounts(op, arg) PROVE AccountsWait(page', calls')
  <2> DEFINE d == Asks(op, arg)
  <2>1. d.op = op
    BY DEF Asks
  <2>2. calls' = calls \cup {d} /\ op \notin page.busy /\ page' = [page EXCEPT !.busy = @ \cup {op}]
    BY <1>9 DEF AsksAccounts
  <2> HIDE DEF d
  <2>3. FlagsSet("accounts", page.busy \cup {op}, calls')
    BY <1>9, <1>f, <1>g, <1>w, <2>1, <2>2, FlagsAsked
  <2> QED BY <1>w, <2>2, <2>3 DEF AccountsWait
<1>10. CASE AccountsReload \/ AccountsRefresh \/ AccountsDelete \/ AccountUpdate \/ ImportAccounts
  BY <1>9, <1>10 DEF AccountsReload, AccountsRefresh, AccountsDelete, AccountUpdate, ImportAccounts
<1>11. CASE ReadsFiles
  <2> DEFINE d == Asks("read", Nothing)
  <2>1. d.op = "read"
    BY DEF Asks
  <2>2. calls' = calls \cup {d} /\ page' = page
    BY <1>11 DEF ReadsFiles
  <2> HIDE DEF d
  <2>3. FlagsSet("accounts", page.busy, calls')
    BY <1>f, <1>w, <2>1, <2>2, FlagsLeft
  <2> QED BY <1>w, <2>2, <2>3 DEF AccountsWait
<1>12. CASE SelectsAccounts
  BY <1>s, <1>12 DEF SelectsAccounts
<1>13. CASE ClosesAccount \/ \E i : OpensAccount(i)
  BY <1>s, <1>13 DEF ClosesAccount, OpensAccount
<1>14. CASE OpensImport \/ ChoosesWay \/ ClosesImport \/ AsksToConfirm
  <2>1. \E x : Importer(x)
    BY <1>14 DEF OpensImport, ChoosesWay, ClosesImport, AsksToConfirm
  <2> QED BY <1>s, <2>1 DEF Importer
<1>15. CASE AccountChanges
  BY <1>s, <1>15 DEF AccountChanges
<1>16. CASE LeaveAccounts
  BY <1>16 DEF LeaveAccounts
<1> QED
  BY <1>2, <1>5, <1>6, <1>7, <1>8, <1>10, <1>11, <1>12, <1>13, <1>14, <1>15, <1>16 DEF AccountsNext, AccountsStep

\* The page opens with the request that it waits for.
LEMMA AccountsWaiting == ASSUME AccountsInit PROVE AccountsWait(page, calls)
<1> DEFINE d == [op |-> "list", arg |-> Nothing, by |-> 0, got |-> Nothing]
<1>1. calls = {d} /\ d.op = "list" /\ page = EmptyAccounts
  BY DEF AccountsInit
<1> HIDE DEF d
<1>2. {"at", "busy"} \subseteq DOMAIN page /\ page.busy = {"list"}
  BY <1>1 DEF EmptyAccounts
<1>3. IsFiniteSet(calls)
  BY <1>1, FS_Singleton
<1> QED
  BY <1>1, <1>2, <1>3 DEF AccountsWait, FlagsSet, Flagged, Flag

\* What waits settles, as the property says it.
LEMMA AccountsHaveSettled == ASSUME AccountsWait(page, calls) PROVE AccountsSettle
<1> DEFINE flagged == {c \in calls : c.op # "read"}
<1>1. flagged = {c \in calls : Flagged("accounts", c)}
  BY DEF Flagged
<1>2. Cardinality(page.busy) = Cardinality(flagged)
  BY <1>1, FlagsCount DEF AccountsWait
<1>3. page.busy = {c.op : c \in flagged}
  BY <1>1 DEF AccountsWait, FlagsSet, Flag
<1> QED
  BY <1>2, <1>3 DEF AccountsSettle

-----------------------------------------------------------------------------
(* Waiting: the gallery. *)

\* Requests of the gallery that list, the one of them whose answer counts, and those that keep an image busy.
Lists(c) == c.op \in {"list", "listing"}
Current(p, c) == Lists(c) /\ c.arg.request = p.request
Busies(c) == c.op \in {"delete", "unlink", "download"}

\* The spinners of the gallery wait for its last listing, which is of the first page unless more is
\* loaded; an image is busy with one request at a time.
GalleryLists(p, cs) ==
    /\ {"at", "initial", "refreshing", "more", "hasMore", "request"} \subseteq DOMAIN p /\ p.request \in Int
    /\ p.initial => ~p.hasMore
    /\ p.initial \/ p.refreshing \/ p.more => \E c \in cs : Current(p, c)
    /\ \A c \in cs : Lists(c) => c.arg.request \in Int /\ c.arg.request <= p.request
    /\ \A c \in cs : Current(p, c) => IF c.arg.cursor = NoImage THEN ~p.more ELSE ~p.initial /\ ~p.refreshing
GalleryBusy(p, cs) ==
    /\ "busy" \in DOMAIN p
    /\ \A i : i \in p.busy <=> \E c \in cs : Busies(c) /\ c.arg = i
    /\ \A c, d \in cs : Busies(c) /\ Busies(d) /\ c.arg = d.arg => c = d
GalleryWaits(p, cs) == GalleryLists(p, cs) /\ GalleryBusy(p, cs) /\ \A c \in cs : IsCall(c)

\* What the spinners of two states have in common.
SameSpinners(q, p) ==
    /\ {"at", "initial", "refreshing", "more", "hasMore", "request"} \subseteq DOMAIN q
    /\ q.request = p.request /\ q.initial = p.initial /\ q.refreshing = p.refreshing /\ q.more = p.more
    /\ q.hasMore = p.hasMore

\* A request that goes on, or is answered, is still the same.
LEMMA GalleryGoesOn ==
    ASSUME NEW p, NEW cs, GalleryWaits(p, cs), NEW c \in cs, NEW d, IsCall(d), d.arg = c.arg,
           \/ d.op = c.op
           \/ Lists(c) /\ Lists(d)
           \/ Busies(c) /\ Busies(d)
    PROVE  GalleryWaits(p, (cs \ {c}) \cup {d})
<1> DEFINE new == (cs \ {c}) \cup {d}
<1>1. (Lists(d) <=> Lists(c)) /\ (Busies(d) <=> Busies(c))
  BY DEF Lists, Busies
<1>2. GalleryLists(p, new)
  <2>1. \A x : Current(p, x) <=> Lists(x) /\ x.arg.request = p.request
    BY DEF Current
  <2>2. Current(p, d) <=> Current(p, c)
    BY <1>1, <2>1
  <2>3. p.initial \/ p.refreshing \/ p.more => \E x \in new : Current(p, x)
    BY <2>2 DEF GalleryWaits, GalleryLists
  <2> QED BY <1>1, <2>2, <2>3 DEF GalleryWaits, GalleryLists
<1>3. GalleryBusy(p, new)
  BY <1>1 DEF GalleryWaits, GalleryBusy
<1> QED
  BY <1>2, <1>3 DEF GalleryWaits

\* The steps of the site.
LEMMA GallerySiteSettles ==
    ASSUME GalleryWaits(page, calls), NEW c \in calls,
           ReadRows(c) \/ JudgeRows(c) \/ MarkDeleted(c) \/ Unlink(c) \/ GalleryFails(c)
    PROVE  GalleryWaits(page', calls')
<1>c. IsCall(c)
  BY DEF GalleryWaits
<1>o. ASSUME NEW o, NEW g, NEW d, d = [c EXCEPT !.op = o, !.got = g]
      PROVE  IsCall(d) /\ d.arg = c.arg /\ d.op = o
  <2> DEFINE e == [c EXCEPT !.op = o]
             f == [e EXCEPT !.got = g]
  <2>1. IsCall(e) /\ e.op = o /\ e.arg = c.arg
    BY <1>c, OpKeeps
  <2>2. d = f
    BY <1>o
  <2> HIDE DEF e
  <2>3. IsCall(f) /\ f.op = o /\ f.arg = c.arg
    BY <2>1, GotKeeps
  <2> HIDE DEF f
  <2> QED BY <2>2, <2>3
<1>s. ASSUME page' = page, NEW g, Served(c, g) PROVE GalleryWaits(page', calls')
  <2> DEFINE d == [c EXCEPT !.got = g]
  <2>1. IsCall(d) /\ d.arg = c.arg /\ d.op = c.op
    BY <1>c, GotKeeps
  <2>2. calls' = (calls \ {c}) \cup {d}
    BY <1>s DEF Served
  <2> HIDE DEF d
  <2> QED BY <1>s, <2>1, <2>2, GalleryGoesOn
<1>m. ASSUME page' = page, NEW o, NEW g, calls' = (calls \ {c}) \cup {[c EXCEPT !.op = o, !.got = g]},
             \/ c.op \in {"list", "listing"} /\ o \in {"list", "listing"}
             \/ c.op \in {"delete", "unlink"} /\ o \in {"delete", "unlink"}
      PROVE  GalleryWaits(page', calls')
  <2> DEFINE d == [c EXCEPT !.op = o, !.got = g]
  <2>1. IsCall(d) /\ d.arg = c.arg /\ d.op = o
    BY <1>o
  <2>2. calls' = (calls \ {c}) \cup {d}
    BY <1>m
  <2> HIDE DEF d
  <2>3. (Lists(c) /\ Lists(d)) \/ (Busies(c) /\ Busies(d))
    BY <1>m, <2>1 DEF Lists, Busies
  <2>4. GalleryWaits(page, (calls \ {c}) \cup {d})
    BY <2>1, <2>3, GalleryGoesOn
  <2> QED BY <1>m, <2>2, <2>4
<1>1. CASE ReadRows(c)
  BY <1>1, <1>m DEF ReadRows, Pending
<1>2. CASE JudgeRows(c)
  BY <1>2, <1>m DEF JudgeRows, Under
<1>3. CASE MarkDeleted(c)
  <2>1. c.op = "delete" /\ page' = page
    BY <1>3 DEF MarkDeleted, Pending
  <2>2. CASE Served(c, Failure)
    BY <1>s, <2>1, <2>2
  <2>3. CASE calls' = (calls \ {c}) \cup {[c EXCEPT !.op = "unlink"]}
    <3> DEFINE d == [c EXCEPT !.op = "unlink"]
    <3>1. IsCall(d) /\ d.arg = c.arg /\ d.op = "unlink"
      BY <1>c, OpKeeps
    <3>2. calls' = (calls \ {c}) \cup {d}
      BY <2>3
    <3> HIDE DEF d
    <3>3. Busies(c) /\ Busies(d)
      BY <2>1, <3>1 DEF Busies
    <3> QED BY <2>1, <3>1, <3>2, <3>3, GalleryGoesOn
  <2> QED BY <1>3, <2>2, <2>3 DEF MarkDeleted
<1>4. CASE Unlink(c)
  BY <1>4, <1>m DEF Unlink, Under
<1>5. CASE GalleryFails(c)
  BY <1>5, <1>s DEF GalleryFails, Fails
<1> QED
  BY <1>1, <1>2, <1>3, <1>4, <1>5

\* The listings that the page asks for.
LEMMA GalleryAsksSettle ==
    ASSUME GalleryWaits(page, calls), RefreshGallery \/ LoadMoreImages
    PROVE  GalleryWaits(page', calls')
<1>1. PICK cursor : /\ calls' = calls \cup {Asks("list", [cursor |-> cursor, request |-> page.request + 1])}
                    /\ \/ cursor = NoImage /\ page' = FirstPage("refresh")
                       \/ /\ cursor # NoImage /\ page.hasMore /\ ~page.refreshing
                          /\ page' = [page EXCEPT !.request = @ + 1, !.more = TRUE]
  BY DEF RefreshGallery, AskFirstPage, LoadMoreImages
<1> DEFINE d == Asks("list", [cursor |-> cursor, request |-> page.request + 1])
<1>2. IsCall(d) /\ d.op = "list" /\ d.arg.cursor = cursor /\ d.arg.request = page.request + 1
  BY DEF Asks, IsCall
<1>3. calls' = calls \cup {d}
  BY <1>1
<1> HIDE DEF d
<1>4. Lists(d) /\ ~Busies(d)
  BY <1>2 DEF Lists, Busies
<1>5. /\ {"at", "initial", "refreshing", "more", "hasMore", "request"} \subseteq DOMAIN page' /\ page'.request = page.request + 1
      /\ page'.initial => page.initial
      /\ page'.hasMore = page.hasMore
      /\ IF cursor = NoImage THEN ~page'.more
         ELSE page.hasMore /\ ~page'.refreshing /\ page'.initial = page.initial
      /\ "busy" \in DOMAIN page' /\ page'.busy = page.busy
  <2>1. CASE cursor = NoImage /\ page' = FirstPage("refresh")
    BY <2>1 DEF FirstPage, GalleryWaits, GalleryLists, GalleryBusy
  <2>2. CASE /\ cursor # NoImage /\ page.hasMore /\ ~page.refreshing
             /\ page' = [page EXCEPT !.request = @ + 1, !.more = TRUE]
    BY <2>2 DEF GalleryWaits, GalleryLists, GalleryBusy
  <2> QED BY <1>1, <2>1, <2>2
<1>6. page.request \in Int /\ \A c \in calls : Lists(c) => c.arg.request \in Int /\ c.arg.request <= page.request
  BY DEF GalleryWaits, GalleryLists
<1>7. \A c \in calls : ~Current(page', c)
  BY <1>5, <1>6 DEF Current
<1>8. Current(page', d)
  BY <1>2, <1>4, <1>5 DEF Current
<1>9. IF cursor = NoImage THEN ~page'.more ELSE ~page'.initial /\ ~page'.refreshing
  BY <1>5 DEF GalleryWaits, GalleryLists
<1>10. page'.initial => ~page'.hasMore
  BY <1>5 DEF GalleryWaits, GalleryLists
<1>11. \A c \in calls' : Lists(c) => c.arg.request \in Int /\ c.arg.request <= page'.request
  BY <1>2, <1>3, <1>5, <1>6
<1>12. GalleryLists(page', calls')
  BY <1>2, <1>3, <1>5, <1>6, <1>7, <1>8, <1>9, <1>10, <1>11 DEF GalleryLists
<1>13. GalleryBusy(page', calls')
  BY <1>3, <1>4, <1>5 DEF GalleryBusy, GalleryWaits
<1> QED
  BY <1>2, <1>3, <1>12, <1>13 DEF GalleryWaits

\* An answer of a listing is that of the last one, and resets the spinners, or changes nothing.
LEMMA GalleryAnswerSettles ==
    ASSUME GalleryWaits(page, calls), NEW c \in calls, GalleryAnswer(c)
    PROVE  GalleryWaits(page', calls')
<1> DEFINE Fields(q) == {"at", "initial", "refreshing", "more", "hasMore", "request", "busy"} \subseteq DOMAIN q
                        /\ q.request = page.request /\ q.busy = page.busy
<1>w. /\ Fields(page) /\ page.request \in Int
      /\ \A d \in calls : Lists(d) => d.arg.request \in Int /\ d.arg.request <= page.request
      /\ \A d \in calls : Current(page, d) => IF d.arg.cursor = NoImage THEN ~page.more ELSE ~page.initial /\ ~page.refreshing
      /\ \A d \in calls : IsCall(d)
  BY DEF GalleryWaits, GalleryLists, GalleryBusy
<1>c. c.op = "list"
  BY DEF GalleryAnswer, Answered
<1>b. Lists(c) /\ ~Busies(c)
  BY <1>c DEF Lists, Busies
<1>1. CASE ~CurrentList(c)
  <2>1. page' = page /\ calls' = calls \ {c}
    BY <1>1 DEF GalleryAnswer
  <2>2. ~Current(page, c)
    BY <1>1 DEF Current, CurrentList
  <2>3. GalleryLists(page', calls')
    BY <2>1, <2>2 DEF GalleryWaits, GalleryLists
  <2>4. GalleryBusy(page', calls')
    BY <1>b, <2>1 DEF GalleryWaits, GalleryBusy
  <2> QED BY <2>1, <2>3, <2>4 DEF GalleryWaits
<1>2. CASE CurrentList(c)
  <2>c. Current(page, c)
    BY <1>2, <1>b DEF Current, CurrentList
  <2>e. ASSUME NEW asked, \A d \in asked : IsCall(d) /\ d.op = "preview", calls' = (calls \ {c}) \cup asked,
               Fields(page'), ~page'.initial, ~page'.refreshing, ~page'.more
        PROVE  GalleryWaits(page', calls')
    <3>1. \A d \in asked : ~Lists(d) /\ ~Busies(d)
      BY <2>e DEF Lists, Busies
    <3>2. \A d \in calls' : Lists(d) => d \in calls
      BY <2>e, <3>1
    <3>3. GalleryLists(page', calls')
      BY <1>w, <2>e, <3>2 DEF GalleryLists
    <3>4. \A d : d \in calls' /\ Busies(d) <=> d \in calls /\ Busies(d)
      BY <1>b, <2>e, <3>1
    <3>5. GalleryBusy(page', calls')
      BY <2>e, <3>4 DEF GalleryWaits, GalleryBusy
    <3> QED BY <1>w, <2>e, <3>3, <3>5 DEF GalleryWaits
  <2>1. CASE ~c.got.ok
    <3> DEFINE none == {}
    <3>1. calls' = (calls \ {c}) \cup none /\ \A d \in none : IsCall(d) /\ d.op = "preview"
      BY <1>2, <2>1 DEF GalleryAnswer
    <3>2. page' = IF c.arg.cursor = NoImage THEN [page EXCEPT !.initial = FALSE, !.refreshing = FALSE]
                  ELSE [page EXCEPT !.more = FALSE]
      BY <1>2, <2>1 DEF GalleryAnswer
    <3>3. Fields(page') /\ ~page'.initial /\ ~page'.refreshing /\ ~page'.more
      BY <1>w, <2>c, <3>2
    <3> HIDE DEF none
    <3> QED BY <2>e, <3>1, <3>3
  <2>2. CASE c.got.ok
    <3> DEFINE first == c.arg.cursor = NoImage
               items == IF first THEN NotDeleted(c.got.items) ELSE AppendedImages(c.got.items)
               trimmed == TrimmedTo(items)
               done == IF first THEN [trimmed EXCEPT !.initial = FALSE, !.refreshing = FALSE]
                       ELSE [page EXCEPT !.items = items, !.more = FALSE]
               asked == AskPreviews(items \ (IF first THEN {} ELSE page.items))
    <3>1. calls' = (calls \ {c}) \cup asked /\ page' = [done EXCEPT !.cursor = c.got.cursor, !.hasMore = c.got.hasMore]
      BY <1>2, <2>2 DEF GalleryAnswer
    <3>2. \A d \in asked : IsCall(d) /\ d.op = "preview"
      BY DEF AskPreviews, Asks, IsCall
    <3> HIDE DEF asked, items
    <3>3. Fields(trimmed) /\ trimmed.more = page.more
      BY <1>w DEF TrimmedTo
    <3> HIDE DEF trimmed
    <3>4. Fields(done) /\ ~done.initial /\ ~done.refreshing /\ ~done.more
      BY <1>w, <2>c, <3>3
    <3> HIDE DEF done
    <3>5. Fields(page') /\ ~page'.initial /\ ~page'.refreshing /\ ~page'.more
      BY <3>1, <3>4
    <3> QED BY <2>e, <3>1, <3>2, <3>5
  <2> QED BY <2>1, <2>2
<1> QED
  BY <1>1, <1>2

\* Deletions and downloads keep their image busy, and no other.
LEMMA GalleryBusySettles ==
    ASSUME GalleryWaits(page, calls),
           \/ DeleteImage \/ \E i : DownloadImage(i)
           \/ \E c \in calls : ImageDeleted(c) \/ ImageDownloaded(c) \/ PreviewAnswer(c)
    PROVE  GalleryWaits(page', calls')
<1>w. /\ GalleryLists(page, calls) /\ GalleryBusy(page, calls) /\ \A d \in calls : IsCall(d)
      /\ SameSpinners(page, page) /\ "busy" \in DOMAIN page
  BY DEF GalleryWaits, GalleryLists, GalleryBusy, SameSpinners
<1>l. ASSUME SameSpinners(page', page), \A d : d \in calls' /\ Lists(d) <=> d \in calls /\ Lists(d)
      PROVE  GalleryLists(page', calls')
  BY <1>w, <1>l DEF GalleryLists, SameSpinners, Current
<1>1. ASSUME NEW op, op \in {"delete", "download"}, NEW i, i \notin page.busy, calls' = calls \cup {Asks(op, i)},
             page' = [page EXCEPT !.busy = @ \cup {i}]
      PROVE  GalleryWaits(page', calls')
  <2> DEFINE d == Asks(op, i)
  <2>1. IsCall(d) /\ d.op = op /\ d.arg = i
    BY DEF Asks, IsCall
  <2>2. calls' = calls \cup {d}
    BY <1>1
  <2> HIDE DEF d
  <2>3. Busies(d) /\ ~Lists(d)
    BY <1>1, <2>1 DEF Busies, Lists
  <2>4. SameSpinners(page', page) /\ "busy" \in DOMAIN page' /\ page'.busy = page.busy \cup {i}
    BY <1>1, <1>w DEF SameSpinners
  <2>5. \A c \in calls : Busies(c) => c.arg # i
    BY <1>1, <1>w DEF GalleryBusy
  <2>6. GalleryBusy(page', calls')
    BY <1>w, <2>1, <2>2, <2>3, <2>4, <2>5 DEF GalleryBusy
  <2>7. GalleryLists(page', calls')
    BY <1>l, <2>2, <2>3, <2>4
  <2> QED BY <1>w, <2>1, <2>2, <2>6, <2>7 DEF GalleryWaits
<1>2. ASSUME NEW c \in calls, Busies(c), ~Lists(c), calls' = calls \ {c}, SameSpinners(page', page),
             "busy" \in DOMAIN page', page'.busy = page.busy \ {c.arg}
      PROVE  GalleryWaits(page', calls')
  <2>1. GalleryBusy(page', calls')
    <3>1. \A d \in calls' : Busies(d) => d.arg # c.arg
      BY <1>2, <1>w DEF GalleryBusy
    <3>2. ASSUME NEW i PROVE i \in page'.busy <=> \E d \in calls' : Busies(d) /\ d.arg = i
      BY <1>2, <1>w, <3>1 DEF GalleryBusy
    <3> QED BY <1>2, <1>w, <3>2 DEF GalleryBusy
  <2>2. GalleryLists(page', calls')
    BY <1>l, <1>2
  <2> QED BY <1>2, <1>w, <2>1, <2>2 DEF GalleryWaits
<1>3. CASE DeleteImage
  BY <1>1, <1>3 DEF DeleteImage
<1>4. ASSUME NEW i, DownloadImage(i) PROVE GalleryWaits(page', calls')
  BY <1>1, <1>4 DEF DownloadImage
<1>5. ASSUME NEW c \in calls, ImageDeleted(c) PROVE GalleryWaits(page', calls')
  <2>1. c.op = "delete" /\ calls' = calls \ {c}
    BY <1>5 DEF ImageDeleted, Answered
  <2>2. Busies(c) /\ ~Lists(c)
    BY <2>1 DEF Busies, Lists
  <2> DEFINE without == WithoutImage(c.arg)
  <2>3. SameSpinners(without, page) /\ "busy" \in DOMAIN without /\ without.busy = page.busy
    BY <1>w DEF WithoutImage, TrimmedTo, SameSpinners
  <2>4. page' = IF c.got.ok THEN [without EXCEPT !.deleted = @ \cup {c.arg}, !.busy = @ \ {c.arg}, !.confirm = NoImage]
                ELSE [page EXCEPT !.busy = @ \ {c.arg}]
    BY <1>5 DEF ImageDeleted
  <2> HIDE DEF without
  <2>5. SameSpinners(page', page) /\ "busy" \in DOMAIN page' /\ page'.busy = page.busy \ {c.arg}
    BY <1>w, <2>3, <2>4 DEF SameSpinners
  <2> QED BY <1>2, <2>1, <2>2, <2>5
<1>6. ASSUME NEW c \in calls, ImageDownloaded(c) PROVE GalleryWaits(page', calls')
  <2>1. c.op = "download" /\ calls' = calls \ {c} /\ page' = [page EXCEPT !.busy = @ \ {c.arg}]
    BY <1>6 DEF ImageDownloaded, Pending
  <2>2. Busies(c) /\ ~Lists(c)
    BY <2>1 DEF Busies, Lists
  <2>3. SameSpinners(page', page) /\ "busy" \in DOMAIN page' /\ page'.busy = page.busy \ {c.arg}
    BY <1>w, <2>1 DEF SameSpinners
  <2> QED BY <1>2, <2>1, <2>2, <2>3
<1>7. ASSUME NEW c \in calls, PreviewAnswer(c) PROVE GalleryWaits(page', calls')
  <2>1. c.op = "preview" /\ calls' = calls \ {c}
    BY <1>7 DEF PreviewAnswer, Pending
  <2>2. ~Busies(c) /\ ~Lists(c)
    BY <2>1 DEF Busies, Lists
  <2>3. SameSpinners(page', page) /\ "busy" \in DOMAIN page' /\ page'.busy = page.busy
    BY <1>7, <1>w DEF PreviewAnswer, SameSpinners
  <2>4. GalleryLists(page', calls')
    BY <1>l, <2>1, <2>2, <2>3
  <2>5. GalleryBusy(page', calls')
    BY <1>w, <2>1, <2>2, <2>3 DEF GalleryBusy
  <2> QED BY <1>w, <2>1, <2>4, <2>5 DEF GalleryWaits
<1> QED
  BY <1>3, <1>4, <1>5, <1>6, <1>7

\* No spinner of the gallery outlasts its request.
LEMMA GallerySettling ==
    ASSUME GalleryWaits(page, calls), GalleryNext
    PROVE  GalleryWaits(page', calls') \/ page' = Left
<1>s. ASSUME calls' = calls, page' = page \/ \E i : page' = [page EXCEPT !.confirm = i]
      PROVE  GalleryWaits(page', calls')
  <2>1. SameSpinners(page', page) /\ "busy" \in DOMAIN page' /\ page'.busy = page.busy
    BY <1>s DEF GalleryWaits, GalleryLists, GalleryBusy, SameSpinners
  <2>2. GalleryLists(page', calls')
    BY <1>s, <2>1 DEF GalleryWaits, GalleryLists, SameSpinners, Current
  <2>3. GalleryBusy(page', calls')
    BY <1>s, <2>1 DEF GalleryWaits, GalleryBusy
  <2> QED BY <1>s, <2>2, <2>3 DEF GalleryWaits
<1>1. CASE NewImage \/ \E i : CommitImage(i) \/ LoseImage(i)
  BY <1>1, <1>s DEF NewImage, CommitImage, LoseImage
<1>2. CASE KeepImage \/ \E i : ConfirmImage(i)
  BY <1>2, <1>s DEF KeepImage, ConfirmImage
<1>3. CASE LeaveGallery
  BY <1>3 DEF LeaveGallery
<1> QED
  BY <1>1, <1>2, <1>3, GallerySiteSettles, GalleryAsksSettle, GalleryAnswerSettles, GalleryBusySettles
  DEF GalleryNext, GalleryStep

\* The gallery opens with the listing that it waits for.
LEMMA GalleryWaiting == ASSUME GalleryInit PROVE GalleryWaits(page, calls)
<1> DEFINE d == [op |-> "list", arg |-> [cursor |-> NoImage, request |-> 1], by |-> 0, got |-> Nothing]
<1>1. IsCall(d) /\ d.op = "list" /\ d.arg.cursor = NoImage /\ d.arg.request = 1
  BY DEF IsCall
<1>2. calls = {d} /\ page = [EmptyGallery EXCEPT !.request = 1, !.initial = TRUE]
  BY DEF GalleryInit
<1> HIDE DEF d
<1>3. Lists(d) /\ ~Busies(d)
  BY <1>1 DEF Lists, Busies
<1>4. /\ {"at", "initial", "refreshing", "more", "hasMore", "request", "busy"} \subseteq DOMAIN page
      /\ page.request = 1 /\ ~page.hasMore /\ ~page.more /\ page.busy = {}
  BY <1>2 DEF EmptyGallery
<1>5. GalleryLists(page, calls)
  BY <1>1, <1>2, <1>3, <1>4 DEF GalleryLists, Current
<1>6. GalleryBusy(page, calls)
  BY <1>2, <1>3, <1>4 DEF GalleryBusy
<1> QED
  BY <1>1, <1>2, <1>5, <1>6 DEF GalleryWaits

\* What waits settles, as the property says it.
LEMMA GalleryHasSettled == ASSUME GalleryWaits(page, calls) PROVE GallerySettles
<1>1. page.initial \/ page.refreshing \/ page.more =>
        \E c \in Under("list") \cup Under("listing") : c.arg.request = page.request
  BY DEF GalleryWaits, GalleryLists, Current, Lists, Under
<1>2. page.busy = {c.arg : c \in {d \in calls : d.op \in {"delete", "unlink", "download"}}}
  BY DEF GalleryWaits, GalleryBusy, Busies
<1> QED
  BY <1>1, <1>2 DEF GallerySettles

-----------------------------------------------------------------------------
(* Waiting: all pages. *)

\* What the page on screen waits for is under way.
WaitsInv ==
    /\ UserWaits(page, calls)
    /\ At("imports") => ImportWaits(page, calls)
    /\ At("machine") => MachineWaits(page, calls)
    /\ At("forms") => FormsWait(page, calls)
    /\ At("update") => CardWaits(page, calls)
    /\ At("accounts") => AccountsWait(page, calls)
    /\ page.at \in AdminLists => AdminWaits(page, calls)
    /\ At("gallery") => GalleryWaits(page, calls)

\* Every page opens with the requests that it waits for.
LEMMA WaitsStart == PageInit => WaitsInv
<1> SUFFICES ASSUME PageInit PROVE WaitsInv
  OBVIOUS
<1>1. \/ GalleryInit /\ page.at = "gallery"
      \/ AdminInit /\ page.at \in AdminLists
      \/ UserInit /\ page.at \in UserPageNames
      \/ ImportInit /\ page.at = "imports"
      \/ SettingsInit /\ page.at \in SettingsCards
      \/ AccountsInit /\ page.at = "accounts"
  BY PagesOpen DEF PageInit, UserInit, UserPageNames
<1>2. UserWaits(page, calls)
  <2>1. CASE UserInit
    BY <2>1, UsersWait
  <2>2. CASE page.at \notin {"redeem", "membership", "register"}
    BY <2>2 DEF UserWaits
  <2> QED BY <1>1, <2>1, <2>2 DEF AdminLists, SettingsCards
<1>3. /\ At("imports") => ImportInit
      /\ At("machine") \/ At("update") \/ At("forms") => SettingsInit
      /\ At("accounts") => AccountsInit
      /\ At("gallery") => GalleryInit
      /\ page.at \in AdminLists => AdminInit
  BY <1>1 DEF At, AdminLists, SettingsCards, UserPageNames
<1> QED
  BY <1>2, <1>3, ImportsWait, SettingsWait, AccountsWaiting, AdminWaiting, GalleryWaiting DEF WaitsInv

\* Every step keeps it so.
LEMMA WaitsKeep == PagesInv /\ WaitsInv /\ [PageNext]_pageVars => WaitsInv'
<1> SUFFICES ASSUME PagesInv, WaitsInv, [PageNext]_pageVars PROVE WaitsInv'
  OBVIOUS
<1> DEFINE OtherNext == (At("gallery") /\ GalleryNext) \/ AdminNext \/ ImportNext \/ SettingsNext \/ AccountsNext
<1>1. OtherNext => page.at \in OtherPages
  <2>1. AccountsNext => page.at = "accounts"
    BY DEF AccountsNext, At
  <2> QED BY <2>1, AdminIsShown, ImportIsShown, SettingsAreShown DEF At, OtherPages, SettingsCards
<1>2. CASE UNCHANGED pageVars
  <2>1. page' = page /\ calls' = calls
    BY <1>2 DEF pageVars
  <2> QED BY <2>1 DEF WaitsInv, At
<1>3. CASE UserInv /\ PageNext
  <2>1. ~OtherNext
    BY <1>1, <1>3 DEF UserInv, PageOK, UserPageNames, OtherPages, AdminLists
  <2>2. UserNext
    BY <1>3, <2>1 DEF PageNext
  <2>3. page'.at \in {"redeem", "membership", "register", "away"}
    BY <1>3, <2>2, UserRemains DEF UserInv, PageOK, UserPageNames
  <2>4. UserWaits(page', calls')
    BY <1>3, <2>2, UsersSettle DEF WaitsInv
  <2> QED BY <2>3, <2>4 DEF WaitsInv, At, AdminLists
<1>4. CASE OtherInv /\ PageNext
  <2>1. ~UserNext
    BY <1>4, UserIsShown DEF OtherInv, UserPageNames, OtherPages, AdminLists, OtherSite, Registering
  <2>2. OtherNext
    BY <1>4, <2>1 DEF PageNext
  <2>3. OtherInv' /\ page'.at \in {page.at, "away"}
    BY <1>4, <2>2, OthersRemain
  <2>4. /\ At("gallery") => GalleryNext
        /\ At("imports") => ImportNext
        /\ At("machine") \/ At("update") \/ At("forms") => SettingsNext
        /\ At("accounts") => AccountsNext
        /\ page.at \in AdminLists => AdminNext
    BY <2>2, AdminIsShown, ImportIsShown, SettingsAreShown DEF At, AdminLists, AccountsNext, SettingsCards
  <2>l. Left.at = "away"
    BY DEF Left
  <2>5. UserWaits(page', calls')
    BY <1>4, <2>3 DEF OtherInv, OtherPages, AdminLists, UserWaits
  <2>6. At("imports")' => ImportWaits(page', calls')
    <3> SUFFICES ASSUME At("imports")' PROVE ImportWaits(page', calls')
      OBVIOUS
    <3>1. At("imports") /\ page' # Left
      BY <2>3, <2>l DEF At
    <3>2. ImportNext /\ OwnInv(page, site, calls) /\ ImportWaits(page, calls)
      BY <3>1, <2>4 DEF PagesInv, CardsInv, WaitsInv
    <3>3. CallsOK
      BY <3>2 DEF OwnInv, OwnCall, CallsOK
    <3> QED BY <3>1, <3>2, <3>3, ImportsSettle
  <2>7. At("machine")' => MachineWaits(page', calls')
    <3> SUFFICES ASSUME At("machine")' PROVE MachineWaits(page', calls')
      OBVIOUS
    <3>1. At("machine")
      BY <2>3 DEF At
    <3>2. SettingsNext /\ MachineWaits(page, calls)
      BY <3>1, <2>4 DEF WaitsInv
    <3> QED BY <3>1, <3>2, MachineSettles
  <2>8. At("update")' => CardWaits(page', calls')
    <3> SUFFICES ASSUME At("update")' PROVE CardWaits(page', calls')
      OBVIOUS
    <3>1. At("update")
      BY <2>3 DEF At
    <3>2. SettingsNext /\ CardOK(page, site, calls) /\ CardWaits(page, calls)
      BY <3>1, <2>4 DEF PagesInv, CardsInv, WaitsInv
    <3>3. CallsOK
      BY <3>2 DEF CardOK, CallsOK
    <3> QED BY <3>1, <3>2, <3>3, CardSettles
  <2>9. At("forms")' => FormsWait(page', calls')
    <3> SUFFICES ASSUME At("forms")' PROVE FormsWait(page', calls')
      OBVIOUS
    <3>1. At("forms") /\ page' # Left
      BY <2>3, <2>l DEF At
    <3>2. SettingsNext /\ FormOK(page, site, calls, clicks) /\ FormsWait(page, calls)
      BY <3>1, <2>4 DEF PagesInv, CardsInv, WaitsInv
    <3>3. CallsOK
      BY <3>2 DEF FormOK, FormCalls, CallsOK
    <3> QED BY <3>1, <3>2, <3>3, FormsSettle
  <2>10. At("accounts")' => AccountsWait(page', calls')
    <3> SUFFICES ASSUME At("accounts")' PROVE AccountsWait(page', calls')
      OBVIOUS
    <3>1. At("accounts") /\ page' # Left
      BY <2>3, <2>l DEF At
    <3>2. AccountsNext /\ AccountsOK(page, site, calls) /\ AccountsWait(page, calls)
      BY <3>1, <2>4 DEF PagesInv, CardsInv, WaitsInv
    <3>3. CallsOK
      BY <3>2 DEF AccountsOK, AccountsCall, CallsOK
    <3> QED BY <3>1, <3>2, <3>3, AccountsSettling
  <2>11. page'.at \in AdminLists => AdminWaits(page', calls')
    <3> SUFFICES ASSUME page'.at \in AdminLists PROVE AdminWaits(page', calls')
      OBVIOUS
    <3>1. page.at \in AdminLists /\ page' # Left
      BY <2>3, <2>l DEF AdminLists
    <3>2. AdminNext /\ AdminOK(page, site, calls) /\ AdminWaits(page, calls)
      BY <3>1, <2>4 DEF PagesInv, CardsInv, WaitsInv
    <3>3. CallsOK
      BY <3>2 DEF AdminOK, AdminCall, CallsOK
    <3> QED BY <3>1, <3>2, <3>3, AdminSettling
  <2>12. At("gallery")' => GalleryWaits(page', calls')
    <3> SUFFICES ASSUME At("gallery")' PROVE GalleryWaits(page', calls')
      OBVIOUS
    <3>1. At("gallery") /\ page' # Left
      BY <2>3, <2>l DEF At
    <3>2. GalleryNext /\ GalleryWaits(page, calls)
      BY <3>1, <2>4 DEF WaitsInv
    <3> QED BY <3>1, <3>2, GallerySettling
  <2> QED BY <2>5, <2>6, <2>7, <2>8, <2>9, <2>10, <2>11, <2>12 DEF WaitsInv, At
<1> QED
  BY <1>2, <1>3, <1>4 DEF PagesInv, ShownInv

\* What the page waits for settles, as the property says it of each page.
LEMMA WaitsSettle == WaitsInv => PagesSettle
<1> SUFFICES ASSUME WaitsInv PROVE PagesSettle
  OBVIOUS
<1>1. GallerySettles
  BY GalleryHasSettled DEF WaitsInv, GallerySettles
<1>2. AdminSettles
  BY AdminHasSettled DEF WaitsInv, AdminSettles
<1>3. UserPagesSettle
  <2>1. At("redeem") => RedeemWaits(page, calls)
    BY DEF WaitsInv, UserWaits, At
  <2>2. At("membership") => MemberWaits(page, calls)
    BY DEF WaitsInv, UserWaits, At
  <2>3. At("register") => FormWaits(page, calls)
    BY DEF WaitsInv, UserWaits, At
  <2> QED BY <2>1, <2>2, <2>3 DEF UserPagesSettle, RedeemWaits, MemberWaits, FormWaits, Under
<1>4. ImportPagesSettle
  BY DEF WaitsInv, ImportPagesSettle, ImportWaits, Importing, At, Under
<1>5. SettingsPagesSettle
  <2>1. ASSUME Machine, page.loading
        PROVE  Load("machine", "shown") \in calls \/ \E c \in Answered("machine") : c.arg = "shown"
    <3>1. PICK c \in calls : c.op = "machine" /\ c.arg = "shown" /\ IsCall(c) /\ c.by = 0
      BY <2>1 DEF WaitsInv, MachineWaits, Machine
    <3>2. CASE c.got = Nothing
      BY <3>1, <3>2 DEF IsCall, Load
    <3>3. CASE c.got # Nothing
      BY <3>1, <3>3 DEF Answered
    <3> QED BY <3>2, <3>3
  <2>2. Machine /\ page.saving => \E c \in calls : c.op # "machine"
    BY DEF WaitsInv, MachineWaits, Machine
  <2>3. /\ Forms => FormsWait(page, calls)
        /\ Card => CardWaits(page, calls)
    BY DEF WaitsInv, Forms, Card
  <2> QED BY <2>1, <2>2, <2>3 DEF SettingsPagesSettle, FormsWait, CardWaits, Under
<1>6. AccountsSettle
  BY AccountsHaveSettled DEF WaitsInv, AccountsSettle
<1> QED
  BY <1>1, <1>2, <1>3, <1>4, <1>5, <1>6 DEF PagesSettle

\* Nothing stays disabled, on any page: whatever button, spinner or dialog waits is waiting for a
\* request that is under way, whichever requests failed, were overtaken or were left behind before.
THEOREM PagesAlwaysSettle == PageSpec => []PagesSettle
<1> QED
  BY PagesStart, PagesKeep, WaitsStart, WaitsKeep, WaitsSettle, PTL DEF PageSpec

-----------------------------------------------------------------------------
(* The gallery: images, listings and previews. *)

\* There are finitely many images.
LEMMA ImagesAreFinite == IsFiniteSet(GalleryImages) /\ GalleryImages \subseteq Int /\ NoImage \notin GalleryImages
<1>1. MaxImages \in Int /\ 1 \in Int
  BY GalleryAssumption
<1>2. IsFiniteSet(1 .. MaxImages)
  BY <1>1, FS_Interval
<1> QED
  BY <1>1, <1>2 DEF GalleryImages, NoImage

\* Some images have an oldest one, and a newest one.
LEMMA Extremes ==
    ASSUME NEW S, S \subseteq GalleryImages, S # {}
    PROVE  (\E m \in S : \A j \in S : m <= j) /\ (\E m \in S : \A j \in S : j <= m)
<1>1. IsFiniteSet(S) /\ S \subseteq Int
  BY ImagesAreFinite, FS_Subset
<1>2. IsWellFoundedOn(StrictSubsetOrdering(S), SUBSET S)
  BY <1>1, FS_StrictSubsetOrderingWellFounded, FS_FiniteSubsetsOfFinite
<1>3. \E m \in S : \A j \in S : m <= j
  <2> DEFINE Up(k) == {j \in S : j <= k}
             B == {Up(k) : k \in S}
  <2>1. B \subseteq SUBSET S /\ B # {}
    OBVIOUS
  <2> HIDE DEF B
  <2>2. PICK s \in B : \A t \in B : <<t, s>> \notin StrictSubsetOrdering(S)
    BY <1>2, <2>1, WFMin
  <2>3. PICK m \in S : s = Up(m)
    BY DEF B
  <2>4. ASSUME NEW j \in S, j < m PROVE FALSE
    <3>0. Up(j) \in B
      BY DEF B
    <3>4. \A i \in S : i <= j => i <= m
      BY <1>1, <2>4
    <3>1. Up(j) \subseteq Up(m)
      BY <3>4
    <3>2. m \in Up(m) /\ m \notin Up(j)
      BY <1>1, <2>4
    <3>3. <<Up(j), s>> \in StrictSubsetOrdering(S)
      BY <2>1, <2>3, <3>0, <3>1, <3>2 DEF StrictSubsetOrdering
    <3> QED BY <2>2, <3>0, <3>3
  <2> QED BY <1>1, <2>4
<1>4. \E m \in S : \A j \in S : j <= m
  <2> DEFINE Up(k) == {j \in S : j >= k}
             B == {Up(k) : k \in S}
  <2>1. B \subseteq SUBSET S /\ B # {}
    OBVIOUS
  <2> HIDE DEF B
  <2>2. PICK s \in B : \A t \in B : <<t, s>> \notin StrictSubsetOrdering(S)
    BY <1>2, <2>1, WFMin
  <2>3. PICK m \in S : s = Up(m)
    BY DEF B
  <2>4. ASSUME NEW j \in S, j > m PROVE FALSE
    <3>0. Up(j) \in B
      BY DEF B
    <3>4. \A i \in S : i >= j => i >= m
      BY <1>1, <2>4
    <3>1. Up(j) \subseteq Up(m)
      BY <3>4
    <3>2. m \in Up(m) /\ m \notin Up(j)
      BY <1>1, <2>4
    <3>3. <<Up(j), s>> \in StrictSubsetOrdering(S)
      BY <2>1, <2>3, <3>0, <3>1, <3>2 DEF StrictSubsetOrdering
    <3> QED BY <2>2, <3>0, <3>3
  <2> QED BY <1>1, <2>4
<1> QED
  BY <1>3, <1>4

\* A page of the list has images that were found, and its cursor is newer than every image found that it leaves out.
LEMMA ListPageFits ==
    ASSUME NEW read, read \subseteq GalleryImages
    PROVE  /\ ListPage(read).ok /\ ListPage(read).items \subseteq read \cap site.files
           /\ ListPage(read).cursor \in ListPage(read).items \cup {NoImage} /\ ListPage(read).read = read
           /\ \A i \in read \cap site.files : i \notin ListPage(read).items =>
                ListPage(read).hasMore /\ i < ListPage(read).cursor
<1> DEFINE found == read \cap site.files
           Newer(i) == {j \in found : j >= i}
           listed == {i \in found : Cardinality(Newer(i)) <= PageSize}
           cursor == IF found = listed THEN NoImage ELSE Oldest(listed)
<1>1. found \subseteq GalleryImages /\ found \subseteq Int /\ IsFiniteSet(found)
  BY ImagesAreFinite, FS_Subset
<1>p. PageSize \in Nat /\ PageSize >= 1
  BY GalleryAssumption
<1>2. ListPage(read) = [ok |-> TRUE, read |-> read, items |-> listed, cursor |-> cursor, hasMore |-> found # listed]
  BY DEF ListPage
<1>3. listed \subseteq found
  OBVIOUS
<1>4. ASSUME NEW i \in found, i \notin listed PROVE found # listed /\ cursor \in listed /\ i < cursor
  <2>1. PICK m \in found : \A j \in found : j <= m
    BY <1>1, <1>4, Extremes
  <2>2. Newer(m) = {m}
    BY <1>1, <2>1
  <2>3. m \in listed
    BY <1>p, <2>2, FS_Singleton
  <2>4. PICK o \in listed : \A j \in listed : o <= j
    <3>1. listed \subseteq GalleryImages /\ listed # {}
      BY <1>1, <1>3, <2>3
    <3> HIDE DEF listed
    <3> QED BY <3>1, Extremes
  <2>5. cursor \in listed
    <3>1. found # listed
      BY <1>4
    <3> HIDE DEF listed, found
    <3>2. Oldest(listed) \in listed
      BY <2>4 DEF Oldest
    <3> QED BY <3>1, <3>2
  <2>6. ASSUME NEW k \in listed PROVE i < k
    <3>1. CASE i >= k
      <4>1. Newer(i) \subseteq Newer(k)
        BY <1>1, <3>1
      <4>2. IsFiniteSet(Newer(k)) /\ IsFiniteSet(Newer(i))
        BY <1>1, FS_Subset
      <4>3. Cardinality(Newer(i)) <= Cardinality(Newer(k)) /\ Cardinality(Newer(i)) \in Nat /\ Cardinality(Newer(k)) \in Nat
        BY <4>1, <4>2, FS_Subset, FS_CardinalityType
      <4>4. Cardinality(Newer(k)) <= PageSize /\ ~(Cardinality(Newer(i)) <= PageSize)
        BY <1>4
      <4> QED BY <1>p, <4>3, <4>4
    <3> QED BY <1>1, <1>3, <3>1
  <2> QED BY <1>4, <2>5, <2>6
<1> HIDE DEF listed, found, cursor
<1>5. cursor \in listed \cup {NoImage}
  BY <1>3, <1>4 DEF cursor
<1>6. /\ ListPage(read).ok /\ ListPage(read).items = listed /\ ListPage(read).cursor = cursor
      /\ ListPage(read).hasMore = (found # listed) /\ ListPage(read).read = read
  BY <1>2
<1>7. found = read \cap site.files
  BY DEF found
<1> QED
  BY <1>3, <1>4, <1>5, <1>6, <1>7

\* Images that were committed, those that can be listed, those of them that are to be on the page, and what a
\* cursor leaves of a set.
Made(s) == Committed(s.rows)
There(s) == {i \in GalleryImages : s.rows[i] = "available"}
Due(s) == There(s) \ s.late
Below(cursor, ids) == {i \in ids : cursor = NoImage \/ i < cursor}

\* What the site keeps.
RowStates == {"none", "saving", "available", "deleted", "missing", "lost"}
GallerySite(s) ==
    /\ s = [rows |-> s.rows, files |-> s.files, urls |-> s.urls, late |-> s.late]
    /\ s.rows \in [GalleryImages -> RowStates] /\ s.files \subseteq GalleryImages

\* What is shown has no gaps and nothing deleted.
Gapless(p, s) ==
    \A i \in Due(s) \cap s.files : i \notin p.items => (\A j \in p.items : i > j) \/ (p.hasMore /\ i < p.cursor)
GalleryShown(p, s) ==
    /\ {"items", "deleted", "preview", "cursor", "hasMore", "confirm", "request"} \subseteq DOMAIN p
    /\ p.items \subseteq Made(s) /\ p.cursor \in Made(s) \cup {NoImage} /\ p.confirm \in GalleryImages \cup {NoImage}
    /\ p.deleted \subseteq Made(s) \ There(s) /\ p.items \cap p.deleted = {}
    /\ Gapless(p, s)

\* What a listing has read, and what it answers.
Read(c, s) == c.got \subseteq Below(c.arg.cursor, Made(s))
Found(c, s) ==
    /\ c.got.items \subseteq Below(c.arg.cursor, Made(s)) /\ c.got.cursor \in Made(s) \cup {NoImage}
    /\ c.got.read \subseteq Below(c.arg.cursor, Made(s))

\* Of the images that the last listing was to read, those that it leaves out are newer than all of it, or behind
\* its own cursor, unless they were committed late: and those as well, if it has read them.
ReadAll(c, s) ==
    \A i \in Below(c.arg.cursor, Due(s)) : i \notin c.got => c.arg.cursor = NoImage /\ \A j \in c.got : i > j
FoundAll(c, s) ==
    \A i \in Below(c.arg.cursor, There(s) \cap s.files) : (i \in Due(s) \/ i \in c.got.read) /\ i \notin c.got.items =>
      \/ c.arg.cursor = NoImage /\ \A j \in c.got.items : i > j
      \/ c.got.hasMore /\ i < c.got.cursor
Listed(p, c, s) ==
    /\ Lists(c) => c.arg.cursor \in Made(s) \cup {NoImage}
    /\ c.op = "listing" => Read(c, s) /\ (Current(p, c) => ReadAll(c, s))
    /\ c.op = "list" /\ c.got # Nothing => c.got = Failure \/ (c.got.ok /\ Found(c, s) /\ (Current(p, c) => FoundAll(c, s)))

\* A deletion that succeeded is of an image that is gone.
Deleting(c, s) ==
    /\ c.op \in {"delete", "unlink"} => c.arg \in GalleryImages
    /\ c.op = "unlink" \/ (c.op = "delete" /\ c.got # Nothing /\ c.got.ok) => c.arg \in Made(s) \ There(s)

\* The last listing is one, and goes on where the page ends.
LastOne(p, cs) ==
    /\ \A c \in cs : Current(p, c) /\ c.arg.cursor # NoImage => c.arg.cursor = p.cursor
    /\ \A c, d \in cs : Current(p, c) /\ Current(p, d) => c = d
GalleryList(p, s, cs) ==
    GallerySite(s) /\ GalleryShown(p, s) /\ (\A c \in cs : Listed(p, c, s) /\ Deleting(c, s)) /\ LastOne(p, cs)

\* Images that go, and files that go, leave the list and the listings as good as they were.
LEMMA LaterSite ==
    ASSUME NEW p, NEW s, NEW cs, GalleryList(p, s, cs), NEW t, GallerySite(t), t.late = s.late,
           Made(s) \subseteq Made(t), There(t) \subseteq There(s), There(t) \cap t.files \subseteq s.files
    PROVE  GalleryList(p, t, cs)
<1>d. Due(t) \subseteq Due(s)
  BY DEF Due
<1>1. GalleryShown(p, t)
  <2>1. Gapless(p, t)
    BY <1>d DEF GalleryList, GalleryShown, Gapless, Due
  <2> QED BY <2>1 DEF GalleryList, GalleryShown
<1>2. ASSUME NEW c \in cs PROVE Listed(p, c, t) /\ Deleting(c, t)
  <2>1. Listed(p, c, s) /\ Deleting(c, s)
    BY DEF GalleryList
  <2>2. (Read(c, s) => Read(c, t)) /\ (Found(c, s) => Found(c, t))
    BY DEF Read, Found, Below
  <2>3. ReadAll(c, s) => ReadAll(c, t)
    BY <1>d DEF ReadAll, Below
  <2>4. FoundAll(c, s) => FoundAll(c, t)
    BY <1>d DEF FoundAll, Below
  <2>5. Listed(p, c, t)
    BY <2>1, <2>2, <2>3, <2>4 DEF Listed
  <2>6. Deleting(c, t)
    BY <2>1 DEF Deleting
  <2> QED BY <2>5, <2>6
<1> QED
  BY <1>1, <1>2 DEF GalleryList

\* An image that is committed is newer than all that were, so it is a gap nowhere, or it is late.
LEMMA CommittedSite ==
    ASSUME NEW p, NEW s, NEW cs, GalleryList(p, s, cs), NEW t, NEW n \in GalleryImages \ Made(s), GallerySite(t),
           t.rows = [s.rows EXCEPT ![n] = "available"], t.files = s.files,
           t.late = IF \E j \in Made(s) : n < j THEN s.late \cup {n} ELSE s.late
    PROVE  GalleryList(p, t, cs)
<1>i. GalleryImages \subseteq Int /\ NoImage \notin GalleryImages
  BY ImagesAreFinite
<1>s. GallerySite(s)
  BY DEF GalleryList
<1>1. Made(t) = Made(s) \cup {n} /\ There(t) = There(s) \cup {n}
  BY <1>s DEF GallerySite, Made, Committed, There
<1>2. Due(t) \subseteq Due(s) \cup {n} /\ (n \in Due(t) => \A j \in Made(s) : j \in Int /\ n \in Int /\ n > j)
  <2>1. \A j \in Made(s) : j \in Int /\ n \in Int /\ (n < j \/ n > j)
    BY <1>i DEF Made, Committed
  <2> QED BY <1>1, <2>1 DEF Due
<1>3. GalleryShown(p, t)
  <2>1. Gapless(p, t)
    <3>1. ASSUME NEW i \in Due(t) \cap t.files, i \notin p.items
          PROVE  (\A j \in p.items : i > j) \/ (p.hasMore /\ i < p.cursor)
      BY <1>2, <3>1 DEF GalleryList, GalleryShown, Gapless
    <3> QED BY <3>1 DEF Gapless
  <2>2. p.deleted \subseteq Made(t) \ There(t)
    BY <1>1 DEF GalleryList, GalleryShown
  <2> QED BY <1>1, <2>1, <2>2 DEF GalleryList, GalleryShown
<1>4. ASSUME NEW c \in cs PROVE Listed(p, c, t) /\ Deleting(c, t)
  <2>1. Listed(p, c, s) /\ Deleting(c, s)
    BY DEF GalleryList
  <2>2. (Read(c, s) => Read(c, t)) /\ (Found(c, s) => Found(c, t))
    BY <1>1 DEF Read, Found, Below
  <2>m. ASSUME c.arg.cursor \in Made(s) \cup {NoImage}, n \in Due(t), n \in Below(c.arg.cursor, {n})
        PROVE  c.arg.cursor = NoImage
    BY <1>2, <2>m DEF Below
  <2>3. ASSUME Read(c, s), ReadAll(c, s), c.arg.cursor \in Made(s) \cup {NoImage} PROVE ReadAll(c, t)
    <3>1. ASSUME NEW i \in Below(c.arg.cursor, Due(t)), i \notin c.got
          PROVE  c.arg.cursor = NoImage /\ \A j \in c.got : i > j
      <4>1. CASE i = n
        BY <1>2, <2>3, <2>m, <3>1, <4>1 DEF Read, Below
      <4>2. CASE i # n
        BY <1>2, <2>3, <3>1, <4>2 DEF ReadAll, Below
      <4> QED BY <4>1, <4>2
    <3> QED BY <3>1 DEF ReadAll
  <2>4. ASSUME Found(c, s), FoundAll(c, s), c.arg.cursor \in Made(s) \cup {NoImage} PROVE FoundAll(c, t)
    <3>1. ASSUME NEW i \in Below(c.arg.cursor, There(t) \cap t.files), i \in Due(t) \/ i \in c.got.read, i \notin c.got.items
          PROVE  \/ c.arg.cursor = NoImage /\ \A j \in c.got.items : i > j
                 \/ c.got.hasMore /\ i < c.got.cursor
      <4>1. CASE i = n
        <5>1. n \in Due(t) /\ n \in Below(c.arg.cursor, {n})
          BY <2>4, <3>1, <4>1 DEF Found, Below
        <5> QED BY <1>2, <2>4, <2>m, <4>1, <5>1 DEF Found, Below
      <4>2. CASE i # n
        BY <1>1, <1>2, <2>4, <3>1, <4>2 DEF FoundAll, Below
      <4> QED BY <4>1, <4>2
    <3> QED BY <3>1 DEF FoundAll
  <2>5. Listed(p, c, t)
    BY <2>1, <2>2, <2>3, <2>4, <1>1 DEF Listed, Lists
  <2>6. Deleting(c, t)
    BY <2>1, <1>1 DEF Deleting
  <2> QED BY <2>5, <2>6
<1> QED
  BY <1>3, <1>4 DEF GalleryList

\* A request that goes on keeps the list as good.
LEMMA ListGoesOn ==
    ASSUME NEW p, NEW s, NEW cs, GalleryList(p, s, cs), NEW c \in cs, NEW d, d.arg = c.arg, Lists(d) <=> Lists(c),
           Listed(p, d, s), Deleting(d, s)
    PROVE  GalleryList(p, s, (cs \ {c}) \cup {d})
<1>1. Current(p, d) <=> Current(p, c)
  BY DEF Current
<1>2. LastOne(p, (cs \ {c}) \cup {d})
  BY <1>1 DEF GalleryList, LastOne
<1> QED
  BY <1>2 DEF GalleryList

\* So do requests that are over, or that neither list nor delete.
LEMMA ListStays ==
    ASSUME NEW p, NEW s, NEW cs, GalleryList(p, s, cs), NEW ds,
           \A d \in ds : d \in cs \/ d.op \notin {"list", "listing", "delete", "unlink"}
    PROVE  GalleryList(p, s, ds)
<1>1. \A d \in ds : Lists(d) => d \in cs
  BY DEF Lists
<1>2. \A d \in ds : Listed(p, d, s) /\ Deleting(d, s)
  BY DEF GalleryList, Listed, Deleting, Lists
<1>3. LastOne(p, ds)
  BY <1>1 DEF GalleryList, LastOne, Current
<1> QED
  BY <1>2, <1>3 DEF GalleryList

\* A preview is of an image that is shown, by a URL of its own that was not revoked.
GalleryPreviews(p, s, cs, n) ==
    /\ n \in Nat /\ "preview" \in DOMAIN p /\ "items" \in DOMAIN p /\ p.preview \in [GalleryImages -> Int]
    /\ p.items \subseteq GalleryImages
    /\ \A i \in GalleryImages : p.preview[i] # NoImage =>
         i \in p.items /\ \E b \in Nat : p.preview[i] = 1 + b * MaxImages + i
    /\ \A u : u \in s.urls <=> u # NoImage /\ \E i \in p.items : p.preview[i] = u
    /\ \A c \in cs : c.op = "preview" => c.arg \in GalleryImages /\ c.by \in Nat

\* Previews stay while other things happen.
LEMMA PreviewsStay ==
    ASSUME NEW p, NEW s, NEW cs, NEW n, GalleryPreviews(p, s, cs, n), NEW q, NEW t, NEW ds, NEW m \in Nat,
           {"items", "preview"} \subseteq DOMAIN q, q.items = p.items, q.preview = p.preview, t.urls = s.urls,
           \A d \in ds : d \in cs \/ d.op # "preview" \/ (d.arg \in GalleryImages /\ d.by \in Nat)
    PROVE  GalleryPreviews(q, t, ds, m)
BY DEF GalleryPreviews

\* URLs that were given to different images differ.
LEMMA URLsDiffer ==
    ASSUME NEW a \in Nat, NEW b \in Nat, NEW i \in GalleryImages, NEW j \in GalleryImages,
           1 + a * MaxImages + i = 1 + b * MaxImages + j
    PROVE  i = j
<1>1. MaxImages \in Nat /\ i \in 1 .. MaxImages /\ j \in 1 .. MaxImages
  BY GalleryAssumption DEF GalleryImages
<1>2. a * MaxImages + i = b * MaxImages + j /\ a * MaxImages \in Nat /\ b * MaxImages \in Nat
  BY <1>1
<1>3. CASE a = b
  BY <1>1, <1>2, <1>3
<1>4. ASSUME NEW x \in Nat, NEW y \in Nat, x < y PROVE x * MaxImages + MaxImages <= y * MaxImages
  <2>1. PICK k \in Nat : y = x + 1 + k
    <3>1. y - x - 1 \in Nat /\ y = x + 1 + (y - x - 1)
      BY <1>4
    <3> QED BY <3>1
  <2>2. y * MaxImages = x * MaxImages + MaxImages + k * MaxImages
    BY <1>1, <2>1
  <2>3. k * MaxImages \in Nat /\ x * MaxImages \in Nat
    BY <1>1
  <2> QED BY <1>1, <2>2, <2>3
<1>5. CASE a < b
  BY <1>1, <1>2, <1>4, <1>5
<1>6. CASE b < a
  BY <1>1, <1>2, <1>4, <1>6
<1> QED
  BY <1>3, <1>5, <1>6

\* An image whose preview comes gets a URL that is nobody's.
LEMMA PreviewComes ==
    ASSUME NEW p, NEW s, NEW cs, NEW n, GalleryPreviews(p, s, cs, n), NEW i \in p.items, p.preview[i] = NoImage,
           NEW b \in Nat, NEW url, url = 1 + b * MaxImages + i, "urls" \in DOMAIN s
    PROVE  GalleryPreviews([p EXCEPT !.preview[i] = url], [s EXCEPT !.urls = s.urls \cup {url}], cs, n)
<1> DEFINE q == [p EXCEPT !.preview[i] = url]
           t == [s EXCEPT !.urls = s.urls \cup {url}]
<1>1. i \in GalleryImages /\ url \in Int /\ url # NoImage
  <2>1. i \in GalleryImages
    BY DEF GalleryPreviews
  <2>2. MaxImages \in Nat /\ i \in 1 .. MaxImages
    BY <2>1, GalleryAssumption DEF GalleryImages
  <2>3. b * MaxImages \in Nat
    BY <2>2
  <2> QED BY <2>1, <2>2, <2>3 DEF NoImage
<1>2. /\ "preview" \in DOMAIN q /\ "items" \in DOMAIN q /\ q.items = p.items
      /\ q.preview = [p.preview EXCEPT ![i] = url]
      /\ t.urls = s.urls \cup {url}
  BY DEF GalleryPreviews
<1> HIDE DEF q, t
<1>3. q.preview \in [GalleryImages -> Int] /\ \A j \in GalleryImages : q.preview[j] = IF j = i THEN url ELSE p.preview[j]
  BY <1>1, <1>2 DEF GalleryPreviews
<1>4. \A u : u \in t.urls <=> u # NoImage /\ \E j \in q.items : q.preview[j] = u
  BY <1>1, <1>2, <1>3 DEF GalleryPreviews
<1>5. \A j \in GalleryImages : q.preview[j] # NoImage => j \in q.items /\ \E a \in Nat : q.preview[j] = 1 + a * MaxImages + j
  BY <1>1, <1>2, <1>3 DEF GalleryPreviews
<1> QED
  BY <1>2, <1>3, <1>4, <1>5 DEF GalleryPreviews, q, t

\* Images that leave the list have theirs revoked, which is no other's.
LEMMA PreviewsGo ==
    ASSUME NEW p, NEW s, NEW cs, NEW n, GalleryPreviews(p, s, cs, n), NEW items, items \subseteq GalleryImages,
           NEW q, {"items", "preview"} \subseteq DOMAIN q, q.items = items,
           q.preview = [i \in GalleryImages |-> IF i \in items THEN p.preview[i] ELSE NoImage], NEW t,
           t.urls = s.urls \ {p.preview[i] : i \in {j \in GalleryImages : q.preview[j] # p.preview[j]}}
    PROVE  GalleryPreviews(q, t, cs, n)
<1>1. q.preview \in [GalleryImages -> Int] /\ NoImage \in Int
  BY DEF GalleryPreviews, NoImage
<1>2. \A i \in GalleryImages : q.preview[i] # NoImage => i \in items /\ q.preview[i] = p.preview[i]
  OBVIOUS
<1>3. ASSUME NEW u PROVE u \in t.urls <=> u # NoImage /\ \E i \in items : q.preview[i] = u
  <2>1. ASSUME u \in t.urls PROVE u # NoImage /\ \E i \in items : q.preview[i] = u
    <3>1. u \in s.urls /\ u # NoImage
      BY <2>1 DEF GalleryPreviews
    <3>2. PICK i \in p.items : p.preview[i] = u
      BY <3>1 DEF GalleryPreviews
    <3>3. i \in GalleryImages
      BY DEF GalleryPreviews
    <3>4. q.preview[i] = p.preview[i]
      BY <2>1, <3>2, <3>3
    <3>5. i \in items
      BY <1>2, <3>1, <3>2, <3>3, <3>4
    <3> QED BY <3>1, <3>2, <3>4, <3>5
  <2>2. ASSUME u # NoImage, NEW i \in items, q.preview[i] = u PROVE u \in t.urls
    <3>1. p.preview[i] = u /\ i \in GalleryImages
      BY <1>2, <2>2
    <3>2. i \in p.items /\ u \in s.urls
      BY <2>2, <3>1 DEF GalleryPreviews
    <3>3. ASSUME NEW j \in GalleryImages, q.preview[j] # p.preview[j], p.preview[j] = u PROVE FALSE
      <4>1. PICK a \in Nat : p.preview[i] = 1 + a * MaxImages + i
        BY <2>2, <3>1 DEF GalleryPreviews
      <4>2. PICK b \in Nat : p.preview[j] = 1 + b * MaxImages + j
        BY <2>2, <3>3 DEF GalleryPreviews
      <4>3. i = j
        BY <3>1, <3>3, <4>1, <4>2, URLsDiffer
      <4> QED BY <2>2, <3>1, <3>3, <4>3
    <3> QED BY <3>2, <3>3
  <2> QED BY <2>1, <2>2
<1> QED
  BY <1>1, <1>2, <1>3 DEF GalleryPreviews

-----------------------------------------------------------------------------
(* The gallery: what it shows follows the site. *)

\* What the gallery shows, lists and deletes, and its previews.
GalleryOK(p, s, cs, n) == GalleryList(p, s, cs) /\ GalleryPreviews(p, s, cs, n)

\* The steps of the site keep it.
LEMMA GallerySiteFollows ==
    ASSUME GalleryOK(page, site, calls, clicks), CallsOK, NEW c \in calls,
           ReadRows(c) \/ JudgeRows(c) \/ MarkDeleted(c) \/ Unlink(c) \/ GalleryFails(c)
    PROVE  GalleryOK(page', site', calls', clicks')
<1>w. /\ GalleryList(page, site, calls) /\ GallerySite(site) /\ GalleryShown(page, site) /\ Listed(page, c, site) /\ Deleting(c, site)
      /\ GalleryPreviews(page, site, calls, clicks) /\ {"items", "preview"} \subseteq DOMAIN page /\ clicks \in Nat
  BY DEF GalleryOK, GalleryList, GalleryShown, GalleryPreviews
<1>c. IsCall(c)
  BY DEF CallsOK
<1>i. GalleryImages \subseteq Int /\ NoImage \notin GalleryImages
  BY ImagesAreFinite
<1>p. ASSUME page' = page, site'.urls = site.urls, clicks' \in Nat, NEW d, d.op # "preview", calls' = (calls \ {c}) \cup {d}
      PROVE  GalleryPreviews(page', site', calls', clicks')
  <2>1. \A x \in calls' : x \in calls \/ x.op # "preview"
    BY <1>p
  <2> QED BY <1>p, <1>w, <2>1, PreviewsStay
<1>1. CASE ReadRows(c)
  <2> DEFINE e == [c EXCEPT !.op = "listing"]
             d == [e EXCEPT !.got = RowCandidates(c.arg.cursor)]
  <2>1. c.op = "list" /\ calls' = (calls \ {c}) \cup {d} /\ page' = page /\ site' = site /\ clicks' = clicks
    BY <1>1 DEF ReadRows, Pending
  <2>e. IsCall(e) /\ e.arg = c.arg /\ e.op = "listing"
    BY <1>c, OpKeeps
  <2> HIDE DEF e
  <2>2. d.arg = c.arg /\ d.op = "listing" /\ d.got = RowCandidates(c.arg.cursor)
    BY <2>e, GotKeeps
  <2> HIDE DEF d
  <2>3. RowCandidates(c.arg.cursor) = Below(c.arg.cursor, There(site))
    BY DEF RowCandidates, Below, There
  <2>4. Read(d, site) /\ ReadAll(d, site)
    BY <2>2, <2>3 DEF Read, ReadAll, Below, There, Made, Committed, Due
  <2>5. Listed(page, d, site) /\ Deleting(d, site) /\ Lists(c) /\ Lists(d)
    BY <1>w, <2>1, <2>2, <2>4 DEF Listed, Deleting, Lists
  <2>6. GalleryList(page', site', calls')
    BY <1>w, <2>1, <2>2, <2>5, ListGoesOn
  <2>7. GalleryPreviews(page', site', calls', clicks')
    BY <1>p, <1>w, <2>1, <2>2
  <2> QED BY <2>6, <2>7 DEF GalleryOK
<1>2. CASE JudgeRows(c)
  <2> DEFINE found == ListPage(c.got)
             e == [c EXCEPT !.op = "list"]
             d == [e EXCEPT !.got = found]
             rows == [i \in GalleryImages |-> IF i \in Judged(c.got) \ site.files THEN "missing" ELSE site.rows[i]]
  <2>1. /\ c.op = "listing" /\ calls' = (calls \ {c}) \cup {d} /\ page' = page /\ clicks' = clicks
        /\ site' = [rows |-> rows, files |-> site.files, urls |-> site.urls, late |-> site.late]
    BY <1>2, <1>w DEF JudgeRows, Under, GallerySite
  <2>e. IsCall(e) /\ e.arg = c.arg /\ e.op = "list"
    BY <1>c, OpKeeps
  <2> HIDE DEF e
  <2>2. d.arg = c.arg /\ d.op = "list" /\ d.got = found
    BY <2>e, GotKeeps
  <2> HIDE DEF d
  <2>3. Read(c, site) /\ (Current(page, c) => ReadAll(c, site))
    BY <1>w, <2>1 DEF Listed
  <2>r. c.got \subseteq Made(site) /\ c.got \subseteq GalleryImages
    BY <2>3 DEF Read, Below, Made, Committed
  <2>4. \A i \in GalleryImages : rows[i] = IF i \in Judged(c.got) \ site.files THEN "missing" ELSE site.rows[i]
    OBVIOUS
  <2>5. Judged(c.got) \subseteq Made(site)
    BY <2>r DEF Judged
  <2>6. /\ Made(site') = Made(site) /\ There(site') \subseteq There(site) /\ site'.files = site.files
        /\ site'.urls = site.urls /\ site'.late = site.late /\ Due(site') \subseteq Due(site)
    BY <2>1, <2>4, <2>5 DEF Made, Committed, There, Due
  <2>7. GallerySite(site')
    <3>1. site'.rows \in [GalleryImages -> RowStates]
      BY <1>w, <2>1 DEF GallerySite, RowStates
    <3>2. site' = [rows |-> site'.rows, files |-> site'.files, urls |-> site'.urls, late |-> site'.late]
      BY <2>1
    <3> QED BY <1>w, <2>6, <3>1, <3>2 DEF GallerySite
  <2> HIDE DEF rows
  <2>8. GalleryList(page, site', calls)
    BY <1>w, <2>6, <2>7, LaterSite
  <2>9. /\ found.ok /\ found.items \subseteq c.got \cap site.files
        /\ found.cursor \in found.items \cup {NoImage} /\ found.read = c.got
        /\ \A i \in c.got \cap site.files : i \notin found.items => found.hasMore /\ i < found.cursor
    BY <2>r, ListPageFits
  <2> HIDE DEF found
  <2>10. Found(d, site')
    <3>1. found.items \subseteq Below(d.arg.cursor, Made(site')) /\ found.read \subseteq Below(d.arg.cursor, Made(site'))
      BY <2>2, <2>3, <2>6, <2>9 DEF Read
    <3>2. found.cursor \in Made(site') \cup {NoImage}
      BY <2>6, <2>9, <2>r
    <3> QED BY <2>2, <3>1, <3>2 DEF Found
  <2>c. Current(page, d) <=> Current(page, c)
    BY <2>1, <2>2 DEF Current, Lists
  <2>11. ASSUME Current(page, d) PROVE FoundAll(d, site')
    <3>1. ASSUME NEW i \in Below(d.arg.cursor, There(site') \cap site'.files), i \in Due(site') \/ i \in found.read,
                 i \notin found.items
          PROVE  (d.arg.cursor = NoImage /\ \A j \in found.items : i > j) \/ (found.hasMore /\ i < found.cursor)
      <4>1. CASE i \in c.got
        <5>1. i \in c.got \cap site.files
          BY <2>6, <3>1, <4>1 DEF Below
        <5> QED BY <2>9, <3>1, <5>1
      <4>2. CASE i \notin c.got
        <5>1. i \in Below(c.arg.cursor, Due(site))
          BY <2>2, <2>6, <2>9, <3>1, <4>2 DEF Below
        <5>2. ReadAll(c, site)
          BY <2>3, <2>c, <2>11
        <5> QED BY <2>2, <2>9, <4>2, <5>1, <5>2 DEF ReadAll
      <4> QED BY <4>1, <4>2
    <3> QED BY <2>2, <3>1 DEF FoundAll
  <2>l. Listed(page, d, site') /\ Deleting(d, site') /\ Lists(c) /\ Lists(d)
    BY <1>w, <2>1, <2>2, <2>6, <2>9, <2>10, <2>11 DEF Listed, Deleting, Lists
  <2>12. GalleryList(page', site', calls')
    BY <2>1, <2>2, <2>8, <2>l, ListGoesOn
  <2>13. GalleryPreviews(page', site', calls', clicks')
    BY <1>p, <1>w, <2>1, <2>2, <2>6
  <2> QED BY <2>12, <2>13 DEF GalleryOK
<1>f. ASSUME page' = page, site' = site, clicks' \in Nat, Served(c, Failure), c.op \in {"list", "delete"}
      PROVE  GalleryOK(page', site', calls', clicks')
  <2> DEFINE d == [c EXCEPT !.got = Failure]
  <2>1. d.arg = c.arg /\ d.op = c.op /\ d.got = Failure
    BY <1>c, GotKeeps
  <2>2. calls' = (calls \ {c}) \cup {d}
    BY <1>f DEF Served
  <2> HIDE DEF d
  <2>3. ~Failure.ok
    BY DEF Failure
  <2>4. Listed(page, d, site) /\ Deleting(d, site) /\ (Lists(d) <=> Lists(c))
    BY <1>f, <1>w, <2>1, <2>3 DEF Listed, Deleting, Lists
  <2>5. GalleryList(page', site', calls')
    BY <1>f, <1>w, <2>1, <2>2, <2>4, ListGoesOn
  <2>6. GalleryPreviews(page', site', calls', clicks')
    BY <1>f, <1>p, <2>1, <2>2
  <2> QED BY <2>5, <2>6 DEF GalleryOK
<1>3. CASE MarkDeleted(c)
  <2>1. c.op = "delete" /\ page' = page /\ clicks' = clicks /\ c.arg \in GalleryImages
    BY <1>3, <1>w DEF MarkDeleted, Pending, Deleting
  <2>2. CASE site.rows[c.arg] # "available"
    BY <1>3, <1>f, <1>w, <2>1, <2>2 DEF MarkDeleted
  <2>3. CASE site.rows[c.arg] = "available"
    <3> DEFINE d == [c EXCEPT !.op = "unlink"]
               rows == [site.rows EXCEPT ![c.arg] = "deleted"]
    <3>1. /\ calls' = (calls \ {c}) \cup {d}
          /\ site' = [rows |-> rows, files |-> site.files, urls |-> site.urls, late |-> site.late]
      BY <1>3, <1>w, <2>3 DEF MarkDeleted, GallerySite
    <3>2. d.arg = c.arg /\ d.op = "unlink"
      BY <1>c, OpKeeps
    <3> HIDE DEF d
    <3>3. rows \in [GalleryImages -> RowStates]
          /\ \A i \in GalleryImages : rows[i] = IF i = c.arg THEN "deleted" ELSE site.rows[i]
      BY <1>w, <2>1 DEF GallerySite, RowStates
    <3> HIDE DEF rows
    <3>4. /\ Made(site') = Made(site) /\ There(site') = There(site) \ {c.arg} /\ c.arg \in Made(site)
          /\ site'.files = site.files /\ site'.urls = site.urls /\ site'.late = site.late
      BY <2>1, <2>3, <3>1, <3>3 DEF Made, Committed, There
    <3>5. GallerySite(site')
      <4>1. site' = [rows |-> site'.rows, files |-> site'.files, urls |-> site'.urls, late |-> site'.late] /\ site'.rows = rows
        BY <3>1
      <4> QED BY <1>w, <3>3, <3>4, <4>1 DEF GallerySite
    <3>6. GalleryList(page, site', calls)
      BY <1>w, <3>4, <3>5, LaterSite
    <3>7. Listed(page, d, site') /\ Deleting(d, site') /\ ~Lists(d) /\ ~Lists(c)
      BY <2>1, <3>2, <3>4 DEF Listed, Deleting, Lists
    <3>8. GalleryList(page', site', calls')
      BY <2>1, <3>1, <3>2, <3>6, <3>7, ListGoesOn
    <3>9. GalleryPreviews(page', site', calls', clicks')
      BY <1>p, <1>w, <2>1, <3>1, <3>2, <3>4
    <3> QED BY <3>8, <3>9 DEF GalleryOK
  <2> QED BY <2>2, <2>3
<1>4. CASE Unlink(c)
  <2> DEFINE g == [ok |-> TRUE]
             e == [c EXCEPT !.op = "delete"]
             d == [e EXCEPT !.got = g]
  <2>1. /\ c.op = "unlink" /\ calls' = (calls \ {c}) \cup {d} /\ page' = page /\ clicks' = clicks
        /\ site' = [rows |-> site.rows, files |-> site.files \ {c.arg}, urls |-> site.urls, late |-> site.late]
    BY <1>4, <1>w DEF Unlink, Under, GallerySite
  <2>e. IsCall(e) /\ e.arg = c.arg /\ e.op = "delete"
    BY <1>c, OpKeeps
  <2> HIDE DEF e
  <2>2. d.arg = c.arg /\ d.op = "delete"
    BY <2>e, GotKeeps
  <2> HIDE DEF d
  <2>3. /\ Made(site') = Made(site) /\ There(site') = There(site)
        /\ site'.files \subseteq site.files /\ site'.urls = site.urls /\ site'.late = site.late
    BY <2>1 DEF Made, There
  <2>4. GallerySite(site')
    <3>1. site' = [rows |-> site'.rows, files |-> site'.files, urls |-> site'.urls, late |-> site'.late] /\ site'.rows = site.rows
      BY <2>1
    <3> QED BY <1>w, <2>3, <3>1 DEF GallerySite
  <2>5. GalleryList(page, site', calls)
    BY <1>w, <2>3, <2>4, LaterSite
  <2>6. Listed(page, d, site') /\ Deleting(d, site') /\ ~Lists(d) /\ ~Lists(c)
    BY <1>w, <2>1, <2>2, <2>3 DEF Listed, Deleting, Lists
  <2>7. GalleryList(page', site', calls')
    BY <2>1, <2>2, <2>5, <2>6, ListGoesOn
  <2>8. GalleryPreviews(page', site', calls', clicks')
    BY <1>p, <1>w, <2>1, <2>2, <2>3
  <2> QED BY <2>7, <2>8 DEF GalleryOK
<1>5. CASE GalleryFails(c)
  BY <1>5, <1>f, <1>w DEF GalleryFails, Fails, Event
<1> QED
  BY <1>1, <1>2, <1>3, <1>4, <1>5

\* Pages that show the same list.
SameList(q, p) ==
    /\ {"items", "deleted", "preview", "cursor", "hasMore", "confirm", "request"} \subseteq DOMAIN q
    /\ q.items = p.items /\ q.deleted = p.deleted /\ q.cursor = p.cursor /\ q.hasMore = p.hasMore
    /\ q.request = p.request /\ q.confirm \in GalleryImages \cup {NoImage}

\* Requests that neither list nor end a deletion.
Aside(c) ==
    /\ c.op \in {"delete", "preview", "download"}
    /\ c.op = "delete" => c.arg \in GalleryImages /\ c.got = Nothing
    /\ c.op = "preview" => c.arg \in GalleryImages /\ c.by \in Nat

\* A page that shows the same list, whatever else it asks for, has it as good as before.
LEMMA SameListStays ==
    ASSUME NEW p, NEW s, NEW cs, GalleryList(p, s, cs), NEW q, SameList(q, p), NEW ds, \A d \in ds : d \in cs \/ Aside(d)
    PROVE  GalleryList(q, s, ds)
<1>1. GalleryShown(q, s)
  BY DEF GalleryList, GalleryShown, Gapless, SameList
<1>2. \A d \in ds : Lists(d) => d \in cs
  BY DEF Lists, Aside
<1>3. LastOne(q, ds)
  BY <1>2 DEF GalleryList, LastOne, Current, SameList
<1>4. \A d \in ds : Listed(q, d, s) /\ Deleting(d, s)
  <2>1. \A d : Current(q, d) <=> Current(p, d)
    BY DEF Current, SameList
  <2> QED BY <2>1 DEF GalleryList, Listed, Deleting, Lists, Aside
<1> QED
  BY <1>1, <1>3, <1>4 DEF GalleryList

\* A URL more or less is no matter to the list.
LEMMA URLsAside ==
    ASSUME NEW p, NEW s, NEW cs, GalleryList(p, s, cs), NEW urls, NEW t, t = [s EXCEPT !.urls = urls]
    PROVE  GalleryList(p, t, cs) /\ t.urls = urls
<1>1. GallerySite(s)
  BY DEF GalleryList
<1>2. t = [rows |-> s.rows, files |-> s.files, urls |-> urls, late |-> s.late]
  BY <1>1 DEF GallerySite
<1>3. /\ t.rows = s.rows /\ t.files = s.files /\ t.urls = urls /\ t.late = s.late
      /\ t = [rows |-> t.rows, files |-> t.files, urls |-> t.urls, late |-> t.late]
  BY <1>2
<1>4. Made(t) = Made(s) /\ There(t) = There(s)
  BY <1>3 DEF Made, There
<1>5. GallerySite(t)
  BY <1>1, <1>3, <1>4 DEF GallerySite
<1>6. GalleryList(p, t, cs)
  BY <1>3, <1>4, <1>5, LaterSite
<1> QED
  BY <1>3, <1>6

\* The listings that the page asks for go on where it ends.
LEMMA GalleryAsksFollow ==
    ASSUME GalleryOK(page, site, calls, clicks), GalleryWaits(page, calls), RefreshGallery \/ LoadMoreImages
    PROVE  GalleryOK(page', site', calls', clicks')
<1>1. PICK cursor : /\ calls' = calls \cup {Asks("list", [cursor |-> cursor, request |-> page.request + 1])}
                    /\ site' = site /\ clicks' = clicks + 1
                    /\ \/ cursor = NoImage /\ page' = FirstPage("refresh")
                       \/ cursor = page.cursor /\ page' = [page EXCEPT !.request = @ + 1, !.more = TRUE]
  BY DEF RefreshGallery, AskFirstPage, LoadMoreImages, Event
<1> DEFINE d == Asks("list", [cursor |-> cursor, request |-> page.request + 1])
<1>2. d.op = "list" /\ d.arg.cursor = cursor /\ d.arg.request = page.request + 1 /\ d.got = Nothing
  BY DEF Asks
<1>3. calls' = calls \cup {d}
  BY <1>1
<1> HIDE DEF d
<1>w. /\ GalleryList(page, site, calls) /\ GalleryShown(page, site) /\ GalleryPreviews(page, site, calls, clicks)
      /\ {"items", "deleted", "preview", "cursor", "hasMore", "confirm", "request"} \subseteq DOMAIN page /\ clicks \in Nat
      /\ page.request \in Int /\ \A c \in calls : Lists(c) => c.arg.request \in Int /\ c.arg.request <= page.request
  BY DEF GalleryOK, GalleryList, GalleryShown, GalleryPreviews, GalleryWaits, GalleryLists
<1>5. /\ {"items", "deleted", "preview", "cursor", "hasMore", "confirm", "request"} \subseteq DOMAIN page'
      /\ page'.items = page.items /\ page'.deleted = page.deleted /\ page'.preview = page.preview
      /\ page'.cursor = page.cursor /\ page'.hasMore = page.hasMore /\ page'.confirm = page.confirm
      /\ page'.request = page.request + 1
  <2>1. CASE page' = FirstPage("refresh")
    BY <1>w, <2>1 DEF FirstPage
  <2>2. CASE page' = [page EXCEPT !.request = @ + 1, !.more = TRUE]
    BY <1>w, <2>2
  <2> QED BY <1>1, <2>1, <2>2
<1>6. GalleryShown(page', site)
  BY <1>5, <1>w DEF GalleryShown, Gapless
<1>7. \A c \in calls : ~Current(page', c)
  BY <1>5, <1>w DEF Current
<1>8. cursor = NoImage \/ cursor = page'.cursor
  BY <1>1, <1>5
<1>9. LastOne(page', calls')
  BY <1>2, <1>3, <1>7, <1>8 DEF LastOne
<1>10. Listed(page', d, site) /\ Deleting(d, site)
  BY <1>2, <1>5, <1>6, <1>8 DEF Listed, Deleting, GalleryShown
<1>o. \A c \in calls : Listed(page', c, site) /\ Deleting(c, site)
  BY <1>7, <1>w DEF GalleryList, Listed
<1>11. GalleryList(page', site', calls')
  BY <1>1, <1>3, <1>6, <1>9, <1>10, <1>o, <1>w DEF GalleryList
<1>12. GalleryPreviews(page', site', calls', clicks')
  <2>1. \A x \in calls' : x \in calls \/ x.op # "preview"
    BY <1>2, <1>3
  <2>2. site'.urls = site.urls /\ clicks' \in Nat /\ {"items", "preview"} \subseteq DOMAIN page'
    BY <1>1, <1>5, <1>w
  <2> QED BY <1>5, <1>w, <2>1, <2>2, PreviewsStay
<1> QED
  BY <1>11, <1>12 DEF GalleryOK

\* The answer of a listing fits what is shown, whatever was deleted or made since it was read.
LEMMA GalleryAnswerFollows ==
    ASSUME GalleryOK(page, site, calls, clicks), NEW c \in calls, GalleryAnswer(c)
    PROVE  GalleryOK(page', site', calls', clicks')
<1>w. /\ GalleryList(page, site, calls) /\ GallerySite(site) /\ GalleryShown(page, site) /\ LastOne(page, calls)
      /\ GalleryPreviews(page, site, calls, clicks) /\ page.preview \in [GalleryImages -> Int]
      /\ {"items", "deleted", "preview", "cursor", "hasMore", "confirm", "request"} \subseteq DOMAIN page /\ clicks \in Nat
      /\ Listed(page, c, site) /\ page.confirm \in GalleryImages \cup {NoImage}
  BY DEF GalleryOK, GalleryList, GalleryShown, GalleryPreviews
<1>c. c.op = "list" /\ c.got # Nothing /\ clicks' = clicks
  BY DEF GalleryAnswer, Answered
<1>i. GalleryImages \subseteq Int /\ NoImage \notin GalleryImages /\ Made(site) \subseteq GalleryImages
  BY ImagesAreFinite DEF Made, Committed
<1>s. ASSUME SameList(page', page), page'.preview = page.preview, site' = site, calls' = calls \ {c}
      PROVE  GalleryOK(page', site', calls', clicks')
  <2>1. GalleryList(page', site', calls')
    BY <1>s, <1>w, SameListStays
  <2>2. {"items", "preview"} \subseteq DOMAIN page' /\ page'.items = page.items
    BY <1>s DEF SameList
  <2>3. GalleryPreviews(page', site', calls', clicks')
    BY <1>s, <1>w, <1>c, <2>2, PreviewsStay
  <2> QED BY <2>1, <2>3 DEF GalleryOK
<1>1. CASE ~CurrentList(c)
  <2>1. page' = page /\ site' = site /\ calls' = calls \ {c}
    BY <1>1 DEF GalleryAnswer
  <2>2. SameList(page', page)
    BY <1>w, <2>1 DEF SameList
  <2> QED BY <1>s, <2>1, <2>2
<1>2. CASE CurrentList(c) /\ ~c.got.ok
  <2>1. /\ page' = IF c.arg.cursor = NoImage THEN [page EXCEPT !.initial = FALSE, !.refreshing = FALSE]
                   ELSE [page EXCEPT !.more = FALSE]
        /\ site' = site /\ calls' = calls \ {c}
    BY <1>2 DEF GalleryAnswer
  <2>2. SameList(page', page) /\ page'.preview = page.preview
    BY <1>w, <2>1 DEF SameList
  <2> QED BY <1>s, <2>1, <2>2
<1>3. CASE CurrentList(c) /\ c.got.ok
  <2> DEFINE first == c.arg.cursor = NoImage
             items == IF first THEN NotDeleted(c.got.items) ELSE AppendedImages(c.got.items)
             trimmed == TrimmedTo(items)
             done == IF first THEN [trimmed EXCEPT !.initial = FALSE, !.refreshing = FALSE]
                     ELSE [page EXCEPT !.items = items, !.more = FALSE]
             asked == AskPreviews(items \ (IF first THEN {} ELSE page.items))
             Same(q) == /\ {"items", "deleted", "preview", "cursor", "hasMore", "confirm", "request"} \subseteq DOMAIN q
                        /\ q.deleted = page.deleted /\ q.confirm = page.confirm /\ q.request = page.request
                        /\ q.items = items
                        /\ q.preview = IF first THEN [i \in GalleryImages |-> IF i \in items THEN page.preview[i] ELSE NoImage]
                                       ELSE page.preview
  <2>1. /\ calls' = (calls \ {c}) \cup asked /\ page' = [done EXCEPT !.cursor = c.got.cursor, !.hasMore = c.got.hasMore]
        /\ site' = [site EXCEPT !.urls = RevokedURLs(page'.preview), !.late = @ \ c.got.read]
    BY <1>3 DEF GalleryAnswer
  <2>2. items = (IF first THEN {} ELSE page.items) \cup (c.got.items \ page.deleted)
    BY DEF NotDeleted, AppendedImages
  <2>8. Current(page, c)
    BY <1>3, <1>c DEF Current, CurrentList, Lists
  <2>f. Found(c, site) /\ FoundAll(c, site) /\ c.arg.cursor \in Made(site) \cup {NoImage}
    <3>1. c.got # Failure
      BY <1>3 DEF Failure
    <3> QED BY <1>w, <1>c, <2>8, <3>1 DEF Listed, Lists
  <2>3. items \subseteq Made(site)
    BY <1>w, <2>2, <2>f DEF Found, Below, GalleryShown
  <2>4. \A d \in asked : d.op = "preview" /\ d.arg \in GalleryImages /\ d.by \in Nat
    <3>1. items \subseteq GalleryImages /\ clicks' \in Nat
      BY <1>i, <1>w, <1>c, <2>3
    <3> HIDE DEF items
    <3> QED BY <3>1 DEF AskPreviews, Asks
  <2> HIDE DEF items, asked
  <2>5. first => Same(trimmed)
    BY <1>w DEF TrimmedTo
  <2> HIDE DEF trimmed
  <2>6. Same(done)
    BY <1>w, <2>5
  <2> HIDE DEF done
  <2>7. Same(page') /\ page'.cursor = c.got.cursor /\ page'.hasMore = c.got.hasMore
    BY <2>1, <2>6
  <2>s. /\ GallerySite(site') /\ Made(site') = Made(site) /\ There(site') = There(site) /\ site'.files = site.files
        /\ site'.urls = RevokedURLs(page'.preview) /\ Due(site') = Due(site) \cup (There(site) \cap c.got.read)
    <3>1. site' = [rows |-> site.rows, files |-> site.files, urls |-> RevokedURLs(page'.preview), late |-> site.late \ c.got.read]
      BY <1>w, <2>1 DEF GallerySite
    <3>2. /\ site'.rows = site.rows /\ site'.files = site.files /\ site'.urls = RevokedURLs(page'.preview)
          /\ site'.late = site.late \ c.got.read
          /\ site' = [rows |-> site'.rows, files |-> site'.files, urls |-> site'.urls, late |-> site'.late]
      BY <3>1
    <3> QED BY <1>w, <3>2 DEF GallerySite, Made, There, Due
  <2>n. ASSUME NEW d \in calls', Current(page', d) PROVE FALSE
    <3>1. Lists(d) /\ d.arg.request = page.request
      BY <2>7, <2>n DEF Current
    <3>2. d \in calls /\ d # c
      BY <2>1, <2>4, <3>1 DEF Lists
    <3>3. Current(page, d)
      BY <3>1 DEF Current
    <3> QED BY <1>w, <2>8, <3>2, <3>3 DEF LastOne
  <2>9. LastOne(page', calls')
    BY <2>n DEF LastOne
  <2>10. Gapless(page', site')
    <3>1. ASSUME NEW i \in Due(site') \cap site'.files, i \notin page'.items
          PROVE  (\A j \in page'.items : i > j) \/ (page'.hasMore /\ i < page'.cursor)
      <4>1. i \in GalleryImages /\ i \notin page.deleted /\ i \in There(site) \cap site.files
            /\ (i \in Due(site) \/ i \in c.got.read)
        BY <1>w, <2>s, <3>1 DEF GalleryShown, There, Due
      <4>2. i \notin c.got.items
        BY <2>2, <2>7, <3>1, <4>1
      <4>3. CASE first
        <5>1. i \in Below(c.arg.cursor, There(site) \cap site.files)
          BY <4>1, <4>3 DEF Below
        <5>2. (\A j \in c.got.items : i > j) \/ (c.got.hasMore /\ i < c.got.cursor)
          BY <2>f, <4>1, <4>2, <5>1 DEF FoundAll
        <5> QED BY <2>2, <2>7, <4>3, <5>2
      <4>4. CASE ~first
        <5>1. c.arg.cursor = page.cursor /\ c.arg.cursor \in Int
          BY <1>w, <1>i, <2>8, <2>f, <4>4 DEF LastOne
        <5>2. CASE i < c.arg.cursor
          <6>1. i \in Below(c.arg.cursor, There(site) \cap site.files)
            BY <4>1, <5>2 DEF Below
          <6> QED BY <2>f, <2>7, <4>1, <4>2, <4>4, <6>1 DEF FoundAll
        <5>3. CASE ~(i < c.arg.cursor)
          <6>1. i \notin page.items
            BY <2>2, <2>7, <3>1, <4>4
          <6>r. i \notin c.got.read
            BY <2>f, <4>4, <5>3 DEF Found, Below
          <6>2. \A j \in page.items : i > j
            BY <1>w, <4>1, <5>1, <5>3, <6>1, <6>r DEF GalleryShown, Gapless
          <6>3. \A j \in c.got.items : j \in Int /\ j < c.arg.cursor
            BY <1>i, <2>f, <4>4 DEF Found, Below
          <6>4. \A j \in c.got.items : i > j
            BY <1>i, <4>1, <5>1, <5>3, <6>3
          <6> QED BY <2>2, <2>7, <6>2, <6>4
        <5> QED BY <5>2, <5>3
      <4> QED BY <4>3, <4>4
    <3> QED BY <3>1 DEF Gapless
  <2>11. GalleryShown(page', site')
    <3>1. page'.items \subseteq Made(site) /\ page'.items \cap page'.deleted = {}
      BY <1>w, <2>2, <2>3, <2>7 DEF GalleryShown
    <3>2. page'.cursor \in Made(site) \cup {NoImage}
      BY <2>f, <2>7 DEF Found
    <3> QED BY <1>w, <2>7, <2>10, <2>s, <3>1, <3>2 DEF GalleryShown
  <2>12. ASSUME NEW d \in calls' PROVE Listed(page', d, site') /\ Deleting(d, site')
    <3>1. CASE d \in calls
      <4>1. Listed(page, d, site) /\ Deleting(d, site) /\ ~Current(page', d)
        BY <1>w, <2>n, <3>1 DEF GalleryList
      <4>2. (Read(d, site) => Read(d, site')) /\ (Found(d, site) => Found(d, site'))
        BY <2>s DEF Read, Found
      <4> QED BY <2>s, <4>1, <4>2 DEF Listed, Deleting
    <3>2. CASE d \notin calls
      BY <2>1, <2>4, <3>2 DEF Listed, Deleting, Lists
    <3> QED BY <3>1, <3>2
  <2>14. GalleryList(page', site', calls') /\ site'.urls = RevokedURLs(page'.preview)
    BY <2>9, <2>11, <2>12, <2>s DEF GalleryList
  <2>15. page'.preview = [i \in GalleryImages |-> IF i \in page'.items THEN page.preview[i] ELSE NoImage]
    <3>1. CASE first
      BY <2>7, <3>1
    <3>2. CASE ~first
      <4>1. \A i \in GalleryImages : page.preview[i] = IF i \in page'.items THEN page.preview[i] ELSE NoImage
        BY <1>w, <2>2, <2>7, <3>2 DEF GalleryPreviews
      <4> QED BY <1>w, <2>7, <3>2, <4>1
    <3> QED BY <3>1, <3>2
  <2>16. /\ page'.items \subseteq GalleryImages /\ {"items", "preview"} \subseteq DOMAIN page'
         /\ site'.urls = site.urls \ {page.preview[i] : i \in {j \in GalleryImages : page'.preview[j] # page.preview[j]}}
    BY <1>i, <2>3, <2>7, <2>14 DEF RevokedURLs
  <2>g. GalleryPreviews(page, site, calls, clicks)
    BY <1>w
  <2>17. GalleryPreviews(page', site', calls, clicks)
    BY <2>g, <2>15, <2>16, PreviewsGo
  <2>18. GalleryPreviews(page', site', calls', clicks')
    <3>1. \A d \in calls' : d \in calls \/ d.op # "preview" \/ (d.arg \in GalleryImages /\ d.by \in Nat)
      BY <2>1, <2>4
    <3> QED BY <1>w, <1>c, <2>16, <2>17, <3>1, PreviewsStay
  <2> QED BY <2>14, <2>18 DEF GalleryOK
<1> QED
  BY <1>1, <1>2, <1>3

\* Previews, deletions, downloads and the dialog leave the list as good.
LEMMA GalleryUseFollows ==
    ASSUME GalleryOK(page, site, calls, clicks),
           \/ DeleteImage \/ KeepImage \/ \E i \in GalleryImages : ConfirmImage(i) \/ DownloadImage(i)
           \/ \E c \in calls : PreviewAnswer(c) \/ ImageDeleted(c) \/ ImageDownloaded(c)
    PROVE  GalleryOK(page', site', calls', clicks')
<1>w. /\ GalleryList(page, site, calls) /\ GallerySite(site) /\ GalleryShown(page, site) /\ LastOne(page, calls)
      /\ GalleryPreviews(page, site, calls, clicks) /\ page.preview \in [GalleryImages -> Int]
      /\ {"items", "deleted", "preview", "cursor", "hasMore", "confirm", "request"} \subseteq DOMAIN page /\ clicks \in Nat
      /\ page.confirm \in GalleryImages \cup {NoImage}
  BY DEF GalleryOK, GalleryList, GalleryShown, GalleryPreviews
<1>i. GalleryImages \subseteq Int /\ NoImage \notin GalleryImages /\ NoImage \notin page.items
      /\ Made(site) \subseteq GalleryImages /\ page.items \subseteq GalleryImages
  BY <1>w, ImagesAreFinite DEF Made, Committed, GalleryPreviews
<1>s. ASSUME SameList(page', page), page'.preview = page.preview, site' = site, clicks' \in Nat,
             \A d \in calls' : d \in calls \/ Aside(d)
      PROVE  GalleryOK(page', site', calls', clicks')
  <2>1. GalleryList(page', site', calls')
    BY <1>s, <1>w, SameListStays
  <2>2. {"items", "preview"} \subseteq DOMAIN page' /\ page'.items = page.items
    BY <1>s DEF SameList
  <2>3. \A d \in calls' : d \in calls \/ d.op # "preview" \/ (d.arg \in GalleryImages /\ d.by \in Nat)
    BY <1>s DEF Aside
  <2>4. GalleryPreviews(page', site', calls', clicks')
    BY <1>s, <1>w, <2>2, <2>3, PreviewsStay
  <2> QED BY <2>1, <2>4 DEF GalleryOK
<1>a. ASSUME NEW op, op \in {"delete", "download"}, NEW i \in GalleryImages, calls' = calls \cup {Asks(op, i)}
      PROVE  \A d \in calls' : d \in calls \/ Aside(d)
  <2>1. Aside(Asks(op, i))
    BY <1>a DEF Aside, Asks
  <2> QED BY <1>a, <2>1
<1>1. CASE DeleteImage
  <2>1. page' = [page EXCEPT !.busy = @ \cup {page.confirm}] /\ site' = site /\ clicks' \in Nat
    BY <1>1, <1>w DEF DeleteImage
  <2>2. SameList(page', page) /\ page'.preview = page.preview
    BY <1>w, <2>1 DEF SameList
  <2>3. page.confirm \in GalleryImages /\ calls' = calls \cup {Asks("delete", page.confirm)}
    BY <1>1, <1>w DEF DeleteImage
  <2> QED BY <1>a, <1>s, <2>1, <2>2, <2>3
<1>2. CASE KeepImage
  <2>1. page' = [page EXCEPT !.confirm = NoImage] /\ site' = site /\ calls' = calls /\ clicks' \in Nat
    BY <1>2, <1>w DEF KeepImage
  <2>2. SameList(page', page) /\ page'.preview = page.preview
    BY <1>w, <2>1 DEF SameList
  <2> QED BY <1>s, <2>1, <2>2
<1>3. ASSUME NEW i \in GalleryImages, ConfirmImage(i) PROVE GalleryOK(page', site', calls', clicks')
  <2>1. page' = [page EXCEPT !.confirm = i] /\ site' = site /\ calls' = calls /\ clicks' \in Nat
    BY <1>3, <1>w DEF ConfirmImage, Event
  <2>2. SameList(page', page) /\ page'.preview = page.preview
    BY <1>w, <2>1 DEF SameList
  <2> QED BY <1>s, <2>1, <2>2
<1>4. ASSUME NEW i \in GalleryImages, DownloadImage(i) PROVE GalleryOK(page', site', calls', clicks')
  <2>1. page' = [page EXCEPT !.busy = @ \cup {i}] /\ site' = site /\ clicks' \in Nat
    BY <1>4, <1>w DEF DownloadImage, Event
  <2>2. SameList(page', page) /\ page'.preview = page.preview
    BY <1>w, <2>1 DEF SameList
  <2>3. calls' = calls \cup {Asks("download", i)}
    BY <1>4 DEF DownloadImage
  <2> QED BY <1>a, <1>s, <2>1, <2>2, <2>3
<1>5. ASSUME NEW c \in calls, ImageDownloaded(c) PROVE GalleryOK(page', site', calls', clicks')
  <2>1. page' = [page EXCEPT !.busy = @ \ {c.arg}] /\ site' = site /\ calls' = calls \ {c} /\ clicks' \in Nat
    BY <1>5, <1>w DEF ImageDownloaded
  <2>2. SameList(page', page) /\ page'.preview = page.preview
    BY <1>w, <2>1 DEF SameList
  <2> QED BY <1>s, <2>1, <2>2
<1>6. ASSUME NEW c \in calls, PreviewAnswer(c) PROVE GalleryOK(page', site', calls', clicks')
  <2> DEFINE url == 1 + c.by * MaxImages + c.arg
  <2>1. c.op = "preview" /\ calls' = calls \ {c} /\ clicks' = clicks /\ c.by \in Nat
    BY <1>6, <1>w DEF PreviewAnswer, Pending, GalleryPreviews
  <2>2. CASE page' = page /\ site' = site
    <3>1. SameList(page', page)
      BY <1>w, <2>2 DEF SameList
    <3> QED BY <1>s, <1>w, <2>1, <2>2, <3>1
  <2>3. CASE /\ c.arg \in page.items /\ page.preview[c.arg] = NoImage
             /\ page' = [page EXCEPT !.preview[c.arg] = url] /\ site' = [site EXCEPT !.urls = @ \cup {url}]
    <3>1. SameList(page', page)
      BY <1>w, <2>3 DEF SameList
    <3>2. GalleryList(page', site, calls')
      BY <1>w, <2>1, <3>1, SameListStays
    <3>3. GalleryList(page', site', calls')
      BY <2>3, <3>2, URLsAside
    <3>4. "urls" \in DOMAIN site
      BY <1>w DEF GallerySite
    <3>5. GalleryPreviews(page', site', calls, clicks)
      BY <1>w, <2>1, <2>3, <3>4, PreviewComes
    <3>6. {"items", "preview"} \subseteq DOMAIN page'
      BY <3>1 DEF SameList
    <3>7. GalleryPreviews(page', site', calls', clicks')
      BY <1>w, <2>1, <3>5, <3>6, PreviewsStay
    <3> QED BY <3>3, <3>7 DEF GalleryOK
  <2> QED BY <1>6, <2>2, <2>3 DEF PreviewAnswer
<1>7. ASSUME NEW c \in calls, ImageDeleted(c) PROVE GalleryOK(page', site', calls', clicks')
  <2>1. c.op = "delete" /\ c.got # Nothing /\ calls' = calls \ {c} /\ clicks' = clicks /\ Deleting(c, site)
    BY <1>7, <1>w DEF ImageDeleted, Answered, GalleryList
  <2>2. CASE ~c.got.ok
    <3>1. page' = [page EXCEPT !.busy = @ \ {c.arg}] /\ site' = site
      BY <1>7, <2>2 DEF ImageDeleted
    <3>2. SameList(page', page) /\ page'.preview = page.preview
      BY <1>w, <3>1 DEF SameList
    <3> QED BY <1>s, <1>w, <2>1, <3>1, <3>2
  <2>3. CASE c.got.ok
    <3> DEFINE without == WithoutImage(c.arg)
               items == page.items \ {c.arg}
               preview == [i \in GalleryImages |-> IF i \in items THEN page.preview[i] ELSE NoImage]
    <3>1. /\ {"items", "deleted", "preview", "cursor", "hasMore", "confirm", "request"} \subseteq DOMAIN without
          /\ without.items = items /\ without.preview = preview /\ without.deleted = page.deleted
          /\ without.cursor = page.cursor /\ without.hasMore = page.hasMore /\ without.request = page.request
      BY <1>w DEF WithoutImage, TrimmedTo
    <3>2. /\ page' = [without EXCEPT !.deleted = @ \cup {c.arg}, !.busy = @ \ {c.arg}, !.confirm = NoImage]
          /\ site' = [site EXCEPT !.urls = RevokedURLs(page'.preview)]
      BY <1>7, <2>3 DEF ImageDeleted
    <3>3. c.arg \in Made(site) \ There(site)
      BY <2>1, <2>3 DEF Deleting
    <3>4. items \subseteq page.items /\ c.arg \notin items /\ \A i \in page.items : i # c.arg => i \in items
      OBVIOUS
    <3> HIDE DEF without, items, preview
    <3>5. /\ {"items", "deleted", "preview", "cursor", "hasMore", "confirm", "request"} \subseteq DOMAIN page'
          /\ page'.items = items /\ page'.preview = preview /\ page'.deleted = page.deleted \cup {c.arg}
          /\ page'.cursor = page.cursor /\ page'.hasMore = page.hasMore /\ page'.request = page.request
          /\ page'.confirm = NoImage
      BY <3>1, <3>2
    <3>6. GalleryShown(page', site)
      <4>1. Gapless(page', site)
        <5>1. ASSUME NEW i \in Due(site) \cap site.files, i \notin page'.items
              PROVE  (\A j \in page'.items : i > j) \/ (page'.hasMore /\ i < page'.cursor)
          <6>1. i \notin page.items
            BY <3>3, <3>4, <3>5, <5>1 DEF Due
          <6> QED BY <1>w, <3>4, <3>5, <6>1 DEF GalleryShown, Gapless
        <5> QED BY <5>1 DEF Gapless
      <4> QED BY <1>w, <3>3, <3>4, <3>5, <4>1 DEF GalleryShown
    <3>7. LastOne(page', calls')
      BY <1>w, <2>1, <3>5 DEF LastOne, Current
    <3>l. \A d \in calls' : Listed(page', d, site) /\ Deleting(d, site)
      <4>1. \A d : Current(page', d) <=> Current(page, d)
        BY <3>5 DEF Current
      <4> QED BY <1>w, <2>1, <4>1 DEF GalleryList, Listed
    <3>8. GalleryList(page', site, calls')
      BY <1>w, <3>6, <3>7, <3>l DEF GalleryList
    <3>9. GalleryList(page', site', calls') /\ site'.urls = RevokedURLs(page'.preview)
      BY <3>2, <3>8, URLsAside
    <3>10. /\ page'.items \subseteq GalleryImages /\ {"items", "preview"} \subseteq DOMAIN page'
           /\ site'.urls = site.urls \ {page.preview[i] : i \in {j \in GalleryImages : page'.preview[j] # page.preview[j]}}
           /\ page'.preview = [i \in GalleryImages |-> IF i \in page'.items THEN page.preview[i] ELSE NoImage]
      BY <1>i, <3>4, <3>5, <3>9 DEF RevokedURLs, preview
    <3>g. GalleryPreviews(page, site, calls, clicks)
      BY <1>w
    <3>11. GalleryPreviews(page', site', calls, clicks)
      BY <3>g, <3>10, PreviewsGo
    <3>12. GalleryPreviews(page', site', calls', clicks')
      BY <1>w, <2>1, <3>10, <3>11, PreviewsStay
    <3> QED BY <3>9, <3>12 DEF GalleryOK
  <2> QED BY <2>2, <2>3
<1> QED
  BY <1>1, <1>2, <1>3, <1>4, <1>5, <1>6, <1>7

\* Every step of the gallery keeps what it shows.
LEMMA GalleryFollows ==
    ASSUME GalleryOK(page, site, calls, clicks), GalleryWaits(page, calls), GalleryNext
    PROVE  GalleryOK(page', site', calls', clicks') \/ page' = Left
<1>w. /\ GalleryList(page, site, calls) /\ GalleryPreviews(page, site, calls, clicks) /\ GallerySite(site)
      /\ {"items", "preview"} \subseteq DOMAIN page /\ clicks \in Nat
  BY DEF GalleryOK, GalleryList, GalleryPreviews
<1>s. ASSUME NEW n \in GalleryImages, NEW row \in RowStates, NEW files, NEW late, files \subseteq GalleryImages,
             site' = [site EXCEPT !.rows[n] = row, !.files = files, !.late = late]
      PROVE  /\ GallerySite(site') /\ site'.rows = [site.rows EXCEPT ![n] = row] /\ site'.files = files
             /\ site'.late = late /\ site'.urls = site.urls
  <2>1. site' = [rows |-> [site.rows EXCEPT ![n] = row], files |-> files, urls |-> site.urls, late |-> late]
    BY <1>s, <1>w DEF GallerySite
  <2>2. /\ site'.rows = [site.rows EXCEPT ![n] = row] /\ site'.files = files /\ site'.urls = site.urls
        /\ site'.late = late
        /\ site' = [rows |-> site'.rows, files |-> site'.files, urls |-> site'.urls, late |-> site'.late]
    BY <2>1
  <2> QED BY <1>s, <1>w, <2>2 DEF GallerySite
<1>p. ASSUME page' = page, calls' = calls, clicks' \in Nat, site'.urls = site.urls, GalleryList(page, site', calls)
      PROVE  GalleryOK(page', site', calls', clicks')
  <2>1. GalleryPreviews(page', site', calls', clicks')
    BY <1>p, <1>w, PreviewsStay
  <2> QED BY <1>p, <2>1 DEF GalleryOK
<1>1. CASE NewImage
  <2>1. PICK n \in GalleryImages :
           site.rows[n] = "none" /\ site' = [site EXCEPT !.rows[n] = "saving", !.files = @ \cup {n}]
    BY <1>1 DEF NewImage
  <2>2. page' = page /\ calls' = calls /\ clicks' \in Nat
    BY <1>1, <1>w DEF NewImage, Event
  <2> DEFINE files == site.files \cup {n}
             late == site.late
  <2>3. site' = [site EXCEPT !.rows[n] = "saving", !.files = files, !.late = late] /\ files \subseteq GalleryImages
    BY <1>w, <2>1 DEF GallerySite
  <2>4. files = site.files \cup {n} /\ late = site.late /\ "saving" \in RowStates
    BY DEF RowStates
  <2> HIDE DEF files, late
  <2>5. /\ GallerySite(site') /\ site'.rows = [site.rows EXCEPT ![n] = "saving"] /\ site'.files = files
        /\ site'.late = late /\ site'.urls = site.urls
    BY <1>s, <2>3, <2>4
  <2>6. Made(site') = Made(site) /\ There(site') = There(site) /\ n \notin There(site)
    <3>1. \A i \in GalleryImages : site'.rows[i] = IF i = n THEN "saving" ELSE site.rows[i]
      BY <1>w, <2>5 DEF GallerySite
    <3>2. Made(site') = Made(site)
      BY <2>1, <3>1 DEF Made, Committed
    <3>3. There(site') = There(site) /\ n \notin There(site)
      BY <2>1, <3>1 DEF There
    <3> QED BY <3>2, <3>3
  <2>7. GalleryList(page, site', calls)
    <3>1. site'.late = site.late /\ There(site') \cap site'.files \subseteq site.files
      BY <2>4, <2>5, <2>6
    <3> QED BY <1>w, <2>5, <2>6, <3>1, LaterSite
  <2> QED BY <1>p, <2>2, <2>5, <2>7
<1>4. ASSUME NEW n \in GalleryImages, LoseImage(n) PROVE GalleryOK(page', site', calls', clicks')
  <2>1. site.rows[n] = "saving" /\ site' = [site EXCEPT !.rows[n] = "lost", !.files = @ \ {n}]
    BY <1>4 DEF LoseImage
  <2>2. page' = page /\ calls' = calls /\ clicks' \in Nat
    BY <1>4, <1>w DEF LoseImage
  <2> DEFINE files == site.files \ {n}
             late == site.late
  <2>3. site' = [site EXCEPT !.rows[n] = "lost", !.files = files, !.late = late] /\ files \subseteq GalleryImages
    BY <1>w, <2>1 DEF GallerySite
  <2>4. files \subseteq site.files /\ late = site.late /\ "lost" \in RowStates
    BY DEF RowStates
  <2> HIDE DEF files, late
  <2>5. /\ GallerySite(site') /\ site'.rows = [site.rows EXCEPT ![n] = "lost"] /\ site'.files = files
        /\ site'.late = site.late /\ site'.urls = site.urls
    BY <1>s, <2>3, <2>4
  <2>6. Made(site') = Made(site) /\ There(site') = There(site)
    <3>1. \A i \in GalleryImages : site'.rows[i] = IF i = n THEN "lost" ELSE site.rows[i]
      BY <1>w, <2>5 DEF GallerySite
    <3>2. Made(site') = Made(site)
      BY <2>1, <3>1 DEF Made, Committed
    <3>3. There(site') = There(site)
      BY <2>1, <3>1 DEF There
    <3> QED BY <3>2, <3>3
  <2>7. GalleryList(page, site', calls)
    BY <1>w, <2>4, <2>5, <2>6, LaterSite
  <2> QED BY <1>p, <2>2, <2>5, <2>7
<1>5. ASSUME NEW n \in GalleryImages, CommitImage(n) PROVE GalleryOK(page', site', calls', clicks')
  <2> DEFINE files == site.files
             late == IF \E j \in Made(site) : n < j THEN site.late \cup {n} ELSE site.late
  <2>1. /\ site.rows[n] = "saving" /\ page' = page /\ calls' = calls /\ clicks' \in Nat
        /\ site' = [site EXCEPT !.rows[n] = "available", !.late = late]
    BY <1>5, <1>w DEF CommitImage, Made
  <2> HIDE DEF late
  <2>3. site' = [site EXCEPT !.rows[n] = "available", !.files = files, !.late = late] /\ files \subseteq GalleryImages
    BY <1>w, <2>1 DEF GallerySite
  <2>4. files = site.files /\ "available" \in RowStates
    BY DEF RowStates
  <2> HIDE DEF files
  <2>5. /\ GallerySite(site') /\ site'.rows = [site.rows EXCEPT ![n] = "available"] /\ site'.files = files
        /\ site'.late = late /\ site'.urls = site.urls
    BY <1>s, <2>3, <2>4
  <2>6. n \in GalleryImages \ Made(site)
    BY <2>1 DEF Made, Committed
  <2>7. GalleryList(page, site', calls)
    BY <1>w, <2>4, <2>5, <2>6, CommittedSite DEF late
  <2> QED BY <1>p, <2>1, <2>5, <2>7
<1>2. CASE LeaveGallery
  BY <1>2 DEF LeaveGallery
<1>3. CallsOK
  BY DEF GalleryWaits, CallsOK
<1> QED
  BY <1>1, <1>2, <1>3, <1>4, <1>5, GallerySiteFollows, GalleryAsksFollow, GalleryAnswerFollows, GalleryUseFollows
  DEF GalleryNext, GalleryStep

\* The gallery opens with nothing shown and its first page asked for.
LEMMA GalleryOpens == ASSUME GalleryInit PROVE GalleryOK(page, site, calls, clicks)
<1> DEFINE d == [op |-> "list", arg |-> [cursor |-> NoImage, request |-> 1], by |-> 0, got |-> Nothing]
<1>1. PICK made \in 0 .. MaxImages, files \in SUBSET GalleryImages, last \in {"available", "saving"} :
         /\ made \in {0, MaxImages - 1} /\ files \subseteq 1 .. made
         /\ page = [EmptyGallery EXCEPT !.request = 1, !.initial = TRUE]
         /\ site = [rows |-> [i \in GalleryImages |-> IF i < made THEN "available" ELSE IF i = made THEN last ELSE "none"],
                    files |-> files, urls |-> {}, late |-> {}]
         /\ clicks = 0 /\ calls = {d}
  BY DEF GalleryInit
<1>i. GalleryImages \subseteq Int /\ NoImage \notin GalleryImages /\ made \in Int
  BY ImagesAreFinite, <1>1
<1>2. /\ site = [rows |-> site.rows, files |-> site.files, urls |-> site.urls, late |-> site.late]
      /\ site.files \subseteq GalleryImages /\ site.urls = {}
      /\ site.rows = [i \in GalleryImages |-> IF i < made THEN "available" ELSE IF i = made THEN last ELSE "none"]
  BY <1>1
<1>3. /\ {"items", "deleted", "preview", "cursor", "hasMore", "confirm", "request"} \subseteq DOMAIN page
      /\ page.items = {} /\ page.deleted = {} /\ page.preview = [i \in GalleryImages |-> NoImage]
      /\ page.cursor = NoImage /\ page.confirm = NoImage /\ page.request = 1
  BY <1>1 DEF EmptyGallery
<1>4. d.op = "list" /\ d.arg.cursor = NoImage /\ d.got = Nothing
  OBVIOUS
<1> HIDE DEF d
<1>5. GallerySite(site)
  <2>1. site.rows \in [GalleryImages -> RowStates]
    BY <1>1, <1>2 DEF RowStates
  <2> QED BY <1>2, <2>1 DEF GallerySite
<1>6. GalleryShown(page, site)
  BY <1>3 DEF GalleryShown, Gapless
<1>7. LastOne(page, calls)
  BY <1>1, <1>4 DEF LastOne
<1>8. Listed(page, d, site) /\ Deleting(d, site)
  BY <1>4 DEF Listed, Deleting
<1>9. GalleryList(page, site, calls)
  BY <1>1, <1>5, <1>6, <1>7, <1>8 DEF GalleryList
<1>10. GalleryPreviews(page, site, calls, clicks)
  <2>1. page.preview \in [GalleryImages -> Int] /\ \A i \in GalleryImages : page.preview[i] = NoImage
    BY <1>3 DEF NoImage
  <2> QED BY <1>1, <1>2, <1>3, <1>4, <2>1 DEF GalleryPreviews
<1> QED
  BY <1>9, <1>10 DEF GalleryOK

\* What it shows follows the site, as the property says it.
LEMMA GalleryHasFollowed == ASSUME GalleryOK(page, site, calls, clicks) PROVE GalleryFollowsSite
<1>w. GalleryShown(page, site) /\ GalleryPreviews(page, site, calls, clicks) /\ GallerySite(site)
  BY DEF GalleryOK, GalleryList
<1>1. GalleryDeletedStayAway
  BY <1>w DEF GalleryDeletedStayAway, GalleryShown
<1>2. GalleryHasNoGaps
  BY <1>w DEF GalleryHasNoGaps, GalleryShown, Gapless, GallerySite, There, Due
<1>3. GalleryURLs
  <2>1. \A u : u \in site.urls <=> u # NoImage /\ \E i \in page.items : page.preview[i] = u
    BY <1>w DEF GalleryPreviews
  <2>2. site.urls = {page.preview[i] : i \in page.items} \ {NoImage}
    BY <2>1
  <2> QED BY <2>2 DEF GalleryURLs
<1> QED
  BY <1>1, <1>2, <1>3 DEF GalleryFollowsSite

\* While the gallery is on screen, it is as it should be; it keeps what waits settling, too.
GalleryInv == At("gallery") => GalleryOK(page, site, calls, clicks)

\* It is so at the start, whichever page opens.
LEMMA GalleryStarts == PageInit => GalleryInv
<1> SUFFICES ASSUME PageInit, At("gallery") PROVE GalleryOK(page, site, calls, clicks)
  BY DEF GalleryInv
<1>1. \/ GalleryInit
      \/ page.at \in AdminLists \cup UserPageNames \cup {"imports", "accounts"} \cup SettingsCards
  BY PagesOpen DEF PageInit, UserInit, UserPageNames
<1>2. page.at = "gallery"
  BY DEF At
<1>3. GalleryInit
  BY <1>1, <1>2 DEF AdminLists, UserPageNames, SettingsCards
<1> QED
  BY <1>3, GalleryOpens

\* Every step keeps it so.
LEMMA GalleryKeeps == PagesInv /\ WaitsInv /\ GalleryInv /\ [PageNext]_pageVars => GalleryInv'
<1> SUFFICES ASSUME PagesInv, WaitsInv, GalleryInv, [PageNext]_pageVars PROVE GalleryInv'
  OBVIOUS
<1> DEFINE OtherNext == (At("gallery") /\ GalleryNext) \/ AdminNext \/ ImportNext \/ SettingsNext \/ AccountsNext
<1>1. OtherNext => page.at \in OtherPages
  <2>1. AccountsNext => page.at = "accounts"
    BY DEF AccountsNext, At
  <2> QED BY <2>1, AdminIsShown, ImportIsShown, SettingsAreShown DEF At, OtherPages, SettingsCards
<1>2. CASE UNCHANGED pageVars
  BY <1>2 DEF pageVars, GalleryInv, At
<1>3. CASE UserInv /\ PageNext
  <2>1. ~OtherNext
    BY <1>1, <1>3 DEF UserInv, PageOK, UserPageNames, OtherPages, AdminLists
  <2>2. UserNext
    BY <1>3, <2>1 DEF PageNext
  <2>3. page'.at \in {"redeem", "membership", "register", "away"}
    BY <1>3, <2>2, UserRemains DEF UserInv, PageOK, UserPageNames
  <2> QED BY <2>3 DEF GalleryInv, At
<1>4. CASE OtherInv /\ PageNext
  <2>1. ~UserNext
    BY <1>4, UserIsShown DEF OtherInv, UserPageNames, OtherPages, AdminLists, OtherSite, Registering
  <2>2. OtherNext
    BY <1>4, <2>1 DEF PageNext
  <2>3. page'.at \in {page.at, "away"}
    BY <1>4, <2>2, OthersRemain
  <2>4. At("gallery") => GalleryNext
    BY <2>2, AdminIsShown, ImportIsShown, SettingsAreShown DEF At, AdminLists, AccountsNext, SettingsCards
  <2>5. SUFFICES ASSUME At("gallery")' PROVE GalleryOK(page', site', calls', clicks')
    BY DEF GalleryInv
  <2>6. At("gallery") /\ page' # Left
    BY <2>3, <2>5 DEF At, Left
  <2>7. GalleryNext /\ GalleryOK(page, site, calls, clicks) /\ GalleryWaits(page, calls)
    BY <2>4, <2>6 DEF GalleryInv, WaitsInv
  <2> QED BY <2>6, <2>7, GalleryFollows
<1> QED
  BY <1>2, <1>3, <1>4 DEF PagesInv, ShownInv

\* The gallery follows the site: an image that was deleted does not come back with a list that was on its
\* way, pages that were read before and after a change leave no gap, and the URL of a preview that is not
\* shown any more was revoked.
THEOREM GalleryAlwaysFollowsSite == PageSpec => []GalleryFollowsSite
<1>1. GalleryInv => GalleryFollowsSite
  BY GalleryHasFollowed DEF GalleryInv, GalleryFollowsSite, GalleryDeletedStayAway, GalleryHasNoGaps, GalleryURLs
<1> QED
  BY <1>1, PagesStart, PagesKeep, WaitsStart, WaitsKeep, GalleryStarts, GalleryKeeps, PTL DEF PageSpec
=============================================================================
