---------------------------- MODULE RouterDriver ----------------------------
(***************************************************************************)
(* What one request of the hub to a device it manages can come to: the     *)
(* driver of each vendor (Driver in daemon/src/routers.rs, peplink.rs,     *)
(* starlink.rs).  A device is its vendor, the password it takes, what it   *)
(* has of GPS, and its APN.  Each operator gives the set of the outcomes   *)
(* of a call, over a network on which any request can fail.                *)
(***************************************************************************)
EXTENDS Naturals

Vendors == {"cradlepoint", "peplink", "starlink"}

\* "none": no GPS module, or a plan that keeps it from the hub.
GpsOfDevice == {"locked", "searching", "none"}

\* GpsSupport.
Words == {"unknown", "yes", "no"}

\* A dish answers its LAN without one.
NeedsPassword(vendor) == vendor # "starlink"

Accepts(d, pass) == NeedsPassword(d.vendor) => pass = d.cred

\* Driver::unsupported_action.
Unsupported(vendor, action) ==
    \/ vendor = "peplink" /\ action = "apn"
    \/ vendor = "starlink" /\ action \in {"apn", "password"}

-----------------------------------------------------------------------------
(* Requests: an answer, "refused" (the sign-in), or "failed" *)

\* Ncos::get, put and finish: Basic auth with each request.
NcosCall(d, pass, answer) == {"failed", IF Accepts(d, pass) THEN answer ELSE "refused"}

\* Peplink::login, and what is made of the session.
SignedIn(d, pass, then) == {"failed"} \union IF Accepts(d, pass) THEN then ELSE {"refused"}

\* Peplink::get_envelope: a session that is gone is opened again once, and no more.
PeplinkCall(d, pass, answer) ==
    LET again == SignedIn(d, pass, {"failed", answer, "refused"}) IN
    SignedIn(d, pass, {"failed", answer} \union again)

\* Starlink::call.
DishCall(answer) == {"failed", answer}

Request(d, pass, answer) ==
    CASE d.vendor = "cradlepoint" -> NcosCall(d, pass, answer)
      [] d.vendor = "peplink" -> PeplinkCall(d, pass, answer)
      [] d.vendor = "starlink" -> DishCall(answer)

\* Mutant: any answer at all is taken for a proof.
ProbeOfAnyAnswer(d, pass) == {c # "failed" : c \in Request(d, pass, "ok")}

\* Driver::probe: is the sign-in proved?  A device that answers may still be unreadable.
Probe(d, pass) == {FALSE} \union {c = "ok" : c \in Request(d, pass, "ok")}

\* Driver::status, with an uplink that can be read (uplink_up).
Status(d, pass) == {FALSE} \union {c = "ok" : c \in Request(d, pass, "ok")}

-----------------------------------------------------------------------------
(* GPS *)

\* ncos_gps_support: a fix block is the module answering; nothing says there is none.
NcosSupport(d, call) == IF call = "ok" /\ d.gps # "none" THEN "yes" ELSE "unknown"

\* peplink::gps_support: "fail" is the word of a unit without a GPS module, and of no other; older
\* firmware answers ok there too, and an ok without a fix may also be a unit with no lock.
PeplinkSupport(d, call) ==
    CASE call = "fail" -> "no"
      [] call = "ok" /\ d.gps = "locked" -> "yes"
      [] OTHER -> "unknown"

\* gps_support_of_refusal: only the dish's own refusal is a no.
DishSupport(call) == CASE call = "ok" -> "yes" [] call = "denied" -> "no" [] OTHER -> "unknown"

\* What a device without GPS answers in place of a position, where it answers at all.
Or(d, word) == IF d.gps = "none" THEN word ELSE "ok"

\* Driver::gps, asked for a fix: what it says of support.
Gps(d, pass) ==
    CASE d.vendor = "cradlepoint" -> {NcosSupport(d, c) : c \in Request(d, pass, "ok")}
      [] d.vendor = "peplink" -> {PeplinkSupport(d, c) : c \in Request(d, pass, Or(d, "fail"))}
                                   \union {PeplinkSupport(d, c) : c \in Request(d, pass, "ok")}
      [] d.vendor = "starlink" -> {DishSupport(c) : c \in Request(d, pass, Or(d, "denied"))}

\* Driver::set_gps_enabled: does the device take it?  A Peplink is not asked, a dish only for on.
SetGps(d, pass, on) ==
    CASE d.vendor = "cradlepoint" -> {c = "ok" : c \in Request(d, pass, "ok")}
      [] d.vendor = "starlink" /\ on -> {c = "ok" : c \in Request(d, pass, Or(d, "denied"))}
      [] OTHER -> {TRUE}

-----------------------------------------------------------------------------
(* The APN *)

Automatic(apn) == [apn EXCEPT !.manual = FALSE]

\* Ncos::set_apn in manual mode: one write per leaf, the name first.
NameFirst(apn) == <<[apn EXCEPT !.named = TRUE], [manual |-> TRUE, named |-> TRUE]>>

\* Ncos::set_apn: the reads before and after and each of the writes may be the last that works.
SetApn(d, pass, manual) ==
    IF ~Accepts(d, pass) THEN {[apn |-> d.apn, ok |-> FALSE]}
    ELSE LET writes == IF manual THEN NameFirst(d.apn) ELSE <<Automatic(d.apn)>>
             done == writes[IF manual THEN 2 ELSE 1] IN
         [apn: {d.apn, writes[1], done}, ok: {FALSE}] \union [apn: {done}, ok: {TRUE}]
=============================================================================
