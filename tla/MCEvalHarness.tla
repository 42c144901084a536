----------------------------- MODULE MCEvalHarness -----------------------------
(***************************************************************************)
(* Golden sets for TLC: that of the repository, and sets of one or two     *)
(* cases, each with an identity document and a proof of address, or with a *)
(* registration and a list of owners, that may be clean, damaged, mistaken *)
(* for another type, or marked with a hallucination.                       *)
(***************************************************************************)
EXTENDS GoldenSet

Alice == "Anna Virtanen"

MCSanctioned == {"Viktor Salo"}
MCPeps == {"Maarika Kask"}

Dates == {"01.01.1980", "01.02.2019", "01.05.2026", Valid, "01.05.2024", "today"}

MCIsoDate ==
    [v \in Dates |->
        CASE v = "01.01.1980" -> "1980-01-01" [] v = Valid -> "tomorrow"
          [] v = "01.02.2019" -> "2019-02-01" [] v = "01.05.2026" -> "2026-05-01"
          [] v = "01.05.2024" -> "yesterday"  [] OTHER -> v]

Unlike == {"Boris Petrov", "Anja Wirtanen", "another address"}

MCHighVolume == [individual |-> 10000, business |-> 50000]

OneSource == [d \in Docs |-> d]
NoReadings == [t \in KnownTypes |-> {}]

Damaged == {"01.05.2024", "smudge", "today"}

IdPapers ==
    {IdCard(Alice, expiry) : expiry \in Damaged}
    \cup {[IdCard("Anja Wirtanen", "today") EXCEPT !.glitch = glitch] :
        glitch \in {<<>>, [full_name |-> Alice], [expiry_date |-> "smudge"]}}
    \cup {[IdCard(Alice, "today") EXCEPT !.keywords = {"id_document", "proof_of_address"},
                                         !.labels = <<>>],
          [IdCard(Alice, "today") EXCEPT !.keywords = {}]}

Bills ==
    {[Bill(Alice, Home) EXCEPT !.glitch = glitch] :
        glitch \in {<<>>, [full_name |-> Alice], [address |-> "another address"],
                    [issue_date |-> "smudge"]}}
    \cup {[Bill(Alice, Home) EXCEPT !.keywords = {"proof_of_address", "ubo_declaration"}]}

MCCases ==
    {Case(TRUE, Individual(Alice, volume), IdAndBill(id, bill), outcome, {}) :
        volume \in {10000, 10001}, id \in IdPapers, bill \in Bills,
        outcome \in {"approve", "escalate"}}

Firm == "Aurora Oy"

Certs ==
    {[RegistrationCert(Firm, "number") EXCEPT !.glitch = glitch] :
        glitch \in {<<>>, [registration_date |-> "smudge"], [company_name |-> "smudge"]}}

OwnerLists ==
    {UboDeclaration(Firm, owners) : owners \in {{Alice}, {Alice, "Viktor Salo"}}}
    \cup {[UboDeclaration(Firm, {Alice}) EXCEPT !.glitch = glitch, !.bad_share = bad] :
        glitch \in {<<>>, [beneficial_owners |-> "smudge"], [beneficial_owners |-> Alice]},
        bad \in BOOLEAN}

FirmCases ==
    {Case(TRUE, Business(Alice, Firm, "number", 50000), CertAndUbo(cert, ubo), outcome, {}) :
        cert \in Certs, ubo \in OwnerLists, outcome \in {"approve", "escalate"}}

MCGoldenSets ==
    {<<a, b>> : a \in {c \in MCCases : c.package.volume = 10000},
                b \in {c \in MCCases : c.package.volume = 10001}}
    \cup {<<c>> : c \in FirmCases}
    \cup {Cases}

MCPackages == {c.package : c \in MCCases \cup FirmCases} \cup {Cases[i].package : i \in DOMAIN Cases}

MCTexts ==
    UNION {{p.full_name} \cup ({p.company_name, p.registration_number, p.date_of_birth} \ {None}) :
              p \in MCPackages}
    \cup Unlike \cup Dates \cup {MCIsoDate[v] : v \in Dates}
    \cup {"", "smudge", Home, Firm} \cup MCSanctioned \cup MCPeps

MCRatio == [v \in MCTexts |-> IF v \in Unlike THEN 40 ELSE 100]
===============================================================================
