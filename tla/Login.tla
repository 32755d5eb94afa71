-------------------------------- MODULE Login --------------------------------
(***************************************************************************)
(* The login and the wire format of a connection: login_with_maxenc        *)
(* (crates/core/src/bc_protocol/login.rs), the abilities                   *)
(* (abilityinfo.rs), logout.rs, and what bc/codex.rs, de.rs and ser.rs keep*)
(* between messages: the cipher and the numbers that carry binary data.    *)
(*                                                                         *)
(* The two ends change their cipher at different messages; each message is *)
(* to be read with the cipher, and as the kind, it was written with.  The  *)
(* camera is external, and so are the ciphers, which are names here.       *)
(***************************************************************************)
EXTENDS Integers, Sequences

CONSTANTS
    MaxNums,    \* bound: numbers given out; they wrap after 65536
    MaxEnc      \* the encryption asked for: MaxEncryption

Ciphers == {"none", "bc", "aes", "fullaes"}

ASSUME LoginAssumption ==
    /\ MaxNums \in 0..65535
    /\ MaxEnc \in {"none", "bc", "aes"}

VARIABLES
    step,       \* where login_with_maxenc stands
    num,        \* message numbers given out
    cipher,     \* the cipher of our codec's context
    bin,        \* in_bin_mode: the numbers whose payload is binary
    camCipher,  \* the camera's cipher
    up, down,   \* messages under way to and from the camera
    requests,   \* numbers the camera has yet to answer, with the kind asked for
    loggedIn,   \* logged_in
    able,       \* the abilities are known
    misread     \* a message was read otherwise than it was written

lvars == <<step, num, cipher, bin, camCipher, up, down, requests, loggedIn, able, misread>>

\* A message: what it is, its number, the cipher of its text, whether its
\* extension says binary_data, whether its payload is binary.
Msg(id, n, c) == [id |-> id, n |-> n, cipher |-> c, flag |-> FALSE, binary |-> FALSE]
Frame(n, first) == [id |-> "data", n |-> n, cipher |-> "raw", flag |-> first, binary |-> TRUE]

\* During the login neither end goes above BCEncrypt (codex.rs, de.rs).
Capped(c) == IF c \in {"aes", "fullaes"} THEN "bc" ELSE c

\* The camera's choice of a cipher.
Setting(n, c) ==
    [id |-> "encryption", n |-> n, cipher |-> Capped(c), sets |-> c, flag |-> FALSE, binary |-> FALSE]

LoginIds == {"upgrade", "login", "encryption", "info", "refused", "odd"}

\* A mutant: the login is written and read with the cipher agreed on.
CipherForAny(id, c) == c

CipherFor(id, c) == IF id \in LoginIds THEN Capped(c) ELSE c


\* BcCodex::encode; a login upgrade has a header only.
Encode(id, n, c) == Msg(id, n, CipherFor(id, c))
\* bc_modern_msg: a reply that sets the cipher is read with the one it names.
ReadCipher(m) ==
    IF m.id = "encryption" THEN (IF m.sets = "none" THEN "none" ELSE "bc")
    ELSE CipherFor(m.id, cipher)
ReadBinary(m) == m.n \in bin \/ m.flag

LInit ==
    /\ step = "off" /\ num = 0 /\ cipher = "none" /\ bin = {} /\ camCipher = "none"
    /\ up = <<>> /\ down = <<>> /\ requests = {} /\ loggedIn = FALSE /\ able = FALSE
    /\ misread = FALSE

\* login_with_maxenc: the legacy login, which asks for a cipher.
StartLogin ==
    /\ step = "off" /\ step' = "legacy" /\ num' = num + 1
    /\ up' = Append(up, Encode("upgrade", num, cipher))
    /\ UNCHANGED <<cipher, bin, camCipher, down, requests, loggedIn, able, misread>>

\* BcCodex::decode of the next message: the text is deciphered, the payload is
\* taken for binary or not, and the context is brought up to date.  A text that
\* is misread ends the connection.
Decode(m) ==
    /\ misread' = \/ misread
                  \/ ReadBinary(m) # m.binary
                  \/ ~m.binary /\ ReadCipher(m) # m.cipher
    /\ cipher' = IF m.id = "encryption" THEN m.sets ELSE cipher
    /\ bin' = IF m.flag THEN bin \union {m.n} ELSE bin

\* sub_login.recv, and what follows each answer.
LegacyReply(m) ==
    /\ step = "legacy"
    /\ IF m.id = "encryption"
         THEN /\ step' = "modern"
              /\ up' = Append(up, Encode("login", m.n, cipher'))
         ELSE step' = "failed" /\ UNCHANGED up
    /\ UNCHANGED <<num, requests, loggedIn, able>>

\* Accepted with a DeviceInfo: the abilities are asked for (polulate_abilities).
\* Any other code, or a body without it, fails.
ModernReply(m) ==
    /\ step = "modern"
    /\ IF m.id = "info"
         THEN /\ loggedIn' = TRUE /\ step' = "abilities" /\ num' = num + 1
              /\ up' = Append(up, Encode("ability", num, cipher))
         ELSE step' = "failed" /\ UNCHANGED <<loggedIn, num, up>>
    /\ UNCHANGED <<requests, able>>

AbilityReply(m) ==
    /\ step = "abilities"
    /\ \/ step' = "in" /\ able' = TRUE
       \/ step' = "failed" /\ UNCHANGED able \* another code, no AbilityInfo
    /\ UNCHANGED <<num, up, requests, loggedIn>>

OtherReply(m) == step = "in" /\ UNCHANGED <<step, num, up, requests, loggedIn, able>>

Receive ==
    /\ down # <<>> /\ step \notin {"off", "failed", "out"} /\ ~misread
    /\ down' = Tail(down) /\ UNCHANGED camCipher
    /\ Decode(Head(down))
    /\ LegacyReply(Head(down)) \/ ModernReply(Head(down)) \/ AbilityReply(Head(down)) \/ OtherReply(Head(down))

\* connect_and_login gives up on a login that takes too long.
LoginTimeout ==
    /\ step \in {"legacy", "modern", "abilities"} /\ step' = "failed"
    /\ UNCHANGED <<num, cipher, bin, camCipher, up, down, requests, loggedIn, able, misread>>

\* Once in: a command, answered in text, or a stream, answered with binary data.
Request(kind) ==
    /\ step = "in" /\ num < MaxNums /\ num' = num + 1
    /\ up' = Append(up, Encode(kind, num, cipher))
    /\ UNCHANGED <<step, cipher, bin, camCipher, down, requests, loggedIn, able, misread>>

\* logout: sent, and not waited for.
Logout ==
    /\ step = "in" /\ num < MaxNums /\ step' = "out" /\ loggedIn' = FALSE /\ num' = num + 1
    /\ up' = Append(up, Encode("logout", num, cipher))
    /\ UNCHANGED <<cipher, bin, camCipher, down, requests, able, misread>>
-----------------------------------------------------------------------------
\* The camera chooses a cipher up to the one asked for.
Offers == IF MaxEnc = "aes" THEN Ciphers ELSE {"none", MaxEnc}

\* The camera reads the next message: one it cannot decipher it cannot answer.
CamRead ==
    /\ up # <<>> /\ up' = Tail(up)
    /\ LET m == Head(up) IN
         /\ misread' = \/ misread
                       \/ m.id # "upgrade" /\ m.cipher # IF m.id = "login" THEN Capped(camCipher) ELSE camCipher
         /\ CASE m.id = "upgrade" ->
                   \/ \E c \in Offers :
                        camCipher' = c /\ down' = Append(down, Setting(m.n, c))
                   \/ down' = Append(down, Msg("odd", m.n, "none")) /\ UNCHANGED camCipher
              [] m.id = "login" ->
                   /\ \E id \in {"info", "refused", "odd"} :
                        down' = Append(down, Msg(id, m.n, Capped(camCipher)))
                   /\ UNCHANGED camCipher
              [] m.id = "ability" -> down' = Append(down, Msg("abilities", m.n, camCipher)) /\ UNCHANGED camCipher
              [] m.id = "command" -> down' = Append(down, Msg("reply", m.n, camCipher)) /\ UNCHANGED camCipher
              [] OTHER -> UNCHANGED <<down, camCipher>>
         /\ requests' = IF m.id = "stream" THEN requests \union {[n |-> m.n, first |-> TRUE]} ELSE requests
    /\ UNCHANGED <<step, num, cipher, bin, loggedIn, able>>

\* The camera sends binary data: only the first message of a stream says so.
CamData ==
    /\ Len(down) < 2
    /\ \E r \in requests :
         /\ down' = Append(down, Frame(r.n, r.first))
         /\ requests' = (requests \ {r}) \union {[r EXCEPT !.first = FALSE]}
    /\ UNCHANGED <<step, num, cipher, bin, camCipher, up, loggedIn, able, misread>>

LNext ==
    \/ StartLogin \/ Receive \/ LoginTimeout \/ Logout \/ CamRead \/ CamData
    \/ Request("command") \/ Request("stream")
-----------------------------------------------------------------------------
\* Every message is read with the cipher it was written with and for what it is,
\* across the change of cipher, whose two ends happen at different times, and
\* beside streams whose later messages do not say that they are binary.
Understood == ~misread

=============================================================================
