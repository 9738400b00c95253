----------------------------- MODULE RsaWrapper -----------------------------
(***************************************************************************)
(* Class RSA: the constructor reads the two key files, rsa_encrypt and     *)
(* rsa_decrypt go through handle_bignum.  A step is a call up to its       *)
(* expmod, a turn of expmod, or the return.                                *)
(*                                                                         *)
(* A decimal string is a sequence of digits; what is above 9 in it is some *)
(* other character.                                                        *)
(***************************************************************************)
EXTENDS RsaText

CONSTANTS Begin, End, \* the line that begins the key in a file, and the last
          KeyPairs,   \* what can be found in keys/: [public, private] files, as
                      \* sequences of lines
          OtherKeys,  \* public keys of others, and what is taken for one
          Messages,   \* texts to encrypt
          Ciphers,    \* what is to be decrypted
          MaxCalls    \* bound: calls

Numeric(s) == \A i \in DOMAIN s : s[i] \in 0 .. 9

\* What is assumed of the constants; the modules that instantiate this one do.
WrapperAssumption ==
  /\ Begin # End /\ MaxCalls \in Nat
  /\ \A p \in KeyPairs : {p.public, p.private} \subseteq Seq(Seq(0 .. 255))
  /\ Messages \subseteq Seq(0 .. 255) /\ OtherKeys \cup Ciphers \subseteq Seq(Nat)
  \* stoi reads a number in front of other characters; that is left out.
  /\ \A c \in Ciphers : Numeric(c) \/ \A i \in DOMAIN c : c[i] > 9

VARIABLES rsaPc,        \* "new", "idle", "run"; "error" if handle_bignum has
                        \* returned that; "exit", "hangs" or "killed" for ever
          pair,         \* the key files
          rsa_n, rsa_d, \* members
          rsaOp, key, message, \* the call's "e" or "d", num1 and argv[5]
          exponent,     \* the string that is made the exponent
          calc,         \* expmod's variables
          result,       \* what the call has returned
          calls

members == <<rsa_n, rsa_d>>
call == <<rsaOp, key, message, exponent>>
rsaVars == <<rsaPc, pair, members, call, calc, result, calls>>

rsa_e == <<6, 5, 5, 3, 7>>

\* The lines between, to the end of the file if nothing ends them, none if
\* nothing begins them or there is no file: three digits for each character.
readPemFile(file) ==
  LET starts == {i \in DOMAIN file : file[i] = Begin}
      first == CHOOSE i \in starts : \A j \in starts : i <= j
      ends == {i \in DOMAIN file : i > first /\ file[i] = End}
                \cup {Len(file) + 1}
      last == CHOOSE i \in ends : \A j \in ends : i <= j
      text[i \in first .. last - 1] ==
        IF i = first THEN <<>> ELSE text[i - 1] \o file[i]
  IN IF starts = {} THEN <<>> ELSE to_numeric(text[last - 1])

RsaTypeOK ==
  /\ rsaPc \in {"new", "idle", "run", "error", "exit", "hangs", "killed"}
  /\ pair \in KeyPairs /\ rsaOp \in {"none", "e", "d"}
  /\ Numeric(rsa_n) /\ Numeric(rsa_d) /\ Numeric(exponent)
  /\ {calc.res, calc.tmp, calc.exp} \subseteq Seq(0 .. BASE - 1) \/ rsaPc = "exit"
  /\ result \in Seq(0 .. 255) /\ calls \in 0 .. MaxCalls
  /\ rsaPc = "run" => Numeric(key)

RsaInit ==
  /\ rsaPc = "new" /\ pair \in KeyPairs /\ rsa_n = <<>> /\ rsa_d = <<>>
  /\ rsaOp = "none" /\ key = <<>> /\ message = <<>> /\ exponent = <<>>
  /\ calc = Nothing /\ result = <<>> /\ calls = 0

\* rsa_keys_generate, once the script has made the files.
GenerateKeys == /\ rsaPc = "new" /\ rsaPc' = "idle"
             /\ rsa_n' = readPemFile(pair.public)
             /\ rsa_d' = readPemFile(pair.private)
             /\ UNCHANGED <<pair, call, calc, result, calls>>

\* rsa_encrypt, with the receiver's key or its own.
Encrypt ==
  /\ rsaPc \in {"idle", "error"} /\ calls < MaxCalls /\ calls' = calls + 1
  /\ rsaOp' = "e" /\ key' \in {rsa_n} \cup OtherKeys /\ message' \in Messages
  /\ exponent' = rsa_e
  /\ rsaPc' = IF Numeric(key') THEN "run" ELSE "error"
  /\ calc' = IF rsaPc' = "run"
             THEN Expmod(FromString(to_numeric(message')), FromString(exponent'))
             ELSE calc
  /\ result' = <<>>
  /\ UNCHANGED <<pair, members>>

\* rsa_decrypt.  handle_bignum sets num3 for five arguments only and gets six,
\* so the exponent is an empty string.  A number that stoi cannot read throws
\* out of a constructor that is noexcept.
DecryptCall ==
  /\ rsaPc \in {"idle", "error"} /\ calls < MaxCalls /\ calls' = calls + 1
  /\ rsaOp' = "d" /\ key' = rsa_n /\ message' \in Ciphers
  /\ exponent' = <<>>
  /\ rsaPc' = IF Numeric(message') THEN "run" ELSE "killed"
  /\ calc' = IF rsaPc' = "run" THEN Decrypt(FromString(message'), FromString(exponent'))
             ELSE calc
  /\ result' = <<>>
  /\ UNCHANGED <<pair, members>>

Turn ==
  /\ rsaPc = "run" /\ Running(calc)
  /\ LET n == FromString(key)
         next == ExpTurn(calc, n)
     IN IF Stuck(calc, n) THEN rsaPc' = "hangs" /\ UNCHANGED calc
        ELSE /\ calc' = next
             /\ rsaPc' = IF Exit \in {next.res, next.tmp} THEN "exit" ELSE "run"
  /\ UNCHANGED <<pair, members, call, result, calls>>

\* encrypt makes a string and a number again.
Return ==
  /\ rsaPc = "run" /\ ~Running(calc)
  /\ result' = LET n == to_string(calc.res)
               IN IF rsaOp = "d" THEN to_chars(FromString(n))
                  ELSE to_string(FromString(n))
  /\ rsaPc' = "idle"
  /\ UNCHANGED <<pair, members, call, calc, calls>>

RsaNext == GenerateKeys \/ Encrypt \/ DecryptCall \/ Turn \/ Return

RsaSpec == RsaInit /\ [][RsaNext]_rsaVars
-----------------------------------------------------------------------------
(* Properties *)

\* Text, its digits, the number and text again: the bytes come back, behind null
\* bytes for the zeros that changeToBase10 puts in front.
TextComesBack ==
  LET text == to_chars(FromString(to_numeric(message)))
      n == Len(text) - Len(message)
  IN rsaOp = "e" /\ message # <<>> =>
       /\ n > 0
       /\ \A i \in DOMAIN text :
            text[i] = IF i <= n THEN 0 ELSE message[i - n]

\* A ciphertext is a number below the modulus, however the limbs of the two and of
\* the squares in between fall.  A limb of zeros in front of the modulus would do
\* away with that, as Less looks at the sizes first.
CipherBelow ==
  LET n == FromString(key)
  IN rsaOp = "e" /\ result # <<>> /\ Less(BOne, n) /\ n[Len(n)] # 0
       => Less(FromString(result), n)

\* What encryption makes of a text, and of its number.
TextRight == RsaTypeOK /\ TextComesBack /\ CipherBelow

\* The key that comes of a missing file is empty.  With it, and with no other,
\* encryption does not end; only a number 0 ends the program.  decrypt's exponent
\* arrives empty whatever the private key, so that the text is 1 or nothing but
\* null bytes.
BadKeys == /\ rsaPc = "hangs" => rsaOp = "e" /\ key = <<>>
           /\ rsaPc = "exit" => rsaOp = "e" /\ \A i \in DOMAIN key : key[i] = 0
           /\ rsaOp = "e" /\ key = <<>> /\ rsaPc = "idle" =>
                \A i \in DOMAIN message : message[i] = 0
           /\ rsaOp = "d" /\ rsaPc = "idle" => \A i \in DOMAIN result :
                result[i] = 0 \/ (i = Len(result) /\ result[i] = 1)
=============================================================================
