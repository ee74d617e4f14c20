--------------------------------- MODULE Misc ---------------------------------
(***************************************************************************)
(* The functions of src/ac_misc.c that check, hash and compare, and the    *)
(* reading of a UUID (src/platform/linux/gen_uuid.c).                      *)
(***************************************************************************)
EXTENDS Integers, Sequences

CONSTANTS HashBits,   \* 32, of a hash value
          Golden,     \* GOLDEN_MUL
          Shifts,     \* those of the Jenkins hash: 10, 6, 3, 11, 15
          UuidLen     \* AC_UUID4_LEN

TwoTo[n \in Nat] == IF n = 0 THEN 1 ELSE 2 * TwoTo[n - 1]
TenTo[n \in Nat] == IF n = 0 THEN 1 ELSE 10 * TenTo[n - 1]
----------------------------------------------------------------------------
(***************************************************************************)
(* What is added for a digit: every second one, from the last, is doubled, *)
(* and the digits of a double are added.                                   *)
(***************************************************************************)
Worth(digit, alt) ==
    IF ~alt THEN digit ELSE IF 2 * digit > 9 THEN ((2 * digit) % 10) + 1 ELSE 2 * digit

Sum[num \in Nat] == [alt \in BOOLEAN |->
    IF num = 0 THEN 0 ELSE Worth(num % 10, alt) + Sum[num \div 10][~alt]]

luhn_check(num) == num >= 10 /\ Sum[num][FALSE] % 10 = 0

Digits[num \in Nat] == IF num = 0 THEN << >> ELSE <<num % 10>> \o Digits[num \div 10]

(***************************************************************************)
(* What the check is for: a number that passes does not with any one digit *)
(* mistaken, nor with two neighbours exchanged, except 0 and 9; and each   *)
(* number can be given a last digit to pass (ac_misc.c:188-211).           *)
(***************************************************************************)
Mistaken(num, i, d) == (num - Digits[num][i] * TenTo[i - 1]) + d * TenTo[i - 1]
Exchanged(num, i)   ==
    LET x == Digits[num][i]   y == Digits[num][i + 1]
    IN  (num - (x + 10 * y) * TenTo[i - 1]) + (y + 10 * x) * TenTo[i - 1]

LuhnDetects(num, passes) ==
    /\ passes =>
         /\ \A i \in 1..Len(Digits[num]), d \in 0..9 :
               d # Digits[num][i] => ~luhn_check(Mistaken(num, i, d))
         /\ \A i \in 1..Len(Digits[num]) - 1 :
               LET pair == {Digits[num][i], Digits[num][i + 1]}
               IN  Digits[num][i] # Digits[num][i + 1] /\ pair # {0, 9} =>
                      ~luhn_check(Exchanged(num, i))
    /\ num >= 10 => \E d \in 0..9 : luhn_check(Mistaken(num, 1, d))
----------------------------------------------------------------------------
(***************************************************************************)
(* Hash values are words of HashBits.  A char may be negative, and is      *)
(* added as the word it is converted to.                                   *)
(***************************************************************************)
u32(n)           == n % TwoTo[HashBits]
ShiftLeft(h, s)  == u32(h * TwoTo[s])
ShiftRight(h, s) == h \div TwoTo[s]
Plus(h, s)       == u32(h + ShiftLeft(h, s))

Xor[x \in Nat] == [y \in Nat |->
    IF x = 0 THEN y ELSE ((x + y) % 2) + 2 * Xor[x \div 2][y \div 2]]

MixOr(h, s) ==                      \* faulty: |= for ^=
    (h + ShiftRight(h, s) + Xor[h][ShiftRight(h, s)]) \div 2

Mix(h, s) == Xor[h][ShiftRight(h, s)]

hash_func_str(key) ==
    LET hash[i \in 0..Len(key)] ==
            IF i = 0 THEN 0 ELSE Mix(Plus(u32(hash[i - 1] + key[i]), Shifts[1]), Shifts[2])
    IN  Plus(Mix(Plus(hash[Len(key)], Shifts[3]), Shifts[4]), Shifts[5])

hash_func_u32(k) == u32(k * Golden)

(***************************************************************************)
(* A pointer is multiplied as a long, and the product cut to a word.       *)
(***************************************************************************)
hash_func_ptr(p) == u32((p * Golden) % TwoTo[2 * HashBits])

cmp(a, b) == IF a = b THEN 0 ELSE 1

(***************************************************************************)
(* What a hash table that is given both functions for a kind of key gets   *)
(* of two keys.                                                            *)
(***************************************************************************)
hash_func(type, key) == CASE type = "str" -> hash_func_str(key)
                          [] type = "u32" -> hash_func_u32(key)
                          [] type = "ptr" -> hash_func_ptr(key)

table_uses(type, a, b) ==
    [cmp |-> cmp(a, b), hashes |-> <<hash_func(type, a), hash_func(type, b)>>]

(***************************************************************************)
(* A hash function and a comparison that a hash table can use together:    *)
(* what compares equal hashes alike.  Keys that differ in one word only - a*)
(* number, a pointer in its lower half, a string in one character - never  *)
(* hash alike: each step of the mixing can be undone (ac_misc.c:281-389).  *)
(***************************************************************************)
OneApart(type, a, b) ==
    CASE type = "str" -> /\ Len(a) = Len(b)
                         /\ \E i \in 1..Len(a) : \A j \in 1..Len(a) : a[j] # b[j] <=> j = i
      [] type = "u32" -> a # b
      [] type = "ptr" -> u32(a) # u32(b)

HashesAgree(type, a, b, answer) ==
    /\ answer.cmp = 0 => answer.hashes[1] = answer.hashes[2]
    /\ OneApart(type, a, b) => answer.hashes[1] # answer.hashes[2]
    /\ answer.cmp = 0 <=> a = b
----------------------------------------------------------------------------
(***************************************************************************)
(* The salt that ac_misc_passcrypt hands to crypt_r, for the numbers drawn *)
(* from random_r: 16 of 64 characters between the mark of the hash         *)
(* algorithm, if it is one that is known, and a `$'.  Characters are       *)
(* numbered as in salt_chars.                                              *)
(***************************************************************************)
SaltLen  == 16
SaltSize == 21      \* of the buffer
Dollar   == 64
Nul      == 65

MarkOf == [md5 |-> 3, sha256 |-> 7, sha512 |-> 8]

passcrypt(hash_type, draws) ==
    IF hash_type \notin DOMAIN MarkOf THEN << >>
    ELSE [i \in 0..SaltSize - 1 |->
             CASE i \in {0, 2, SaltLen + 3} -> Dollar
               [] i = 1                     -> MarkOf[hash_type]
               [] i \in 3..SaltLen + 2      -> draws[i - 2] % 64
               [] OTHER                     -> Nul]

(***************************************************************************)
(* crypt_r finds the algorithm asked for between the first two `$', and    *)
(* every character drawn between the second and the third, with the NUL    *)
(* behind it; no character drawn is a `$' itself (ac_misc.c:115-156).      *)
(***************************************************************************)
SaltIsWhole(hash_type, draws, salt) ==
    IF hash_type \notin DOMAIN MarkOf THEN salt = << >>
    ELSE /\ {i \in DOMAIN salt : salt[i] = Dollar} = {0, 2, Len(draws) + 3}
         /\ salt[1] = MarkOf[hash_type]
         /\ \A i \in DOMAIN salt : salt[i] = Nul <=> i > Len(draws) + 3
         /\ salt[Len(draws) + 4] = Nul
----------------------------------------------------------------------------
(***************************************************************************)
(* How much of a UUID is in the caller's buffer after gen_uuid, and        *)
(* whether a NUL is behind it: the file cannot be opened, or `count' bytes *)
(* can be read from it.                                                    *)
(***************************************************************************)
gen_uuid(opened, count) ==
    LET bytes_read == IF ~opened THEN 0 ELSE IF count > UuidLen THEN UuidLen ELSE count
        ok         == opened /\ bytes_read >= UuidLen
    IN  [ok |-> ok, text |-> bytes_read, nul |-> ok]

(***************************************************************************)
(* The caller is given a whole UUID with its NUL, or none                  *)
(* (gen_uuid.c:14-32).                                                     *)
(***************************************************************************)
UuidIsWhole(answer) == answer.ok <=> answer.text = UuidLen /\ answer.nul
=============================================================================
