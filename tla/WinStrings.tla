------------------------------- MODULE WinStrings ------------------------------
(***************************************************************************)
(* The strings and the registry the Windows layer gives to the core.  A    *)
(* character is a number, a string a sequence of them; a wide string is    *)
(* the bytes it is made of, four for a character, as a function from       *)
(* offsets.  What a wide string is read for beyond its bytes is undefined; *)
(* the operators do not.                                                   *)
(***************************************************************************)
EXTENDS Naturals, Sequences, FiniteSets

Smallest(S) == CHOOSE k \in S : \A l \in S : k <= l

(* wcslen looks at no more than 256 bytes. *)
MaxWide == 64
wcslen(w) == Smallest({k \in 0 .. MaxWide : k = MaxWide \/ (4 * k \in DOMAIN w /\ w[4 * k] = 0)})

(* wstrcpy: four bytes for each character, and one that ends the string. *)
wstrcpy(src, n) == [j \in 0 .. 4 * n |-> IF j % 4 = 0 /\ j < 4 * n THEN src[j \div 4 + 1] ELSE 0]

(* strwcpy: one byte of every four. *)
strwcpy(w, n) == [i \in 1 .. n |-> w[4 * (i - 1)]]

(* wcsncpy: no more than the source has, and nothing that ends the copy; *)
(* dest is what was there.                                               *)
wcsncpy(dest, w, n) ==
  LET max == wcslen(w)
      copied == 4 * (IF n > max THEN max ELSE n) IN
  [j \in DOMAIN dest |-> IF j < copied THEN w[j] ELSE dest[j]]

(* wprintk prints the characters. *)
wprintk(w) == strwcpy(w, wcslen(w))

(* wstrcmp is FALSE for a match, which the end of the narrow string ends. *)
wstrcmp(w, with) == \E i \in 1 .. Len(with) :
  (\A k \in 1 .. i - 1 : w[4 * (k - 1)] = with[k]) /\ w[4 * (i - 1)] # with[i]

(* RtlInitUnicodeString: the length is in characters. *)
RtlInitUnicodeString(w) ==
  IF wcslen(w) = 0 THEN [Length |-> 0, Buffer |-> <<>>] ELSE [Length |-> wcslen(w), Buffer |-> w]

(* RtlCompareMemory: how many bytes agree before the first that does not. *)
RtlCompareMemory(s, t, n) ==
  Smallest({k \in 0 .. n : k = n \/ s[k + 1] # t[k + 1]})

(* RegQueryValueEx knows the two firmware paths, under no key. *)
RegQueryValueEx(hKey, name, paths) ==
  IF hKey # 0 THEN [status |-> 0, data |-> <<>>]
  ELSE LET hits == {t \in DOMAIN paths : ~wstrcmp(name, paths[t].tag)} IN
       IF hits = {} THEN [status |-> 1, data |-> <<>>]
       ELSE LET path == paths[Smallest(hits)].path IN [status |-> 0, data |-> wstrcpy(path, Len(path))]

(* RegEnumKey has one entry, the key itself. *)
RegEnumKey(hKey, dwIndex) ==
  IF dwIndex > 0 THEN [status |-> 1, name |-> <<>>] ELSE [status |-> 0, name |-> hKey]

(* KeDelayExecutionThread: 100 ns units, of which no more than ten count. *)
KeDelayExecutionThread(interval) ==
  LET delay == IF interval > 10 THEN 10 ELSE interval IN [ms |-> delay \div 10, us |-> delay % 10]

(* KeStallExecutionProcessor *)
KeStallExecutionProcessor(us) == [ms |-> us \div 1000, us |-> us % 1000]

-------------------------------------------------------------------------------
LOCAL Strings == UNION {[1 .. n -> 1 .. 2] : n \in 0 .. 3}
LOCAL Paths == <<[tag |-> <<1, 2>>, path |-> <<2, 2, 1>>], [tag |-> <<1, 1, 2>>, path |-> <<1>>]>>

(* A narrow string survives the way to a wide one and back; a wide string  *)
(* matches just the narrow ones that begin it.                             *)
ASSUME StringsRoundTrip ==
  \A s \in Strings : LET w == wstrcpy(s, Len(s)) IN
    /\ wcslen(w) = Len(s) /\ strwcpy(w, Len(s)) = s /\ wprintk(w) = s
    /\ RtlInitUnicodeString(w).Length = Len(s)
    /\ \A t \in Strings : Len(t) <= Len(s) => (~wstrcmp(w, t) <=> SubSeq(s, 1, Len(t)) = t)

(* A copy is as long as asked for, or as the source. *)
ASSUME CopiesAgree ==
  \A s \in Strings, n \in 0 .. 3 :
    LET w == wstrcpy(s, Len(s))
        c == wcsncpy([j \in 0 .. 12 |-> 0], w, n) IN
    wprintk(c) = SubSeq(s, 1, IF n < Len(s) THEN n ELSE Len(s))

(* The value of each tag is found, and nothing for a name that is none. *)
ASSUME PathsFound ==
  \A s \in Strings : LET r == RegQueryValueEx(0, wstrcpy(s, Len(s)), Paths) IN
    Len(s) = 3 => IF \E t \in DOMAIN Paths : SubSeq(s, 1, Len(Paths[t].tag)) = Paths[t].tag
                  THEN \E t \in DOMAIN Paths : wprintk(r.data) = Paths[t].path
                  ELSE r.status # 0
===============================================================================
