-------------------------------- MODULE Ttl --------------------------------
(***************************************************************************)
(* Time-to-live arithmetic of @cacheable/utils (ttl.ts) and of the         *)
(* Cacheable class.  A TTL is a number of milliseconds or Undef, the code's *)
(* `undefined`; shorthand strings are resolved to numbers before they get  *)
(* here.  NaN is not represented: capTtl treats it as a negative number.   *)
(***************************************************************************)
EXTENDS Integers

CONSTANT Undef

ASSUME UndefAssumption == Undef \notin Int

TtlValue == Int \cup {Undef}

\* JavaScript's  a ?? b.
Or(a, b) == IF a # Undef THEN a ELSE b

\* Neither undefined nor zero: what `if (ttl)` and `!ttl` test.
Truthy(t) == t # Undef /\ t # 0

MaxOf(a, b) == IF a >= b THEN a ELSE b
MinOf(a, b) == IF a <= b THEN a ELSE b

\* The operation's own TTL, else the store's default, else the instance's.
getCascadingTtl(instanceTtl, storeTtl, explicitTtl) ==
    Or(explicitTtl, Or(storeTtl, instanceTtl))

\* Remaining lifetime of an entry, undefined when it has none or is past it.
getTtlFromExpires(expires, now) ==
    IF expires = Undef \/ expires < now THEN Undef ELSE expires - now

\* Mutant: the store's own TTL wins over what is left of the entry's lifetime.
calculateTtlFromExpiration_OwnTtl(ttl, expires, now) ==
    IF Truthy(ttl) THEN ttl ELSE getTtlFromExpires(expires, now)

\* TTL of a copy made at `now` of an entry that expires at `expires`.
calculateTtlFromExpiration(ttl, expires, now) ==
    LET remaining == getTtlFromExpires(expires, now)
    IN  IF \/ remaining = Undef
           \/ Truthy(ttl) /\ Truthy(expires) /\ expires > now + ttl
        THEN ttl
        ELSE remaining

\* Upper bound of the instance; a TTL of 0 ("never expires") passes through.
capTtl(ttl, maxTtl) ==
    LET valid == IF ttl # Undef /\ ttl < 0 THEN Undef ELSE ttl
    IN  CASE maxTtl = Undef -> valid
          [] maxTtl # Undef /\ valid = Undef -> maxTtl
          [] OTHER -> MinOf(valid, maxTtl)

\* Mutant: the snapshot takes the shorter TTL.
maxStoreTtl_Shorter(hasSecondary, primaryTtl, secondaryTtl) ==
    IF ~hasSecondary \/ ~Truthy(secondaryTtl) THEN primaryTtl
    ELSE IF Truthy(primaryTtl) THEN MinOf(primaryTtl, secondaryTtl)
    ELSE secondaryTtl

\* TTL of a tag snapshot: the longer of the two stores' TTLs.
maxStoreTtl(hasSecondary, primaryTtl, secondaryTtl) ==
    CASE ~hasSecondary -> primaryTtl
      [] hasSecondary /\ ~(Truthy(primaryTtl) /\ Truthy(secondaryTtl)) -> Undef
      [] OTHER -> MaxOf(primaryTtl, secondaryTtl)

\* TTL of one store for one setMany item.
resolveStoreTtl(instanceTtl, storeTtl, explicitTtl, maxTtl) ==
    capTtl(getCascadingTtl(instanceTtl, storeTtl, explicitTtl), maxTtl)

\* The instance settings accept only a positive number.
positiveOrUndef(ttl) == IF ttl # Undef /\ ttl > 0 THEN ttl ELSE Undef

-----------------------------------------------------------------------------
(* Keyv (external).  An omitted TTL takes the store's default, a TTL of 0   *)
(* never expires, and an entry is served up to and including `expires`.    *)

keyvExpires(ttl, defaultTtl, now) ==
    IF Truthy(Or(ttl, defaultTtl)) THEN now + Or(ttl, defaultTtl) ELSE Undef

notExpired(expires, now) == expires # Undef => now <= expires
=============================================================================
