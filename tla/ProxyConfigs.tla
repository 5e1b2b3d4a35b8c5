----------------------------- MODULE ProxyConfigs -----------------------------
(* What an administrator decides about a proxy ID (internal/server/registry.go, *)
(* redis_registry.go, http.go): whether it is enabled, and until when.  A save  *)
(* replaces the whole entry, and a proxy without one has the default.           *)
EXTENDS Integers

CONSTANTS Proxies,
          LastMoment   \* bound: time stops there

ASSUME ConfigsAssumption == LastMoment \in Nat /\ Proxies # {}

VARIABLE config

Moments == 0..LastMoment
\* The zero time, which stands for no date: a proxy without one is permanent.
Never == LastMoment + 1

Configs == [enabled : BOOLEAN, expires : Moments \cup {Never}]

defaultProxyConfig == [enabled |-> TRUE, expires |-> Never]

\* normalizeProxyConfig: the flag wins over the date, and no date over the flag.
normalizeProxyConfig(enabled, permanent, date) ==
    [enabled |-> enabled, expires |-> IF permanent THEN Never ELSE date]

\* cfg.IsExpired: the moment of expiry itself is still good.
IsExpired(cfg, now) == cfg.expires # Never /\ now > cfg.expires

\* What the SOCKS entry asks of a configuration.
Admits(cfg, now) == cfg.enabled /\ ~IsExpired(cfg, now)

ConfigsInit == config = [p \in Proxies |-> defaultProxyConfig]

\* saveProxyConfig: one block that writes every field of the hash.
saveProxyConfig(p, cfg) == config' = [config EXCEPT ![p] = cfg]

\* SaveProxyConfig stores the fields it is given, whatever the caller knew of the
\* entry that they replace.
SaveProxyConfig(p, enabled, permanent, date) ==
    saveProxyConfig(p, normalizeProxyConfig(enabled, permanent, date))
================================================================================
