SPECIFICATION CacheSpec
CONSTANTS
  ScriptA = ScriptA
  ScriptB = ScriptB
  Scripts = {ScriptA, ScriptB}
  Threads = {t1}
  RefIds = {1, 2, 3, 4, 5}
  Objs = {11, 12, 13}
  Nil = Nil
  Null = Null
  Content <- MCBroken
  MaxEvents = 1
INVARIANT FullScriptsReady
