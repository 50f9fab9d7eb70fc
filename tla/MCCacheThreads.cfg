SPECIFICATION CacheSpec
CONSTANTS
  ScriptA = ScriptA
  ScriptB = ScriptB
  Scripts = {ScriptA, ScriptB}
  Threads = {t1, t2}
  RefIds = {1, 2, 3, 4, 5, 6}
  Objs = {11, 12, 13}
  Nil = Nil
  Null = Null
  Content <- MCMutual
  MaxEvents = 3
PROPERTIES Spec RequestsEnd
